--------------------------- MODULE PluginRuntime ---------------------------
(***************************************************************************)
(* The plugin runtime: one host per plugin (a worker thread, or the main   *)
(* thread for a bundled plugin), the claims on one namespace, the pass     *)
(* that activates the highest claim, and the calls routed to the winner.   *)
(*                                                                         *)
(* Everything the core does is one turn of its event loop.  A promise that *)
(* settles resumes its await in a microtask, before the next turn; the     *)
(* exception is a worker's exit, which drains the worker's last messages   *)
(* and runs in the same turn as they do.                                   *)
(***************************************************************************)
EXTENDS Naturals, Sequences, FiniteSets, SequencesExt, FiniteSetsExt

CONSTANTS
  Plugins,      \* the configured plugins
  InThread,     \* the bundled ones, hosted on the main thread
  Batches,      \* the plugins the first load() call may be given
  Prio,         \* the priority each plugin claims the namespace with
  MaxRestarts,  \* restarts allowed (within one rolling window; 0: "never")
  Calls,        \* calls made through sdk.plugin(..).method(..)
  MaxEvents,    \* bound: crashes, hangs, failed inits and activations, stops,
                \* claims dropped or made after init
  None

ASSUME PluginsAssumption ==
  /\ InThread \subseteq Plugins
  /\ Batches \subseteq SUBSET Plugins
  /\ Prio \in [Plugins -> Nat]
  /\ {MaxRestarts, MaxEvents} \subseteq Nat
  /\ None \notin Plugins \cup Calls
  /\ Calls \cap {"activate", "shutdown", "register", "unregister", "initOk",
               "initFail", "actOk", "actFail", "ack"} = {}

VARIABLES
  host,         \* ManagedPlugin / InThreadPlugin: the core's record per plugin
  realm,        \* the plugin's own side: how far its init is, its API
  out,          \* messages the plugin has posted and the core has not seen
  pend,         \* Endpoint.pending: the core's unanswered requests
  claims,       \* NamespaceRegistry.byNamespace: priority order
  activatedBy,  \* NamespaceRegistry.activatedBy
  pass,         \* activateNamespace in flight
  queued,       \* an activateNamespace microtask is queued
  loading,      \* load(): idle, loading (loadDepth > 0) or activating
  calls,        \* the state of each call
  events        \* how many of MaxEvents have happened

vars == <<host, realm, out, pend, claims, activatedBy, pass, queued, loading,
          calls, events>>

Workers == Plugins \ InThread
Requests == {"activate", "shutdown"} \cup Calls
Replies == {"actOk", "actFail", "ack"} \cup Calls
Messages == {"register", "unregister", "initOk", "initFail"} \cup Replies

-----------------------------------------------------------------------------
(* Records and the initial state. *)

Hosts ==
  [state : {"unspawned", "spawning", "live", "shutting-down", "failed"},
   stopping : {"no", "asked", "killing", "done"},
   restarts : 0 .. MaxRestarts, settled : BOOLEAN,
   ep : {"null", "open", "closed"},
   thread : {"none", "main", "running", "stuck", "exiting"},
   initTimer : BOOLEAN, pingTimer : BOOLEAN]

Realms == [phase : {"loading", "up", "failed"},
           api : {"none", "pending", "partial", "active"}]

\* A spawn that does not arm the init timer.
SpawnedUntimed(p, h) ==
  [h EXCEPT !.state = "spawning", !.ep = "open", !.initTimer = FALSE,
            !.pingTimer = FALSE,
            !.thread = IF p \in InThread THEN "main" ELSE "running"]

\* spawn(): a new generation of the plugin; the restart history stays.
SpawnedHost(p, h) ==
  [h EXCEPT !.state = "spawning", !.ep = "open", !.initTimer = TRUE,
            !.pingTimer = FALSE,
            !.thread = IF p \in InThread THEN "main" ELSE "running"]

FreshRealm == [phase |-> "loading", api |-> "none"]

UnspawnedHost ==
  [state |-> "unspawned", stopping |-> "no",
   restarts |-> 0, settled |-> FALSE, ep |-> "null",
   thread |-> "none", initTimer |-> FALSE, pingTimer |-> FALSE]

IdlePass == [pc |-> "idle", target |-> None]

Init ==
  /\ \E batch \in Batches :
       host = [p \in Plugins |-> IF p \in batch THEN SpawnedHost(p, UnspawnedHost)
                                               ELSE UnspawnedHost]
  /\ realm = [p \in Plugins |-> FreshRealm]
  /\ out = [p \in Plugins |-> <<>>]
  /\ pend = [p \in Plugins |-> {}]
  /\ claims = <<>> /\ activatedBy = None
  /\ pass = IdlePass /\ queued = FALSE /\ loading = "loading"
  /\ calls = [c \in Calls |-> "idle"]
  /\ events = 0

TypeOK ==
  /\ host \in [Plugins -> Hosts]
  /\ realm \in [Plugins -> Realms]
  /\ out \in [Plugins -> Seq(Messages)]
  /\ pend \in [Plugins -> SUBSET Requests]
  /\ claims \in Seq(Plugins) /\ IsInjective(claims)
  /\ activatedBy \in Plugins \cup {None}
  /\ pass \in [pc : {"idle", "await", "ok", "err", "stopping"},
               target : Plugins \cup {None}]
  /\ queued \in BOOLEAN
  /\ loading \in {"idle", "loading", "activating"}
  /\ calls \in [Calls -> {"idle", "waiting", "ready", "sent", "settled"}]
  /\ events \in 0 .. MaxEvents

-----------------------------------------------------------------------------
(* The registry and the endpoint. *)

Claimed(p) == p \in Range(claims)

\* A claim that queues behind the others whatever its priority.
AppendClaim(p) == Append(claims, p)

\* register: before the first claim of a lower priority (ties: earlier wins).
InsertClaim(p) ==
  LET lower == {i \in DOMAIN claims : Prio[claims[i]] < Prio[p]}
  IN  InsertAt(claims, Min(lower \cup {Len(claims) + 1}), p)

WithoutClaim(p) == RemoveFirst(claims, p)

\* A loss of the activation that nobody is told of.
DropClaimQuietly(p) ==
  /\ claims' = WithoutClaim(p)
  /\ activatedBy' = IF activatedBy = p THEN None ELSE activatedBy
  /\ UNCHANGED queued

\* unregister: the activation goes with the claim, and its loss queues a pass
\* unless a load batch is under way.
DropClaim(p) ==
  /\ claims' = WithoutClaim(p)
  /\ activatedBy' = IF activatedBy = p THEN None ELSE activatedBy
  /\ queued' = (queued \/ (activatedBy = p /\ loading # "loading"))

\* endpointHandle: the endpoint of a live plugin (it may be closed already).
Routable(p) == host[p].state = "live" /\ host[p].ep # "null"

\* Endpoint.close: every pending request is rejected.
RejectedCalls(p) ==
  [c \in Calls |-> IF c \in pend[p] THEN "settled" ELSE calls[c]]

RejectedPass(p) ==
  IF "activate" \in pend[p] THEN [pass EXCEPT !.pc = "err"] ELSE pass

\* close() and releasePlugin(): what every teardown path runs.
Release(p) ==
  /\ DropClaim(p)
  /\ pend' = [pend EXCEPT ![p] = {}]
  /\ calls' = RejectedCalls(p)

Post(p, m) == out' = [out EXCEPT ![p] = Append(@, m)]

StopDone(p) == host[p].stopping = "done"

\* The awaits of an activation pass resume in microtasks, before the next turn.
PassResumes ==
  \/ pass.pc \in {"ok", "err"}
  \/ pass.pc = "stopping" /\ StopDone(pass.target)
Microtask == queued \/ PassResumes

\* A turn of the core's loop.  A message of an in-thread plugin is itself a
\* microtask (pair-channel.ts) and may come between the others.
Turn(p) == p \in InThread \/ ~Microtask

-----------------------------------------------------------------------------
(* load(): spawn a batch, wait until each plugin is live or failed, then   *)
(* activate.                                                               *)

Spawned(p) == host[p].state # "unspawned"

\* The loop of activateNamespace over the claims cs: a claim whose plugin is
\* not live is dropped, the first other claimant is asked to activate.
SelectClaimant(cs) ==
  LET live == {i \in DOMAIN cs : Routable(cs[i])}
      i    == Min(live)
      t    == cs[i]
  IN  IF live = {}
      THEN /\ claims' = <<>> /\ pass' = IdlePass /\ UNCHANGED pend
      ELSE /\ claims' = SubSeq(cs, i, Len(cs))
           /\ IF host[t].ep = "open"
              THEN /\ pass' = [pc |-> "await", target |-> t]
                   /\ pend' = [pend EXCEPT ![t] = @ \cup {"activate"}]
              ELSE pass' = [pc |-> "err", target |-> t] /\ UNCHANGED pend

\* The batch has settled: activatePendingNamespaces.  With a pass in flight
\* the call returns at once, and so does load().
EndLoad ==
  /\ loading = "loading"
  /\ \A p \in Plugins : Spawned(p) => host[p].settled
  /\ IF activatedBy = None /\ claims # <<>> /\ pass.pc = "idle"
     THEN loading' = "activating" /\ SelectClaimant(claims)
     ELSE loading' = "idle" /\ UNCHANGED <<claims, pass, pend>>
  /\ UNCHANGED <<host, realm, out, activatedBy, queued, calls, events>>

LoadReturns ==
  /\ loading = "activating" /\ pass.pc = "idle"
  /\ loading' = "idle"
  /\ UNCHANGED <<host, realm, out, pend, claims, activatedBy, pass, queued,
                 calls, events>>

StartLoad ==
  /\ loading = "idle" /\ ~Microtask
  /\ \E p \in Plugins : ~Spawned(p)
  /\ loading' = "loading"
  /\ host' = [p \in Plugins |->
                IF Spawned(p) THEN host[p] ELSE SpawnedHost(p, host[p])]
  /\ UNCHANGED <<realm, out, pend, claims, activatedBy, pass, queued, calls,
                 events>>

-----------------------------------------------------------------------------
(* The plugin's side.  A worker runs while its thread does; nothing can    *)
(* stop the main thread's plugins.                                         *)

Runs(p) == host[p].thread \in {"main", "running"}

Event == events < MaxEvents /\ events' = events + 1

\* sdk.registerPlugin: init is stored, the claim is posted.
RealmRegister(p) ==
  /\ Runs(p) /\ realm[p].api = "none"
  /\ \/ realm[p].phase = "loading" /\ UNCHANGED events
     \/ realm[p].phase = "up" /\ Event
  /\ realm' = [realm EXCEPT ![p].api = "pending"]
  /\ Post(p, "register")
  /\ UNCHANGED <<host, pend, claims, activatedBy, pass, queued, loading, calls>>

\* The handle's unregister(): the API is gone before the core hears of it.
RealmUnregister(p) ==
  /\ Runs(p) /\ realm[p].phase = "up" /\ realm[p].api # "none"
  /\ Event
  /\ realm' = [realm EXCEPT ![p].api = "none"]
  /\ Post(p, "unregister")
  /\ UNCHANGED <<host, pend, claims, activatedBy, pass, queued, loading, calls>>

\* The module's init returned or threw.
RealmInit(p, ok) ==
  /\ Runs(p) /\ realm[p].phase = "loading"
  /\ IF ok THEN UNCHANGED events ELSE Event
  /\ realm' = [realm EXCEPT ![p].phase = IF ok THEN "up" ELSE "failed"]
  /\ Post(p, IF ok THEN "initOk" ELSE "initFail")
  /\ UNCHANGED <<host, pend, claims, activatedBy, pass, queued, loading, calls>>

\* A worker thread dies, or spins for a while, or forever.
RealmCrash(p) ==
  /\ host[p].thread \in {"running", "stuck"} /\ Event
  /\ host' = [host EXCEPT ![p].thread = "exiting"]
  /\ UNCHANGED <<realm, out, pend, claims, activatedBy, pass, queued, loading,
                 calls>>

RealmHang(p) ==
  /\ \/ host[p].thread = "running" /\ Event
     \/ host[p].thread = "stuck" /\ UNCHANGED events
  /\ host' = [host EXCEPT ![p].thread = IF @ = "stuck" THEN "running" ELSE "stuck"]
  /\ UNCHANGED <<realm, out, pend, claims, activatedBy, pass, queued, loading,
                 calls>>

\* plugin.activate: the stored init runs, or throws half way; an API that is
\* already there is reported again, a claim that is gone is an error.
RealmActivate(p) ==
  /\ Runs(p) /\ "activate" \in pend[p]
  /\ Range(out[p]) \cap {"actOk", "actFail"} = {}
  /\ \/ /\ realm[p].api # "none"
        /\ realm' = [realm EXCEPT ![p].api = "active"]
        /\ Post(p, "actOk") /\ UNCHANGED events
     \/ /\ realm[p].api \in {"pending", "partial"} /\ Event
        /\ realm' = [realm EXCEPT ![p].api = "partial"]
        /\ Post(p, "actFail")
     \/ /\ realm[p].api = "none"
        /\ Post(p, "actFail") /\ UNCHANGED <<realm, events>>
  /\ UNCHANGED <<host, pend, claims, activatedBy, pass, queued, loading, calls>>

\* The reply to a shutdown request or to a call.
ReplyTo(r) == IF r = "shutdown" THEN "ack" ELSE r

RealmReply(p, r) ==
  /\ Runs(p) /\ r \in pend[p] \ {"activate"}
  /\ ReplyTo(r) \notin Range(out[p])
  /\ Post(p, ReplyTo(r))
  /\ UNCHANGED <<host, realm, pend, claims, activatedBy, pass, queued, loading,
                 calls, events>>

-----------------------------------------------------------------------------
(* The core receives a message.  Endpoint.dispatch does not look at        *)
(* closed: events of a plugin that is stopping, or was given up, count.    *)

Receive(p, m) ==
  /\ Turn(p) /\ out[p] # <<>> /\ Head(out[p]) = m
  /\ out' = [out EXCEPT ![p] = Tail(@)]

OnRegister(p) ==
  /\ Receive(p, "register")
  /\ IF Claimed(p)
     THEN UNCHANGED <<claims, queued>>
     ELSE /\ claims' = InsertClaim(p)
          /\ queued' = (queued \/ loading # "loading")
  /\ UNCHANGED <<host, realm, pend, activatedBy, pass, loading, calls, events>>

OnUnregister(p) ==
  /\ Receive(p, "unregister")
  /\ DropClaim(p)
  /\ UNCHANGED <<host, realm, pend, pass, loading, calls, events>>

OnInitOk(p) ==
  /\ Receive(p, "initOk")
  /\ host' = [host EXCEPT ![p] =
                [host[p] EXCEPT !.state = "live", !.initTimer = FALSE,
                                !.settled = TRUE, !.pingTimer = p \in Workers]]
  /\ UNCHANGED <<realm, pend, claims, activatedBy, pass, queued, loading, calls,
                 events>>

\* A host that is finished with; a stop() that waits for it returns.
GivenUp(h) ==
  [h EXCEPT !.state = "failed", !.ep = "null", !.settled = TRUE,
            !.initTimer = FALSE, !.stopping = IF @ = "no" THEN @ ELSE "done"]

\* An in-thread plugin is given up on the main thread itself.
GiveUp(p) ==
  /\ host' = [host EXCEPT ![p] = GivenUp(host[p])]
  /\ Release(p) /\ pass' = RejectedPass(p)

\* worker.terminate(): the restart policy waits for the exit.
Terminating(h) ==
  [h EXCEPT !.initTimer = FALSE, !.thread = "exiting"]

InitFailed(p) ==
  IF p \in InThread
  THEN GiveUp(p)
  ELSE /\ host' = [host EXCEPT ![p] = Terminating(host[p])]
       /\ UNCHANGED <<pend, claims, activatedBy, pass, queued, calls>>

OnInitFail(p) ==
  /\ Receive(p, "initFail") /\ InitFailed(p)
  /\ UNCHANGED <<realm, loading, events>>

\* onIncomingResponse: a reply nobody waits for any more is ignored.
OnActivateReply(p, m) ==
  /\ m \in {"actOk", "actFail"} /\ Receive(p, m)
  /\ pend' = [pend EXCEPT ![p] = @ \ {"activate"}]
  /\ pass' = IF "activate" \in pend[p]
             THEN [pass EXCEPT !.pc = IF m = "actOk" THEN "ok" ELSE "err"]
             ELSE pass
  /\ UNCHANGED <<host, realm, claims, activatedBy, queued, loading, calls,
                 events>>

OnCallReply(p, c) ==
  /\ Receive(p, c)
  /\ pend' = [pend EXCEPT ![p] = @ \ {c}]
  /\ calls' = IF c \in pend[p] THEN [calls EXCEPT ![c] = "settled"] ELSE calls
  /\ UNCHANGED <<host, realm, claims, activatedBy, pass, queued, loading,
                 events>>

-----------------------------------------------------------------------------
(* stop(), the watchdogs and the exit of a worker.                         *)

\* The plugin has answered the shutdown, or had its time.
StopProceeds(p) ==
  IF p \in InThread
  THEN GiveUp(p)
  ELSE /\ host' = [host EXCEPT ![p].stopping = "killing", ![p].thread = "exiting"]
       /\ UNCHANGED <<claims, activatedBy, pass, queued, calls>>

OnShutdownReply(p) ==
  /\ Receive(p, "ack")
  /\ IF "shutdown" \in pend[p] /\ host[p].stopping = "asked"
     THEN /\ StopProceeds(p)
          /\ p \in Workers => pend' = [pend EXCEPT ![p] = @ \ {"shutdown"}]
     ELSE /\ pend' = [pend EXCEPT ![p] = @ \ {"shutdown"}]
          /\ UNCHANGED <<host, claims, activatedBy, pass, queued, calls>>
  /\ UNCHANGED <<realm, loading, events>>

ShutdownTimeout(p) ==
  /\ ~Microtask /\ host[p].stopping = "asked"
  /\ StopProceeds(p)
  /\ p \in Workers => UNCHANGED pend
  /\ UNCHANGED <<realm, out, loading, events>>

\* stop(): nothing to ask when the endpoint is gone; a closed endpoint
\* rejects the request, which goes straight to terminate().
StopHost(p) ==
  LET h    == host[p]
      ask  == h.ep = "open" /\ h.stopping = "no"
  IN  /\ host' = [host EXCEPT ![p] =
                    [h EXCEPT
                       !.initTimer = FALSE, !.pingTimer = FALSE,
                       !.settled = @ \/ h.ep = "null",
                       !.state = IF h.ep = "null" THEN "failed"
                                                  ELSE "shutting-down",
                       !.stopping = CASE h.ep = "null" -> "done"
                                      [] h.ep = "closed" -> "killing"
                                      [] ask -> "asked"
                                      [] OTHER -> @]]
      /\ IF h.ep = "null"
         THEN Release(p)
         ELSE /\ pend' = IF ask THEN [pend EXCEPT ![p] = @ \cup {"shutdown"}]
                                ELSE pend
              /\ UNCHANGED <<claims, activatedBy, queued, calls>>

\* stopByName, reload or the shutdown of the runtime; once per plugin.
Stop(p) ==
  /\ ~Microtask /\ Spawned(p) /\ host[p].stopping = "no" /\ Event
  /\ StopHost(p)
  /\ UNCHANGED <<realm, out, pass, loading>>

InitTimeout(p) ==
  /\ ~Microtask /\ host[p].initTimer /\ host[p].state = "spawning"
  /\ InitFailed(p)
  /\ UNCHANGED <<realm, out, loading, events>>

\* The watchdog: maxMissedPongs intervals without a pong, forceTerminate.  A
\* thread that runs pongs in time.
PingTimeout(p) ==
  /\ ~Microtask /\ host[p].pingTimer /\ host[p].state = "live" /\ ~Runs(p)
  /\ host' = [host EXCEPT ![p] =
                [Terminating(host[p]) EXCEPT !.pingTimer = FALSE, !.ep = "closed"]]
  /\ Release(p) /\ pass' = RejectedPass(p)
  /\ UNCHANGED <<realm, out, loading, events>>

\* The restart policy: never after stop(), and only within the budget.
RespawnsOverBudget(p) == host[p].stopping = "no" /\ host[p].restarts <= MaxRestarts
RespawnsWhenStopped(p) == host[p].restarts < MaxRestarts
Respawns(p) == host[p].stopping = "no" /\ host[p].restarts < MaxRestarts

\* onExit, with the worker's last messages drained in the same turn.
Exit(p) ==
  /\ host[p].thread = "exiting" /\ out[p] = <<>>
  /\ ~Microtask \/ pass.target = p
  /\ Release(p) /\ pass' = RejectedPass(p)
  /\ IF Respawns(p)
     THEN /\ host' = [host EXCEPT ![p] =
                        SpawnedHost(p, [host[p] EXCEPT !.restarts = @ + 1])]
          /\ realm' = [realm EXCEPT ![p] = FreshRealm]
     ELSE /\ host' = [host EXCEPT ![p] =
                        [GivenUp(host[p]) EXCEPT !.thread = "none",
                                                 !.pingTimer = FALSE]]
          /\ UNCHANGED realm
  /\ UNCHANGED <<out, loading, events>>

-----------------------------------------------------------------------------
(* The activation pass.                                                    *)

\* A queued activateNamespace; with a pass in flight, or a winner, a no-op.
PassStart ==
  /\ queued /\ queued' = FALSE
  /\ IF pass.pc = "idle" /\ activatedBy = None
     THEN SelectClaimant(claims)
     ELSE UNCHANGED <<claims, pass, pend>>
  /\ UNCHANGED <<host, realm, out, activatedBy, loading, calls, events>>

\* markActivated without its look at the claims.
PassOkUnchecked ==
  /\ pass.pc = "ok" /\ pass' = IdlePass
  /\ activatedBy' = pass.target
  /\ UNCHANGED <<host, realm, out, pend, claims, queued, loading, calls, events>>

\* markActivated throws when the claim went away under the request.
PassOk ==
  /\ pass.pc = "ok"
  /\ IF Claimed(pass.target)
     THEN /\ activatedBy' = pass.target /\ pass' = IdlePass
          /\ calls' = [c \in Calls |->
                         IF calls[c] = "waiting" THEN "ready" ELSE calls[c]]
     ELSE /\ pass' = [pass EXCEPT !.pc = "err"]
          /\ UNCHANGED <<activatedBy, calls>>
  /\ UNCHANGED <<host, realm, out, pend, claims, queued, loading, events>>

\* The catch: the claimant is stopped, whatever went wrong.
PassErr ==
  /\ pass.pc = "err"
  /\ pass' = [pass EXCEPT !.pc = "stopping"]
  /\ StopHost(pass.target)
  /\ UNCHANGED <<realm, out, loading, events>>

\* On to the next claim without waiting for the failed claimant to stop.
PassRetryUnawaited ==
  /\ pass.pc = "stopping"
  /\ SelectClaimant(WithoutClaim(pass.target))
  /\ UNCHANGED <<host, realm, out, activatedBy, queued, loading, calls, events>>

PassRetry ==
  /\ pass.pc = "stopping" /\ StopDone(pass.target)
  /\ SelectClaimant(WithoutClaim(pass.target))
  /\ UNCHANGED <<host, realm, out, activatedBy, queued, loading, calls, events>>

-----------------------------------------------------------------------------
(* sdk.plugin(name).method(): wait for a winner, then route to it.         *)

Wait(c) ==
  /\ ~Microtask /\ calls[c] = "idle"
  /\ calls' = [calls EXCEPT ![c] = IF activatedBy = None THEN "waiting"
                                                         ELSE "ready"]
  /\ UNCHANGED <<host, realm, out, pend, claims, activatedBy, pass, queued,
                 loading, events>>

WaitTimeout(c) ==
  /\ ~Microtask /\ calls[c] = "waiting"
  /\ calls' = [calls EXCEPT ![c] = "settled"]
  /\ UNCHANGED <<host, realm, out, pend, claims, activatedBy, pass, queued,
                 loading, events>>

Invoke(c) ==
  /\ ~Microtask /\ calls[c] = "ready"
  /\ LET p      == activatedBy
         routed == p # None /\ Routable(p) /\ host[p].ep = "open"
     IN  /\ calls' = [calls EXCEPT ![c] = IF routed THEN "sent" ELSE "settled"]
         /\ pend' = IF routed THEN [pend EXCEPT ![p] = @ \cup {c}] ELSE pend
  /\ UNCHANGED <<host, realm, out, claims, activatedBy, pass, queued, loading,
                 events>>

-----------------------------------------------------------------------------

Realm(p) ==
  \/ RealmRegister(p) \/ RealmUnregister(p)
  \/ RealmInit(p, TRUE) \/ RealmInit(p, FALSE)
  \/ RealmCrash(p) \/ RealmHang(p)
  \/ RealmActivate(p) \/ \E r \in Requests : RealmReply(p, r)

Deliver(p) ==
  \/ OnRegister(p) \/ OnUnregister(p) \/ OnInitOk(p) \/ OnInitFail(p)
  \/ OnActivateReply(p, "actOk") \/ OnActivateReply(p, "actFail")
  \/ \E c \in Calls : OnCallReply(p, c)
  \/ OnShutdownReply(p)

Timer(p) == ShutdownTimeout(p) \/ InitTimeout(p) \/ PingTimeout(p)

Resume == PassStart \/ PassOk \/ PassErr \/ PassRetry

Next ==
  \/ \E p \in Plugins : Realm(p) \/ Deliver(p) \/ Timer(p) \/ Stop(p)
                        \/ Exit(p)
  \/ Resume
  \/ EndLoad \/ LoadReturns \/ StartLoad
  \/ \E c \in Calls : Wait(c) \/ WaitTimeout(c) \/ Invoke(c)

Spec == Init /\ [][Next]_vars

\* Messages, exits and microtasks are processed and timers fire.  Nothing makes
\* a plugin finish an activation (which has no timeout), answer a call or a
\* shutdown, or pong in time.
FairSpec ==
  /\ Spec
  /\ WF_vars(Resume) /\ WF_vars(EndLoad) /\ WF_vars(LoadReturns)
  /\ \A p \in Plugins :
       /\ WF_vars(Deliver(p)) /\ WF_vars(Exit(p)) /\ WF_vars(ShutdownTimeout(p))
       /\ WF_vars(InitTimeout(p)) /\ WF_vars(PingTimeout(p))

-----------------------------------------------------------------------------
(* What the runtime promises. *)

\* The winner calls are routed to has run its init: its claim is in place and
\* its API exists, until the core hears of the unregister.  The exception is a
\* bundled plugin whose unregister and new claim, being microtasks, overtake the
\* await of its own activation: markActivated then marks the new claim.  No
\* winner is replaced while a pass runs (activation never preempts).
ActivationBacked ==
  /\ activatedBy # None =>
       /\ Claimed(activatedBy)
       /\ \/ realm[activatedBy].api = "active"
          \/ "unregister" \in Range(out[activatedBy])
          \/ activatedBy \in InThread /\ realm[activatedBy].api = "pending"
       /\ pass.pc = "idle"
  /\ pass.pc = "await" => "activate" \in pend[pass.target]

\* Only one provider's init has taken effect at a time, failed attempts
\* included: a claimant whose activation threw half way is stopped before the
\* next one is asked (docs/core-plugin-api.md: only the winner's init executes).
OneInit ==
  Cardinality({p \in Plugins : /\ realm[p].api \in {"active", "partial"}
                               /\ Runs(p) \/ host[p].thread = "stuck"
                               /\ host[p].state # "failed"}) <= 1

\* A worker that stop() or the restart policy has finished with leaves nothing
\* behind: no thread, endpoint, claim, activation or unanswered request, and no
\* crash, timeout or late init in between makes onExit respawn what stop() kills.
\* An invoke of a plugin that dies is rejected, never lost: a call that waits
\* for a reply is waiting at a running generation of some plugin.
FinishedReleased ==
  /\ \A p \in Workers :
       /\ host[p].stopping = "killing" => host[p].thread = "exiting"
       /\ (host[p].state = "failed" \/ StopDone(p)) =>
            /\ host[p].thread = "none" /\ host[p].ep = "null"
            /\ host[p].state = "failed" /\ host[p].settled
            /\ ~Claimed(p) /\ activatedBy # p /\ pend[p] = {}
  /\ \A c \in Calls : calls[c] = "sent" =>
       \E p \in Plugins : c \in pend[p] /\ host[p].ep = "open"

\* The priority chain: outside a load batch, a namespace with claims has a
\* winner, or a pass is on its way to find one.
FailoverPending ==
  (loading # "loading" /\ claims # <<>> /\ activatedBy = None) =>
    queued \/ pass.pc # "idle"

\* The plugin asked to activate is one no live claimant outranks, although
\* claims come and go, and plugins die, while a pass awaits the previous one.
HighestClaimAsked ==
  [][\A p, q \in Plugins :
       /\ "activate" \in pend'[p] \ pend[p]
       /\ Claimed(q) /\ Routable(q)
       => Prio[q] <= Prio[p]]_vars

\* load() returns: each plugin's init ends, is timed out or is given up, and
\* the activation pass runs out of claimants or finds one.  The one thing that
\* may hold it up is a provider whose activation never ends and that does not
\* die either: of all the requests, plugin.activate alone has no timeout.
LoadSettles ==
  []<>(pass.pc # "await") => (loading # "idle" ~> loading = "idle")

\* runtime.ts:58-62, over the spawn-phase watchdog: "without this bound, an
\* init that never settles would block load() -- and compositor startup --
\* forever with no diagnostic".  The bound does not cover a provider's init,
\* which plugin.activate awaits: no run lists this property, the README says
\* how it fails.
LoadAlwaysSettles == loading # "idle" ~> loading = "idle"
=============================================================================
