------------------------- MODULE WorkspaceRegistry -------------------------
(***************************************************************************)
(* The workspace plugin: workspaces, the output each lives on, the window  *)
(* order in each, what every output shows, and what the core has been told *)
(* of it (the per-output window stacks and the windows' state bags).       *)
(*                                                                         *)
(* A handler changes the registry in one turn and then awaits its effects  *)
(* on the core one by one, with values taken in that turn: other handlers  *)
(* run between them, and an older effect may reach the core after a newer  *)
(* one.  The stack of an animated show is pushed by the transition, frames *)
(* later.                                                                  *)
(***************************************************************************)
EXTENDS Integers, Sequences, FiniteSets, SequencesExt, FiniteSetsExt

CONSTANTS
  Surfaces,     \* toplevel windows
  Names,        \* durable output identifiers
  Boot,         \* the boot output's identifier, BOOT_OUTPUT_NAME
  BootOutputs,  \* config.initialOutputs: output id -> identifier
  MaxHandle,    \* bound: workspaces ever created
  MaxOut,       \* bound: output ids ever assigned (hotplug gives fresh ones)
  CallerPrefs,  \* the preferred outputs callers of workspace.create give
  MaxCommands,  \* bound: commands, maps and unmaps
  MaxFlight     \* bound: handlers with effects under way

OUTPUT_DEFAULT == 0
Fallback == -1
OutIds == Fallback .. MaxOut
Handles == 1 .. MaxHandle
NoHandle == 0

ASSUME ConstantsAssumption ==
  /\ Boot \in Names /\ {MaxHandle, MaxOut, MaxCommands, MaxFlight} \subseteq Nat
  /\ \A q \in CallerPrefs : q \in Seq(Names) /\ IsInjective(q)
  /\ OUTPUT_DEFAULT \in DOMAIN BootOutputs
  /\ BootOutputs[OUTPUT_DEFAULT] = Boot
  /\ \A o \in DOMAIN BootOutputs : o \in 0 .. MaxOut /\ BootOutputs[o] \in Names
  /\ IsInjective(BootOutputs) /\ Cardinality(DOMAIN BootOutputs) < MaxHandle

VARIABLES
  reg,          \* WorkspaceState
  live,         \* liveOutputs: output id -> identifier
  nextOut,      \* the id the next output will have
  stack,        \* the core's outputToplevelStacks
  bag,          \* the windows' state bag entry, the workspace handle
  flight,       \* the handlers with effects to send, the oldest first
  trans,        \* evaluators: output -> the stack its transition will commit
  oldStacks,    \* outputs whose last stack to arrive was out of date
  oldBags,      \* windows whose last bag entry to arrive was out of date
  commands,     \* how many of MaxCommands have been given
  home          \* what each absent output held when it left (see ReplugRestores)

core == <<stack, bag, trans, oldStacks, oldBags>>
vars == <<reg, live, nextOut, core, flight, commands, home>>

Nowhere == [prefs |-> << >>, shown |-> NoHandle]

-----------------------------------------------------------------------------
(* The registry as a value.  push and bags collect the effects: the outputs *)
(* whose stack is sent to the core and the windows whose bag is written.    *)

Empty ==
  [ws |-> << >>, pos |-> [o \in OutIds |-> <<>>],
   shown |-> [o \in OutIds |-> NoHandle], owner |-> [s \in Surfaces |-> NoHandle],
   next |-> 1, last |-> [n \in Names |-> NoHandle], push |-> {}, bags |-> {}]

StackFor(r, o) ==
  IF r.shown[o] = NoHandle THEN <<>> ELSE r.ws[r.shown[o]].members

\* The numbers of a finite set in order.
InOrder(S) ==
  [i \in 1 .. Cardinality(S) |-> CHOOSE n \in S : Cardinality({m \in S : m < n}) = i - 1]

\* The elements of a list that are in K, in their order there.
Kept(s, K) ==
  LET places == InOrder({i \in DOMAIN s : s[i] \in K})
  IN  [i \in DOMAIN places |-> s[places[i]]]

Without(s, x) == Kept(s, ToSet(s) \ {x})

OutputNameOf(lv, o) == IF o \in DOMAIN lv THEN lv[o] ELSE Boot

\* A map with the value of one key set.
Put(f, k, v) == [x \in DOMAIN f \cup {k} |-> IF x = k THEN v ELSE f[x]]

NewWorkspace(o, prefs, persistent) ==
  [output |-> o, prefs |-> prefs, members |-> <<>>, persistent |-> persistent]

\* A new workspace at the end of the list of output o.
Added(r, o, prefs, persistent) ==
  [r EXCEPT !.ws = Put(@, r.next, NewWorkspace(o, prefs, persistent)),
            !.pos[o] = Append(@, r.next),
            !.next = @ + 1]

EnsureOutput(r, o, name) ==
  IF r.pos[o] # <<>> THEN r
  ELSE [Added(r, o, <<name>>, FALSE) EXCEPT !.shown[o] = r.next]

\* Mutant: the members go to the neighbour, the owner map keeps the dead handle.
DestroyForgetsOwner(r, h, name) ==
  LET o    == r.ws[h].output
      rest == Without(r.pos[o], h)
      gone == [r EXCEPT !.ws = [k \in DOMAIN @ \ {h} |-> @[k]], !.pos[o] = rest]
      r1   == IF rest = <<>> THEN Added(gone, o, <<name>>, FALSE) ELSE gone
  IN  [r1 EXCEPT !.ws[r1.pos[o][1]].members = @ \o r.ws[h].members,
                 !.shown[o] = IF @ = h THEN r1.pos[o][1] ELSE @,
                 !.push = @ \cup {o}]

\* The members go to the next workspace of the output (the previous one at the
\* end of the list, a fresh one if there is no other).
Destroy(r, h, name) ==
  LET w      == r.ws[h]
      o      == w.output
      i      == CHOOSE k \in DOMAIN r.pos[o] : r.pos[o][k] = h
      rest   == Without(r.pos[o], h)
      gone   == [r EXCEPT !.ws = [k \in DOMAIN @ \ {h} |-> @[k]], !.pos[o] = rest]
      r1     == IF rest = <<>> THEN Added(gone, o, <<name>>, FALSE) ELSE gone
      target == r1.pos[o][IF i <= Len(r1.pos[o]) THEN i ELSE Len(r1.pos[o])]
      inside == ToSet(w.members)
      shows1 == r.shown[o] = h
  IN  [r1 EXCEPT
        !.ws[target].members = @ \o Kept(w.members, inside \ ToSet(@)),
        !.owner = [s \in Surfaces |-> IF s \in inside THEN target ELSE @[s]],
        !.shown[o] = IF shows1 THEN target ELSE @,
        !.bags = @ \cup inside,
        !.push = IF shows1 \/ (inside # {} /\ r.shown[o] = target)
                 THEN @ \cup {o} ELSE @]

\* A dynamic workspace evaporates when it is empty and not shown.
ReapIfEmpty(r, h) ==
  LET w == r.ws[h]
  IN  IF w.persistent \/ w.members # <<>> \/ r.shown[w.output] = h
      THEN r ELSE Destroy(r, h, Boot)

Show(r, h, name) ==
  LET o    == r.ws[h].output
      prev == r.shown[o]
      r1   == [r EXCEPT !.shown[o] = h, !.last[name] = h]
  IN  IF prev = h THEN r1
      ELSE ReapIfEmpty([r1 EXCEPT !.push = @ \cup {o}], prev)

\* Mutant: the name is put in front without taking out the older mention.
PromotedAgain(prefs, name) == <<name>> \o prefs

\* promotePreferredOutput: an explicit move across outputs is a preference.
Promoted(prefs, name) == <<name>> \o Without(prefs, name)

MoveWindow(r, s, h, name) ==
  LET from == r.owner[s]
      fo   == r.ws[from].output
      to   == r.ws[h].output
      r1   == [r EXCEPT
                !.ws[from].members = Without(@, s),
                !.ws[h].members = Append(@, s),
                !.ws[h].prefs = IF to # fo THEN Promoted(@, name) ELSE @,
                !.owner[s] = h, !.bags = @ \cup {s},
                !.push = @ \cup (IF r.shown[fo] = from THEN {fo} ELSE {})
                           \cup (IF r.shown[to] = h THEN {to} ELSE {})]
  IN  IF from = h THEN r ELSE ReapIfEmpty(r1, from)

\* moveToIndex; promote, swap-next and swap-prev move to the first, the next
\* and the previous place.
Reorder(r, s, n) ==
  LET h    == r.owner[s]
      o    == r.ws[h].output
      rest == Without(r.ws[h].members, s)
      new  == SubSeq(rest, 1, n - 1) \o <<s>> \o SubSeq(rest, n, Len(rest))
  IN  IF new = r.ws[h].members THEN r
      ELSE [r EXCEPT !.ws[h].members = new,
                     !.push = IF r.shown[o] = h THEN @ \cup {o} ELSE @]

ApplyMap(r, s, o, name) ==
  LET r1 == EnsureOutput(r, o, name)
      h  == r1.shown[o]
  IN  [r1 EXCEPT !.ws[h].members = <<s>> \o @, !.owner[s] = h,
                 !.bags = @ \cup {s}, !.push = @ \cup {o}]

\* Mutant: the stack is pushed only while the workspace keeps a member.
ApplyUnmapLastUnpushed(r, s) ==
  LET h  == r.owner[s]
      o  == r.ws[h].output
      r1 == [r EXCEPT !.ws[h].members = Without(@, s), !.owner[s] = NoHandle,
                      !.bags = @ \cup {s}]
  IN  IF r.shown[o] = h
      THEN [r1 EXCEPT !.push = IF Len(r.ws[h].members) > 1 THEN @ \cup {o} ELSE @]
      ELSE ReapIfEmpty(r1, h)

ApplyUnmap(r, s) ==
  LET h  == r.owner[s]
      o  == r.ws[h].output
      r1 == [r EXCEPT !.ws[h].members = Without(@, s), !.owner[s] = NoHandle,
                      !.bags = @ \cup {s}]
  IN  IF r.shown[o] = h THEN [r1 EXCEPT !.push = @ \cup {o}]
                        ELSE ReapIfEmpty(r1, h)

-----------------------------------------------------------------------------
(* recomputeOutputs: an output came or went.                               *)

\* currentLiveOutput: the most preferred output that is live.
LivePrefs(prefs, lv) ==
  {i \in DOMAIN prefs : \E o \in DOMAIN lv : lv[o] = prefs[i]}

HomeOutput(prefs, lv) ==
  LET k == LivePrefs(prefs, lv)
  IN  CASE k # {} -> CHOOSE o \in DOMAIN lv : lv[o] = prefs[Min(k)]
        [] k = {} /\ DOMAIN lv # {} -> Min(DOMAIN lv)
        [] OTHER -> Fallback

\* Mutant: the place a workspace is forced to becomes its first preference.
HomePrefsPromote(prefs, lv) ==
  IF LivePrefs(prefs, lv) = {} /\ DOMAIN lv # {}
  THEN <<lv[Min(DOMAIN lv)]>> \o prefs ELSE prefs

\* Forced somewhere else, a workspace remembers the place with the lowest
\* priority.  (The fallback's own name never matches a live output.)
HomePrefs(prefs, lv) ==
  IF LivePrefs(prefs, lv) = {} /\ DOMAIN lv # {}
  THEN Append(prefs, lv[Min(DOMAIN lv)]) ELSE prefs

\* Steps 1 and 2: every workspace goes home, in handle order.
Migrated(r, lv) ==
  LET to(h)  == HomeOutput(r.ws[h].prefs, lv)
      moved  == {h \in DOMAIN r.ws : to(h) # r.ws[h].output}
      in(o)  == InOrder({h \in moved : to(h) = o})
  IN  [r EXCEPT
        !.ws = [h \in DOMAIN r.ws |->
                  [r.ws[h] EXCEPT !.output = to(h), !.prefs = HomePrefs(@, lv)]],
        !.pos = [o \in OutIds |->
                   Kept(@[o], ToSet(@[o]) \ moved) \o in(o)],
        !.shown = [o \in OutIds |-> IF @[o] \in moved THEN NoHandle ELSE @[o]]]

\* Step 3: a live output left with nothing gets a fresh workspace.
Replenished(r, lv) ==
  LET bare     == {o \in DOMAIN lv : r.pos[o] = <<>>}
      fresh(o) == r.next + Cardinality({x \in bare : x < o})
      place(h) == CHOOSE o \in bare : fresh(o) = h
  IN  [r EXCEPT !.ws = [h \in DOMAIN @ \cup {fresh(o) : o \in bare} |->
                          IF h \in DOMAIN @ THEN @[h]
                          ELSE NewWorkspace(place(h), <<lv[place(h)]>>, FALSE)],
                !.next = @ + Cardinality(bare),
                !.pos = [o \in OutIds |-> IF o \in bare THEN <<fresh(o)>> ELSE @[o]]]

\* Step 4: an output that shows nothing shows what it showed last, if that is
\* here, else its first workspace.
Reshown(r, lv) ==
  LET remembered(o) == IF o \in DOMAIN lv THEN r.last[lv[o]] ELSE NoHandle
      pick(o) == IF remembered(o) \in ToSet(r.pos[o]) THEN remembered(o)
                                                      ELSE r.pos[o][1]
  IN  [r EXCEPT !.shown = [o \in OutIds |->
         IF @[o] = NoHandle /\ r.pos[o] # <<>> THEN pick(o) ELSE @[o]]]

\* Step 5: the stacks of the outputs that now show something else.
Recompute(r, lv) ==
  LET r4 == Reshown(Replenished(Migrated(r, lv), lv), lv)
  IN  [r4 EXCEPT !.push = @ \cup {o \in OutIds : r4.shown[o] # r.shown[o]}]

-----------------------------------------------------------------------------
(* The plugin's handlers. *)

\* A value on its way to the core; old, when it is not what the registry has.
Write(value, out) == [to |-> value, old |-> out]

\* The writes to K are out of date.
Dated(f, K) == [k \in DOMAIN f |-> Write(f[k].to, f[k].old \/ k \in K)]

\* What a handler has left to send, bag entries first; run: a transition.
Effects(stacks, bags, run, sent) ==
  [stacks |-> stacks, bags |-> bags, run |-> run, sent |-> sent]

Pending(q) == Kept(q, {b \in ToSet(q) : DOMAIN b.stacks \cup DOMAIN b.bags # {}})

\* A handler leaves effects b to send: what others have left for the same
\* outputs and windows is out of date.
Queue(b) ==
  LET outs == {o \in DOMAIN b.stacks : ~b.stacks[o].old}
      aged == [i \in DOMAIN flight |->
                 LET e == flight[i]
                 IN  Effects(Dated(e.stacks, outs), Dated(e.bags, DOMAIN b.bags),
                             e.run, e.sent)]
  IN  /\ flight' = Pending(Append(aged, b)) /\ Len(flight') <= MaxFlight
      /\ trans' = Dated(trans, outs)

\* A handler's turn: the new registry, and the call of applyEffects.
Commit(r) ==
  /\ r.next <= MaxHandle + 1
  /\ reg' = [r EXCEPT !.push = {}, !.bags = {}]
  /\ Queue(Effects([o \in r.push |-> Write(StackFor(r, o), FALSE)],
                   [s \in r.bags |-> Write(r.owner[s], FALSE)], FALSE, 0))
  /\ UNCHANGED <<stack, oldStacks, oldBags>>

\* A command ends the quiet spell between an unplug and the replug.
Commanded ==
  /\ commands < MaxCommands /\ commands' = commands + 1
  /\ home' = [n \in Names |-> Nowhere]

\* A command leaves the monitors and the windows alone.
Command(r) == Commanded /\ Commit(r) /\ UNCHANGED <<live, nextOut, bag>>

BootRegistry ==
  LET r == EnsureOutput(Empty, OUTPUT_DEFAULT, Boot)
  IN  Recompute([r EXCEPT !.last[Boot] = 1], BootOutputs)

Init ==
  /\ reg = [BootRegistry EXCEPT !.push = {}]
  /\ live = BootOutputs
  /\ nextOut = Max(DOMAIN BootOutputs) + 1
  /\ stack = [o \in OutIds |-> <<>>]
  /\ bag = [s \in Surfaces |-> NoHandle]
  /\ flight = <<>> /\ trans = << >> /\ oldStacks = {} /\ oldBags = {}
  /\ commands = 0
  /\ home = [n \in Names |-> Nowhere]

\* Commands address a live output or, by default, output 0.
Targets == DOMAIN live \cup {OUTPUT_DEFAULT}
Name(o) == OutputNameOf(live, o)

\* A new workspace prefers what its caller gave, and the output it is made on.
Seeded(prefs, name) ==
  IF name \in ToSet(prefs) THEN prefs ELSE Append(prefs, name)

Create(o, prefs, persistent) ==
  /\ o \in Targets
  /\ Command(Added(EnsureOutput(reg, o, Name(o)), o, Seeded(prefs, Name(o)), persistent))

DestroyAt(h) ==
  /\ Command(Destroy(reg, h, Name(reg.ws[h].output)))

ShowAt(h) ==
  /\ Command(Show(reg, h, Name(reg.ws[h].output)))

\* showWithTransition: the stack is left to a transition on the output.  It is
\* the one the show pushes, or none if the workspace was shown already.
ShowAnimated(h) ==
  LET o == reg.ws[h].output
      r == Show(reg, h, Name(o))
      w == IF o \in r.push THEN Write(StackFor(r, o), FALSE) ELSE Write(<<>>, TRUE)
  IN  /\ o \in DOMAIN live /\ Commanded
      /\ reg' = [r EXCEPT !.push = {}]
      /\ Queue(Effects([x \in {o} |-> w], << >>, TRUE, 0))
      /\ UNCHANGED <<live, nextOut, stack, bag, oldStacks, oldBags>>

MoveTo(s, h) ==
  /\ reg.owner[s] # NoHandle
  /\ Command(MoveWindow(reg, s, h, Name(reg.ws[h].output)))

\* window.fullscreen-output-request: the 0-based place of the shown workspace
\* is used as a 1-based index; place 0 throws and the window stays.
FullscreenRequest(s, o) ==
  /\ reg.owner[s] # NoHandle /\ reg.shown[o] # NoHandle
  /\ \E i \in DOMAIN reg.pos[o] :
       /\ reg.pos[o][i] = reg.shown[o] /\ i > 1
       /\ Command(MoveWindow(reg, s, reg.pos[o][i - 1], Name(o)))

ReorderTo(s, n) ==
  /\ reg.owner[s] # NoHandle /\ n \in 1 .. Len(reg.ws[reg.owner[s]].members)
  /\ Command(Reorder(reg, s, n))

\* A new window maps on a live output, or on the fallback when there is none.
Map(s, o) ==
  /\ reg.owner[s] = NoHandle
  /\ o \in (IF DOMAIN live = {} THEN {Fallback} ELSE DOMAIN live)
  /\ Command(ApplyMap(reg, s, o, Name(o)))

\* The window's bag went with the window.
Unmap(s) ==
  /\ reg.owner[s] # NoHandle
  /\ Commanded /\ Commit(ApplyUnmap(reg, s))
  /\ bag' = [bag EXCEPT ![s] = NoHandle]
  /\ UNCHANGED <<live, nextOut>>

OutputAdded(n) ==
  LET lv == Put(live, nextOut, n)
  IN  /\ nextOut <= MaxOut /\ \A o \in DOMAIN live : live[o] # n
      /\ live' = lv /\ nextOut' = nextOut + 1
      /\ Commit(Recompute(reg, lv))
      /\ UNCHANGED <<bag, commands, home>>

\* output.pre-remove and output.removed, emitted in one turn.
OutputRemoved(o) ==
  LET lv == [x \in DOMAIN live \ {o} |-> live[x]]
      n  == live[o]
  IN  /\ live' = lv
      /\ Commit(Recompute([reg EXCEPT !.last[n] = reg.shown[o]], lv))
      /\ home' = [home EXCEPT ![n] = [
                    prefs |-> [h \in ToSet(reg.pos[o]) |-> reg.ws[h].prefs],
                    shown |-> reg.shown[o]]]
      /\ UNCHANGED <<nextOut, bag, commands>>

-----------------------------------------------------------------------------
(* The core takes the effects.                                             *)

\* The requests of all handlers share one first-in first-out channel, and each
\* handler sends its next when the last was answered: no handler is ahead of
\* one that began before it.
NextToSend(i) ==
  /\ i \in DOMAIN flight /\ ~flight[i].run
  /\ \A j \in 1 .. i - 1 : flight[j].run \/ flight[j].sent > flight[i].sent

\* A key of a map is dropped.
Drop(f, k) == [x \in DOMAIN f \ {k} |-> f[x]]

\* The last write to key k is out of date, or up to date.
Marked(K, k, old) == IF old THEN K \cup {k} ELSE K \ {k}

\* set-state: nothing happens to a window that is gone.
BagArrives(i, s) ==
  /\ NextToSend(i) /\ s \in DOMAIN flight[i].bags
  /\ LET w == flight[i].bags[s]
     IN  /\ bag' = [bag EXCEPT ![s] = IF reg.owner[s] = NoHandle THEN @ ELSE w.to]
         /\ oldBags' = Marked(oldBags, s, w.old)
  /\ flight' = Pending([flight EXCEPT ![i] =
                Effects(@.stacks, Drop(@.bags, s), FALSE, @.sent + 1)])
  /\ UNCHANGED <<reg, live, nextOut, stack, trans, oldStacks, commands, home>>

\* set-output-stack
StackArrives(i, o) ==
  /\ NextToSend(i) /\ DOMAIN flight[i].bags = {} /\ o \in DOMAIN flight[i].stacks
  /\ LET w == flight[i].stacks[o]
     IN  /\ stack' = [stack EXCEPT ![o] = w.to]
         /\ oldStacks' = Marked(oldStacks, o, w.old)
  /\ flight' = Pending([flight EXCEPT ![i] =
                Effects(Drop(@.stacks, o), @.bags, FALSE, @.sent + 1)])
  /\ UNCHANGED <<reg, live, nextOut, bag, trans, oldBags, commands, home>>

\* transitions.run, after the scenes: an output that is gone, or has a
\* transition already, refuses it, and the stack is never set.
TransitionStart(i, o) ==
  /\ i \in DOMAIN flight /\ flight[i].run /\ o \in DOMAIN flight[i].stacks
  /\ LET w == flight[i].stacks[o]
     IN  \/ /\ o \in DOMAIN live \ DOMAIN trans
            /\ trans' = Put(trans, o, w) /\ UNCHANGED oldStacks
         \/ /\ o \notin DOMAIN live \ DOMAIN trans
            /\ oldStacks' = IF w.old THEN oldStacks ELSE oldStacks \cup {o}
            /\ UNCHANGED trans
  /\ flight' = Pending([flight EXCEPT ![i] = Effects(Drop(@.stacks, o), @.bags, TRUE, 0)])
  /\ UNCHANGED <<reg, live, nextOut, stack, bag, oldBags, commands, home>>

\* The completion tick of the transition evaluator.
TransitionEnd(o) ==
  /\ o \in DOMAIN trans
  /\ stack' = [stack EXCEPT ![o] = trans[o].to]
  /\ oldStacks' = Marked(oldStacks, o, trans[o].old)
  /\ trans' = Drop(trans, o)
  /\ UNCHANGED <<reg, live, nextOut, bag, flight, oldBags, commands, home>>

Next ==
  \/ \E o \in OutIds, q \in CallerPrefs, p \in BOOLEAN : Create(o, q, p)
  \/ \E h \in DOMAIN reg.ws : DestroyAt(h) \/ ShowAt(h) \/ ShowAnimated(h)
  \/ \E s \in Surfaces, h \in DOMAIN reg.ws : MoveTo(s, h)
  \/ \E s \in Surfaces, o \in DOMAIN live : FullscreenRequest(s, o)
  \/ \E s \in Surfaces, n \in 1 .. Cardinality(Surfaces) : ReorderTo(s, n)
  \/ \E s \in Surfaces, o \in OutIds : Map(s, o)
  \/ \E s \in Surfaces : Unmap(s)
  \/ \E n \in Names : OutputAdded(n)
  \/ \E o \in DOMAIN live : OutputRemoved(o)
  \/ \E i \in DOMAIN flight, s \in Surfaces : BagArrives(i, s)
  \/ \E i \in DOMAIN flight, o \in OutIds : StackArrives(i, o) \/ TransitionStart(i, o)
  \/ \E o \in OutIds : TransitionEnd(o)

Spec == Init /\ [][Next]_vars

-----------------------------------------------------------------------------
(* What the registry promises. *)

TypeOK ==
  /\ DOMAIN reg.ws \subseteq Handles /\ reg.next \in 1 .. MaxHandle + 1
  /\ \A h \in DOMAIN reg.ws :
       /\ h < reg.next /\ reg.ws[h].output \in OutIds
       /\ reg.ws[h].prefs \in Seq(Names) /\ IsInjective(reg.ws[h].prefs)
       /\ reg.ws[h].members \in Seq(Surfaces)
       /\ reg.ws[h].persistent \in BOOLEAN
  /\ reg.last \in [Names -> Handles \cup {NoHandle}]
  /\ bag \in [Surfaces -> Handles \cup {NoHandle}]
  /\ \A o \in OutIds : stack[o] \in Seq(Surfaces)
  /\ DOMAIN live \subseteq 0 .. nextOut - 1 /\ nextOut \in 1 .. MaxOut + 1
  /\ DOMAIN trans \cup oldStacks \subseteq OutIds /\ oldBags \subseteq Surfaces
  /\ commands \in 0 .. MaxCommands

\* A window is in exactly one workspace, once, through moves, destroys, reaps
\* and migrations: surfaceToHandle and the member lists agree.  A workspace has
\* one place, in the list of its own output; an output with workspaces shows one
\* of its own, one without shows none, and no live output is without (the
\* invariants at the head of registry.ts).
Partitioned ==
  /\ \A s \in Surfaces, h \in DOMAIN reg.ws :
       Cardinality({i \in DOMAIN reg.ws[h].members : reg.ws[h].members[i] = s})
         = IF reg.owner[s] = h THEN 1 ELSE 0
  /\ \A s \in Surfaces : reg.owner[s] \in DOMAIN reg.ws \cup {NoHandle}
  /\ \A h \in DOMAIN reg.ws, o \in OutIds :
       Cardinality({i \in DOMAIN reg.pos[o] : reg.pos[o][i] = h})
         = IF reg.ws[h].output = o THEN 1 ELSE 0
  /\ \A o \in OutIds :
       /\ ToSet(reg.pos[o]) \subseteq DOMAIN reg.ws
       /\ IF reg.pos[o] = <<>> THEN reg.shown[o] = NoHandle
                               ELSE reg.shown[o] \in ToSet(reg.pos[o])
  /\ \A o \in DOMAIN live : reg.pos[o] # <<>>

\* What is under way for an output, or a window, that the registry still means.
StackWrites(o) ==
  {b.stacks[o] : b \in {c \in ToSet(flight) : o \in DOMAIN c.stacks}}
    \cup {trans[x] : x \in DOMAIN trans \cap {o}}
BagWrites(s) ==
  {b.bags[s] : b \in {c \in ToSet(flight) : s \in DOMAIN c.bags}}

\* Every change reaches the core: the stack of an output, gone or live, is the
\* member list of what it shows, and the bag of a mapped window names its
\* workspace, as soon as the newest write has arrived, unless one from an
\* earlier handler arrived after it (or its transition was refused).
MirrorsComplete ==
  /\ \A o \in OutIds \ oldStacks :
       (\A w \in StackWrites(o) : w.old) => stack[o] = StackFor(reg, o)
  /\ \A s \in Surfaces \ oldBags :
       (\A w \in BagWrites(s) : w.old) /\ reg.owner[s] # NoHandle
         => bag[s] = reg.owner[s]

\* What applyEffects does not ensure: once nothing is under way, the core has
\* what the registry has.  No run checks it; the README says how it fails.
MirrorsAgree ==
  flight = <<>> /\ trans = << >> =>
    /\ \A o \in OutIds : stack[o] = StackFor(reg, o)
    /\ \A s \in Surfaces : reg.owner[s] # NoHandle => bag[s] = reg.owner[s]

\* Unplugging an output and plugging it back in, with no command in between but
\* any other hotplug, brings back its workspaces, except one that already
\* preferred another output that is live, and shows again what was shown.
ReplugRestores ==
  [][\A o \in DOMAIN live' \ DOMAIN live :
       LET n    == live'[o]
           was  == home[n]
           at(h) == reg'.ws[h].output
           away(h) == /\ at(h) \in DOMAIN live'
                      /\ \E i, j \in DOMAIN was.prefs[h] :
                           i < j /\ was.prefs[h][i] = live'[at(h)]
                                 /\ was.prefs[h][j] = n
       IN  /\ \A h \in DOMAIN was.prefs : at(h) = o \/ away(h)
           /\ was.shown # NoHandle =>
                reg'.shown[o] = was.shown \/ away(was.shown)]_vars
=============================================================================
