------------------------ MODULE DmabufExecutorProofs ------------------------
(***************************************************************************)
(* Proofs about DmabufExecutor, for any sets of buffers, surfaces, serials *)
(* and imports.  The inductive invariant relates each of the machine's     *)
(* entries to the executor's maps, the client's loans and the destroyed    *)
(* buffers (Fits), and says who owns which import (Owned).  A turn steps   *)
(* the machine, which flushes entries, and dispatches the intents: that    *)
(* dispatching turns an executor that fits the entries before the flush    *)
(* into one that fits the entries after it is proved once (DispatchFits).  *)
(***************************************************************************)
EXTENDS DmabufExecutor, FiniteSetTheorems, TLAPS

InQueue(y, b) == \E j \in 1..Len(y.queue) : y.queue[j].buf = b

(* An entry whose import is to go is no surface's current buffer, and an   *)
(* absent entry is blank.                                                  *)
Sane(r) ==
  /\ r.importOwed => r.currentSurfaceId = NoSurface
  /\ r.destroyed => r.importOwed /\ ~r.releaseOwed
  /\ r.state = "Absent" => r = AbsentRec

(* The entry r of b against the executor y and the destroyed buffers gn. *)
Fits(r, b, y, gn) ==
  /\ Sane(r)
  /\ r.state = "Imported" <=> y.imports[b] # NoImport
  /\ r.state = "Importing" <=> InQueue(y, b)
  /\ r.state # "Absent" => (r.destroyed <=> b \in gn)

(* A surface waits for b's import only while there is one to wait for. *)
Served(r, b, y) == y.pending[b] # {} => r.state \in {"Importing", "Poisoned"}

(* Every release queued or owed, and every surface that has the buffer, is *)
(* covered by a commit hd counts.                                          *)
Shows(surf, b) == Cardinality({s \in SurfaceIds : surf[s] = b})

Paid(recs, surf, y, hd, gn) ==
  \A b \in BufferIds \ gn :
    y.freed[b] + Owed(recs[b]) + Shows(surf, b) <= hd[b]

(* Each import is owned by one entry of one map, or is on the queue. *)
Owners(y) ==
  /\ \A b \in BufferIds :
       /\ y.imports[b] # NoImport => y.imports[b] \in y.live
       /\ y.zombies[b] # NoImport => y.zombies[b] \in y.live
  /\ \A b, c \in BufferIds :
       /\ y.imports[b] = y.imports[c] /\ y.imports[b] # NoImport => b = c
       /\ y.zombies[b] = y.zombies[c] /\ y.zombies[b] # NoImport => b = c
       /\ y.imports[b] # NoImport => y.imports[b] # y.zombies[c]

(* A parked import is displayed. *)
Parked(y) == \A b \in BufferIds : y.zombies[b] # NoImport => Displayed(y, b, y.zombies[b])

(* The imports on the queue are new, and each is another buffer's. *)
Lined(y) ==
  /\ \A j \in 1..Len(y.queue) :
       /\ y.queue[j].imp \notin y.live
       /\ \A s \in SurfaceIds : y.texture[s].imp # y.queue[j].imp
  /\ \A j, k \in 1..Len(y.queue) :
       y.queue[j].imp = y.queue[k].imp \/ y.queue[j].buf = y.queue[k].buf => j = k

Owned(y) == Owners(y) /\ Parked(y) /\ Lined(y)

Fitting(recs, y, gn) ==
  \A b \in BufferIds : Fits(recs[b], b, y, gn) /\ Served(recs[b], b, y)

(* The machine k, the executor y, the loans and the destroyed buffers. *)
Core(k, y, hd, gn) ==
  /\ Owned(y) /\ Fitting(k.buffers, y, gn)
  /\ Paid(k.buffers, k.surfaces, y, hd, gn)

(* The inductive invariant. *)
IInv == TypeOK /\ Core(m, x, held, gone)

-----------------------------------------------------------------------------
(* What a flush and a dispatch do.                                         *)

(* The intents that are no release and no teardown. *)
Silent(emitted) == \A i \in emitted : i.kind \notin {"releaseImport", "sendWlRelease"}

(* The executor y can dispatch the flush of the entries recs. *)
Flushable(recs, flush, y, gn) ==
  /\ \A b \in BufferIds : Sane(recs[b])
  /\ \A b \in flush : Fits(recs[b], b, y, gn)

(* maybeFlush would tear the entry's import down, and send its release. *)
Torn(r) == ~FlushBlocked(r) /\ r.importOwed

Releases(r) == ~FlushBlocked(r) /\ r.releaseOwed /\ ~r.destroyed

(* The entry a flush leaves. *)
LEMMA FlushedFacts ==
  ASSUME NEW r \in BufferRec, Sane(r)
  PROVE  /\ FlushedRec(r) \in BufferRec /\ Sane(FlushedRec(r))
         /\ Torn(r) => /\ r.state \in {"Imported", "Poisoned"}
                       /\ FlushedRec(r) = AbsentRec
         /\ ~Torn(r) => /\ FlushedRec(r).state = r.state
                        /\ FlushedRec(r).destroyed = r.destroyed
         /\ FlushedRec(r).releaseOwed => r.releaseOwed
         /\ Releases(r) => r.releaseOwed /\ ~FlushedRec(r).releaseOwed
  <1>1. CASE FlushBlocked(r)
    BY <1>1 DEF FlushedRec, Torn, Releases
  <1>2. CASE ~FlushBlocked(r) /\ r.importOwed
    <2>1. r.state \in {"Imported", "Poisoned"} /\ r.currentSurfaceId = NoSurface
      BY <1>2 DEF FlushBlocked, BufferRec, Sane
    <2>2. AbsentRec \in BufferRec /\ Sane(AbsentRec)
          /\ AbsentRec.currentSurfaceId = NoSurface /\ AbsentRec.releaseOwed = FALSE
      BY DEF AbsentRec, NewRec, BufferRec, Fences, Sane
    <2> QED BY <1>2, <2>1, <2>2 DEF FlushedRec, Torn, Releases
  <1>3. CASE ~FlushBlocked(r) /\ ~r.importOwed
    <2> DEFINE f == [r EXCEPT !.releaseOwed = FALSE]
    <2>1. FlushedRec(r) = f
      BY <1>3 DEF FlushedRec
    <2>2. /\ f \in BufferRec /\ f.releaseOwed = FALSE /\ f.state = r.state
          /\ f.importOwed = r.importOwed /\ f.destroyed = r.destroyed
          /\ f.currentSurfaceId = r.currentSurfaceId
      BY DEF BufferRec
    <2>3. r.state # "Absent"
      BY <1>3 DEF FlushBlocked
    <2> HIDE DEF f
    <2> QED BY <1>3, <2>1, <2>2, <2>3 DEF Torn, Releases, Sane
  <1> QED BY <1>1, <1>2, <1>3

(* The intents of a step that the executor acts on. *)
LEMMA OutFacts ==
  ASSUME NEW recs, NEW flush \in SUBSET BufferIds, NEW emitted, Silent(emitted),
         NEW out, out = emitted \cup FlushedOut(recs, flush), NEW b \in BufferIds
  PROVE  /\ Intent("releaseImport", b, "none") \in out <=> b \in flush /\ Torn(recs[b])
         /\ Intent("sendWlRelease", b, "none") \in out <=> b \in flush /\ Releases(recs[b])
  <1>1. \A kind : Intent(kind, b, "none").kind = kind /\ Intent(kind, b, "none").bufferId = b
    BY DEF Intent
  <1>2. \A kind \in {"releaseImport", "sendWlRelease"} :
          Intent(kind, b, "none") \in out
            <=> \E c \in flush : Intent(kind, b, "none") \in FlushIntents(c, recs[c])
    BY <1>1 DEF FlushedOut, Silent
  <1>3. \A c \in flush : \A i \in FlushIntents(c, recs[c]) : i.bufferId = c
    BY DEF FlushIntents, DiscardIntents, Intent
  <1>4. \A kind \in {"releaseImport", "sendWlRelease"} :
          Intent(kind, b, "none") \in out
            <=> b \in flush /\ Intent(kind, b, "none") \in FlushIntents(b, recs[b])
    BY <1>1, <1>2, <1>3
  <1>5. Intent("releaseImport", b, "none") \in FlushIntents(b, recs[b]) <=> Torn(recs[b])
    BY DEF FlushIntents, DiscardIntents, Intent, Torn
  <1>6. Intent("sendWlRelease", b, "none") \in FlushIntents(b, recs[b]) <=> Releases(recs[b])
    BY DEF FlushIntents, DiscardIntents, Intent, Releases
  <1> QED BY <1>4, <1>5, <1>6

(* The executor after runReleaseImport. *)
LEMMA UnimportedFields ==
  ASSUME NEW y \in Executors, NEW R \in SUBSET BufferIds
  PROVE  LET z == Unimported(y, R) IN
         /\ z \in Executors
         /\ z.texture = y.texture /\ z.queue = y.queue /\ z.freed = y.freed
         /\ \A b \in BufferIds :
              /\ z.pending[b] = IF b \in R /\ y.imports[b] = NoImport THEN {}
                                ELSE y.pending[b]
              /\ z.imports[b] = IF b \in R THEN NoImport ELSE y.imports[b]
              /\ z.zombies[b] = IF /\ b \in R /\ y.imports[b] # NoImport
                                   /\ Displayed(y, b, y.imports[b])
                                THEN y.imports[b] ELSE y.zombies[b]
         /\ z.live = y.live \ {y.imports[b] : b \in {c \in R : /\ y.imports[c] # NoImport
                                                       /\ ~Displayed(y, c, y.imports[c])}}
  <1> DEFINE z == Unimported(y, R)
             had == {b \in R : y.imports[b] # NoImport}
             shown == {b \in had : Displayed(y, b, y.imports[b])}
             pend == [b \in BufferIds |-> IF b \in R \ had THEN {} ELSE y.pending[b]]
             imps == [b \in BufferIds |-> IF b \in had THEN NoImport ELSE y.imports[b]]
             zoms == [b \in BufferIds |-> IF b \in shown THEN y.imports[b] ELSE y.zombies[b]]
             gone0 == {y.imports[b] : b \in had \ shown}
  <1>1. z = [y EXCEPT !.pending = pend, !.imports = imps, !.zombies = zoms,
                      !.live = y.live \ gone0]
    BY DEF Unimported, TornDown, Executors
  <1>2. /\ pend \in [BufferIds -> SUBSET SurfaceIds]
        /\ imps \in [BufferIds -> ImportIds \cup {NoImport}]
        /\ zoms \in [BufferIds -> ImportIds \cup {NoImport}]
    BY DEF Executors
  <1>3. \A b \in BufferIds :
          /\ pend[b] = IF b \in R /\ y.imports[b] = NoImport THEN {} ELSE y.pending[b]
          /\ imps[b] = IF b \in R THEN NoImport ELSE y.imports[b]
          /\ zoms[b] = IF /\ b \in R /\ y.imports[b] # NoImport
                          /\ Displayed(y, b, y.imports[b])
                       THEN y.imports[b] ELSE y.zombies[b]
    OBVIOUS
  <1>4. gone0 = {y.imports[b] : b \in {c \in R : /\ y.imports[c] # NoImport
                                                 /\ ~Displayed(y, c, y.imports[c])}}
    OBVIOUS
  <1> HIDE DEF pend, imps, zoms, gone0, z
  <1>5. /\ z \in Executors /\ z.pending = pend /\ z.imports = imps /\ z.zombies = zoms
        /\ z.live = y.live \ gone0
        /\ z.texture = y.texture /\ z.queue = y.queue /\ z.freed = y.freed
    BY <1>1, <1>2 DEF Executors
  <1> QED BY <1>3, <1>4, <1>5 DEF z

(* It keeps every import owned. *)
LEMMA UnimportedOwned ==
  ASSUME NEW y \in Executors, NEW R \in SUBSET BufferIds, Owned(y)
  PROVE  Owned(Unimported(y, R))
  <1> DEFINE z == Unimported(y, R)
  <1>1. /\ z.texture = y.texture /\ z.queue = y.queue
        /\ \A b \in BufferIds :
              /\ z.imports[b] = IF b \in R THEN NoImport ELSE y.imports[b]
              /\ z.zombies[b] = IF /\ b \in R /\ y.imports[b] # NoImport
                                   /\ Displayed(y, b, y.imports[b])
                                THEN y.imports[b] ELSE y.zombies[b]
        /\ z.live = y.live \ {y.imports[b] : b \in {c \in R : /\ y.imports[c] # NoImport
                                                       /\ ~Displayed(y, c, y.imports[c])}}
    BY UnimportedFields
  <1> HIDE DEF z
  <1>2. \A b \in BufferIds : \A i : Displayed(z, b, i) <=> Displayed(y, b, i)
    BY <1>1 DEF Displayed
  <1>3. Owners(z)
    BY <1>1 DEF Owned, Owners
  <1>4. Parked(z)
    BY <1>1, <1>2 DEF Owned, Parked
  <1>5. Lined(z)
    BY <1>1 DEF Owned, Lined
  <1> QED BY <1>3, <1>4, <1>5 DEF Owned, z

(* The dispatch takes the executor y, before the flush of the entries      *)
(* recs, to z, after it.                                                   *)
Landed(recs, flush, k, y, z, gn) ==
  /\ z \in Executors /\ Owned(z) /\ k \in [BufferIds -> BufferRec]
  /\ z.texture = y.texture /\ z.queue = y.queue /\ z.live \subseteq y.live
  /\ \A b \in BufferIds :
       /\ Fits(recs[b], b, y, gn) =>
            /\ Fits(k[b], b, z, gn)
            /\ Served(recs[b], b, y) => Served(k[b], b, z)
       /\ z.freed[b] + Owed(k[b]) <= y.freed[b] + Owed(recs[b])
       /\ b \notin flush =>
            /\ k[b] = recs[b] /\ z.imports[b] = y.imports[b]
            /\ z.pending[b] = y.pending[b] /\ z.freed[b] = y.freed[b]

(* Dispatching the intents of a step makes the executor fit the entries    *)
(* the step's flushes leave.                                               *)
LEMMA DispatchFits ==
  ASSUME NEW recs \in [BufferIds -> BufferRec], NEW flush \in SUBSET BufferIds,
         NEW emitted, Silent(emitted),
         NEW out, out = emitted \cup FlushedOut(recs, flush),
         NEW y \in Executors, Owned(y), NEW gn,
         Flushable(recs, flush, y, gn),
         NEW k, k = FlushedBuffers(recs, flush),
         NEW z, z = Dispatched(y, out)
  PROVE  Landed(recs, flush, k, y, z, gn)
  <1> DEFINE R == {b \in flush : Torn(recs[b])}
             S == {b \in flush : Releases(recs[b])}
             fr == [b \in BufferIds |-> IF b \in S THEN y.freed[b] + 1 ELSE y.freed[b]]
             w == [y EXCEPT !.freed = fr]
  <1>1. /\ {b \in BufferIds : Intent("releaseImport", b, "none") \in out} = R
        /\ {b \in BufferIds : Intent("sendWlRelease", b, "none") \in out} = S
    <2>1. ASSUME NEW b \in BufferIds
          PROVE  /\ Intent("releaseImport", b, "none") \in out <=> b \in R
                 /\ Intent("sendWlRelease", b, "none") \in out <=> b \in S
      <3> HIDE DEF fr, w
      <3>1. /\ Intent("releaseImport", b, "none") \in out <=> b \in flush /\ Torn(recs[b])
            /\ Intent("sendWlRelease", b, "none") \in out <=> b \in flush /\ Releases(recs[b])
        BY OutFacts
      <3> QED BY <3>1
    <2>2. R \subseteq BufferIds /\ S \subseteq BufferIds
      OBVIOUS
    <2> HIDE DEF R, S
    <2> QED BY <2>1, <2>2
  <1>2. z = Unimported(w, R)
    BY <1>1 DEF Dispatched
  <1>3. ASSUME NEW b \in BufferIds
        PROVE  /\ fr[b] \in Nat /\ y.freed[b] \in Nat
               /\ b \in S => fr[b] = y.freed[b] + 1
               /\ b \notin S => fr[b] = y.freed[b]
    <2>1. y.freed[b] \in Nat
      BY DEF Executors
    <2> HIDE DEF S
    <2> QED BY <2>1
  <1>4. fr \in [BufferIds -> Nat]
    BY <1>3
  <1> HIDE DEF fr
  <1>5. /\ w \in Executors /\ w.freed = fr /\ w.texture = y.texture /\ w.queue = y.queue
        /\ w.pending = y.pending /\ w.imports = y.imports /\ w.zombies = y.zombies
        /\ w.live = y.live
    BY <1>4 DEF Executors
  <1> HIDE DEF w
  <1>6. Owned(w)
    BY <1>5 DEF Owned, Owners, Parked, Lined, Displayed
  <1>7. /\ z \in Executors /\ Owned(z) /\ z.live \subseteq y.live
        /\ z.texture = y.texture /\ z.queue = y.queue /\ z.freed = fr
        /\ \A b \in BufferIds :
              /\ z.pending[b] = IF b \in R /\ y.imports[b] = NoImport THEN {}
                                ELSE y.pending[b]
              /\ z.imports[b] = IF b \in R THEN NoImport ELSE y.imports[b]
    <2>1. R \in SUBSET BufferIds
      OBVIOUS
    <2> HIDE DEF R
    <2>2. Owned(z)
      BY <1>2, <1>5, <1>6, <2>1, UnimportedOwned
    <2>3. /\ z \in Executors /\ z.live \subseteq w.live
          /\ z.texture = w.texture /\ z.queue = w.queue /\ z.freed = w.freed
          /\ \A b \in BufferIds :
               /\ z.pending[b] = IF b \in R /\ w.imports[b] = NoImport THEN {}
                                 ELSE w.pending[b]
               /\ z.imports[b] = IF b \in R THEN NoImport ELSE w.imports[b]
      <3>1. w \in Executors
        BY <1>5
      <3>2. Unimported(w, R) \in Executors
        BY <2>1, <3>1, UnimportedFields
      <3>3. z.texture = w.texture /\ z.queue = w.queue /\ z.freed = w.freed
        BY <1>2, <2>1, <3>1, UnimportedFields
      <3>4. ASSUME NEW b \in BufferIds
            PROVE  /\ z.pending[b] = IF b \in R /\ w.imports[b] = NoImport THEN {}
                                     ELSE w.pending[b]
                   /\ z.imports[b] = IF b \in R THEN NoImport ELSE w.imports[b]
        BY <1>2, <2>1, <3>1, UnimportedFields
      <3>5. z.live = w.live \ {w.imports[b] : b \in {c \in R :
                 w.imports[c] # NoImport /\ ~Displayed(w, c, w.imports[c])}}
        BY <1>2, <2>1, <3>1, UnimportedFields
      <3>6. z.live \subseteq w.live
        BY <3>5
      <3> QED BY <1>2, <3>2, <3>3, <3>4, <3>6
    <2> QED BY <1>5, <2>2, <2>3
  <1>8. ASSUME NEW b \in BufferIds
        PROVE  /\ k[b] \in BufferRec
               /\ Fits(recs[b], b, y, gn) =>
                    /\ Fits(k[b], b, z, gn)
                    /\ Served(recs[b], b, y) => Served(k[b], b, z)
               /\ z.freed[b] + Owed(k[b]) <= y.freed[b] + Owed(recs[b])
               /\ b \notin flush =>
                    /\ k[b] = recs[b] /\ z.imports[b] = y.imports[b]
                    /\ z.pending[b] = y.pending[b] /\ z.freed[b] = y.freed[b]
    <2> DEFINE r == recs[b]
    <2>1. r \in BufferRec /\ Sane(r) /\ (b \in flush => Fits(r, b, y, gn))
      BY DEF Flushable
    <2>2. InQueue(z, b) <=> InQueue(y, b)
      BY <1>7 DEF InQueue
    <2>3. /\ z.pending[b] = IF b \in R /\ y.imports[b] = NoImport THEN {}
                            ELSE y.pending[b]
          /\ z.imports[b] = IF b \in R THEN NoImport ELSE y.imports[b]
          /\ z.freed[b] = fr[b]
      BY <1>7
    <2>4. /\ b \in S <=> b \in flush /\ Releases(r)
          /\ b \in R <=> b \in flush /\ Torn(r)
      OBVIOUS
    <2> HIDE DEF R, S, r
    <2>5. CASE b \notin flush
      <3>1. k[b] = r
        BY <2>5 DEF FlushedBuffers, r
      <3>2. z.pending[b] = y.pending[b] /\ z.imports[b] = y.imports[b] /\ z.freed[b] = y.freed[b]
        BY <1>3, <2>3, <2>4, <2>5
      <3>3. Fits(r, b, y, gn) =>
              Fits(r, b, z, gn) /\ (Served(r, b, y) => Served(r, b, z))
        BY <2>2, <3>2 DEF Fits, Served
      <3>4. z.freed[b] + Owed(k[b]) <= y.freed[b] + Owed(r)
        BY <1>3, <3>1, <3>2 DEF Owed
      <3> QED BY <2>1, <3>1, <3>2, <3>3, <3>4 DEF r
    <2>6. CASE b \in flush
      <3> DEFINE f == FlushedRec(r)
      <3>1. k[b] = f
        BY <2>6 DEF FlushedBuffers, r
      <3>2. /\ f \in BufferRec /\ Sane(f)
            /\ Torn(r) => r.state \in {"Imported", "Poisoned"} /\ f = AbsentRec
            /\ ~Torn(r) => f.state = r.state /\ f.destroyed = r.destroyed
            /\ f.releaseOwed => r.releaseOwed
            /\ Releases(r) => r.releaseOwed /\ ~f.releaseOwed
        BY <2>1, FlushedFacts
      <3>3. AbsentRec.state = "Absent"
        BY DEF AbsentRec, NewRec
      <3> HIDE DEF f
      <3>4. /\ f.state = "Imported" <=> z.imports[b] # NoImport
            /\ f.state = "Importing" <=> InQueue(z, b)
            /\ f.state # "Absent" => (f.destroyed <=> b \in gn)
        BY <2>1, <2>2, <2>3, <2>4, <2>6, <3>2, <3>3 DEF Fits
      <3>5. z.freed[b] + Owed(f) <= y.freed[b] + Owed(r)
        BY <1>3, <2>3, <2>4, <2>6, <3>2 DEF Owed
      <3>6. Served(r, b, y) => Served(f, b, z)
        BY <2>1, <2>3, <2>4, <2>6, <3>2, <3>3 DEF Fits, Served
      <3> QED BY <2>6, <3>1, <3>2, <3>4, <3>5, <3>6 DEF Fits, r
    <2> QED BY <2>5, <2>6
  <1>9. k \in [BufferIds -> BufferRec]
    BY <1>8 DEF FlushedBuffers
  <1> QED BY <1>7, <1>8, <1>9 DEF Landed

(* An executor that is owned but for the parked imports is owned once      *)
(* drainZombieImports has run.                                             *)
LEMMA DrainedOwned ==
  ASSUME NEW y \in Executors, Owners(y), Lined(y)
  PROVE  LET z == Drained(y) IN
         /\ z \in Executors /\ Owned(z)
         /\ z.pending = y.pending /\ z.imports = y.imports /\ z.texture = y.texture
         /\ z.freed = y.freed /\ z.queue = y.queue
  <1> DEFINE z == Drained(y)
             loose == {b \in BufferIds :
                         y.zombies[b] # NoImport /\ ~Displayed(y, b, y.zombies[b])}
             zoms == [b \in BufferIds |-> IF b \in loose THEN NoImport ELSE y.zombies[b]]
             freed0 == {y.zombies[b] : b \in loose}
  <1>1. z = [y EXCEPT !.zombies = zoms, !.live = y.live \ freed0]
    BY DEF Drained, TornDown, Executors
  <1>2. zoms \in [BufferIds -> ImportIds \cup {NoImport}]
    BY DEF Executors
  <1>3. \A b \in BufferIds : zoms[b] = IF b \in loose THEN NoImport ELSE y.zombies[b]
    OBVIOUS
  <1>4. \A i : i \in freed0 <=> \E b \in loose : i = y.zombies[b]
    OBVIOUS
  <1>5. \A b \in BufferIds :
          b \in loose <=> y.zombies[b] # NoImport /\ ~Displayed(y, b, y.zombies[b])
    OBVIOUS
  <1>6. loose \subseteq BufferIds
    OBVIOUS
  <1> HIDE DEF zoms, freed0, z, loose
  <1>7. /\ z \in Executors /\ z.zombies = zoms /\ z.live = y.live \ freed0
        /\ z.pending = y.pending /\ z.imports = y.imports /\ z.texture = y.texture
        /\ z.freed = y.freed /\ z.queue = y.queue
    BY <1>1, <1>2 DEF Executors
  <1>8. Owners(z)
    BY <1>3, <1>4, <1>5, <1>6, <1>7 DEF Owners
  <1>9. \A b \in BufferIds : \A i : Displayed(z, b, i) <=> Displayed(y, b, i)
    BY <1>7 DEF Displayed
  <1>10. Parked(z)
    BY <1>3, <1>5, <1>7, <1>9 DEF Parked
  <1>11. Lined(z)
    BY <1>7 DEF Lined
  <1> QED BY <1>7, <1>8, <1>10, <1>11 DEF Owned, z

(* bindImportToSurface with an import that is not on the queue. *)
LEMMA BoundOwned ==
  ASSUME NEW y \in Executors, Owned(y), NEW S \in SUBSET SurfaceIds,
         NEW b \in BufferIds, NEW i \in ImportIds,
         \A j \in 1..Len(y.queue) : y.queue[j].imp # i
  PROVE  LET z == Bound(y, S, b, i) IN
         /\ z \in Executors /\ Owned(z)
         /\ z.pending = y.pending /\ z.imports = y.imports
         /\ z.freed = y.freed /\ z.queue = y.queue
  <1> DEFINE tex == [s \in SurfaceIds |-> IF s \in S THEN [buf |-> b, imp |-> i]
                                                    ELSE y.texture[s]]
             w == [y EXCEPT !.texture = tex]
  <1>1. Bound(y, S, b, i) = Drained(w)
    BY DEF Bound
  <1>2. tex \in [SurfaceIds -> Textures]
    BY DEF Executors, Textures
  <1>3. \A s \in SurfaceIds : tex[s].imp = i \/ tex[s] = y.texture[s]
    OBVIOUS
  <1> HIDE DEF tex
  <1>4. /\ w \in Executors /\ w.texture = tex /\ w.pending = y.pending
        /\ w.imports = y.imports /\ w.zombies = y.zombies /\ w.live = y.live
        /\ w.freed = y.freed /\ w.queue = y.queue
    BY <1>2 DEF Executors
  <1> HIDE DEF w
  <1>5. Owners(w)
    BY <1>4 DEF Owned, Owners
  <1>6. Lined(w)
    <2>1. ASSUME NEW j \in 1..Len(y.queue), NEW s \in SurfaceIds
          PROVE  tex[s].imp # y.queue[j].imp
      BY <1>3 DEF Owned, Lined
    <2> QED BY <1>4, <2>1 DEF Owned, Lined
  <1> QED BY <1>1, <1>4, <1>5, <1>6, DrainedOwned

-----------------------------------------------------------------------------
(* Turns.                                                                  *)

(* The entries r and q differ in nothing the executor's invariant speaks of. *)
Alike(r, q) ==
  /\ q.state = r.state /\ q.destroyed = r.destroyed
  /\ q.releaseOwed = r.releaseOwed /\ q.importOwed = r.importOwed
  /\ q.currentSurfaceId = r.currentSurfaceId
  /\ r.state = "Absent" => q = r

LEMMA AlikeFits ==
  ASSUME NEW r, NEW q, Alike(r, q), NEW b, NEW y, NEW gn
  PROVE  /\ Sane(r) => Sane(q)
         /\ Fits(r, b, y, gn) => Fits(q, b, y, gn)
         /\ Served(r, b, y) => Served(q, b, y)
  BY DEF Alike, Sane, Fits, Served

AllAlike(recs, qs) == \A b \in BufferIds : Alike(recs[b], qs[b])

LEMMA AlikeFitting ==
  ASSUME NEW recs, NEW qs, AllAlike(recs, qs), NEW y, NEW hd, NEW gn, NEW surf,
         Fitting(recs, y, gn), Paid(recs, surf, y, hd, gn)
  PROVE  Fitting(qs, y, gn) /\ Paid(qs, surf, y, hd, gn)
  <1>1. ASSUME NEW b \in BufferIds
        PROVE  Fits(qs[b], b, y, gn) /\ Served(qs[b], b, y)
    BY AlikeFits DEF AllAlike, Fitting
  <1>2. Paid(qs, surf, y, hd, gn)
    BY DEF Paid, Owed, Alike, AllAlike
  <1> QED BY <1>1, <1>2 DEF Fitting

AllSane(recs) == \A b \in BufferIds : Sane(recs[b])

(* A step() is a machine again. *)
LEMMA SteppedFields ==
  ASSUME NEW k \in Machines, NEW recs \in [BufferIds -> BufferRec],
         NEW flush \in SUBSET BufferIds, NEW emitted \in SUBSET Intents,
         AllSane(recs)
  PROVE  LET n == Stepped(k, recs, flush, emitted) IN
         /\ n \in Machines
         /\ n.buffers = FlushedBuffers(recs, flush)
         /\ n.out = emitted \cup FlushedOut(recs, flush)
         /\ n.surfaces = k.surfaces /\ n.frameOpen = k.frameOpen
         /\ n.sampled = k.sampled /\ n.pendingEndExports = k.pendingEndExports
  <1> DEFINE n == Stepped(k, recs, flush, emitted)
             bufs == FlushedBuffers(recs, flush)
             ints == emitted \cup FlushedOut(recs, flush)
  <1>1. bufs \in [BufferIds -> BufferRec]
    BY FlushedFacts DEF FlushedBuffers, AllSane
  <1>2. ASSUME NEW b \in BufferIds
        PROVE  FlushIntents(b, recs[b]) \in SUBSET Intents
    <2>1. \A kind \in IntentKinds, f \in Fences : Intent(kind, b, f) \in Intents
      BY DEF Intent, Intents
    <2>2. DiscardIntents(b, recs[b]) \in SUBSET Intents
      BY <2>1 DEF DiscardIntents, IntentKinds, Fences
    <2> QED BY <2>1, <2>2 DEF FlushIntents, IntentKinds, Fences
  <1>3. ints \in SUBSET Intents
    BY <1>2 DEF FlushedOut
  <1>4. n = [k EXCEPT !.buffers = bufs, !.out = ints]
    BY DEF Stepped
  <1> HIDE DEF bufs, ints, n
  <1>5. /\ n \in Machines /\ n.buffers = bufs /\ n.out = ints
        /\ n.surfaces = k.surfaces /\ n.frameOpen = k.frameOpen
        /\ n.sampled = k.sampled /\ n.pendingEndExports = k.pendingEndExports
    BY <1>1, <1>3, <1>4 DEF Machines
  <1> QED BY <1>5 DEF n, bufs, ints

(* How many surfaces have b is a number, *)
LEMMA ShowsNat ==
  ASSUME NEW surf, NEW b
  PROVE  Shows(surf, b) \in Nat
  <1> DEFINE S == {s \in SurfaceIds : surf[s] = b}
  <1>1. IsFiniteSet(S)
    BY SurfaceIdsAssumption, FS_Subset
  <1> QED BY <1>1, FS_CardinalityType DEF Shows

(* that a surface changes by what it takes up and gives up. *)
LEMMA ShowsMoves ==
  ASSUME NEW surf \in [SurfaceIds -> BufferIds \cup {NoBuffer}], NEW s \in SurfaceIds,
         NEW v \in BufferIds \cup {NoBuffer}, NEW b \in BufferIds,
         NEW next, next = [surf EXCEPT ![s] = v]
  PROVE  /\ b = v /\ b # surf[s] => Shows(next, b) = Shows(surf, b) + 1
         /\ b # v /\ b = surf[s] => Shows(next, b) + 1 = Shows(surf, b)
         /\ (b = v <=> b = surf[s]) => Shows(next, b) = Shows(surf, b)
  <1> DEFINE S == {t \in SurfaceIds : surf[t] = b}
             N == {t \in SurfaceIds : next[t] = b}
  <1>1. IsFiniteSet(S) /\ IsFiniteSet(N)
    BY SurfaceIdsAssumption, FS_Subset
  <1>2. b = v /\ b # surf[s] => N = S \cup {s} /\ s \notin S
    OBVIOUS
  <1>3. b # v /\ b = surf[s] => S = N \cup {s} /\ s \notin N
    OBVIOUS
  <1>4. (b = v <=> b = surf[s]) => N = S
    OBVIOUS
  <1> HIDE DEF S, N
  <1>5. /\ s \notin S => Cardinality(S \cup {s}) = Cardinality(S) + 1
        /\ s \notin N => Cardinality(N \cup {s}) = Cardinality(N) + 1
    BY <1>1, FS_AddElement
  <1> QED BY <1>2, <1>3, <1>4, <1>5 DEF Shows, S, N

(* Fewer surfaces have b than did. *)
LEMMA ShowsFewer ==
  ASSUME NEW surf, NEW next, NEW b, \A s \in SurfaceIds : next[s] = b => surf[s] = b
  PROVE  Shows(next, b) <= Shows(surf, b)
  <1> DEFINE S == {t \in SurfaceIds : surf[t] = b}
             N == {t \in SurfaceIds : next[t] = b}
  <1>1. IsFiniteSet(S) /\ N \subseteq S
    BY SurfaceIdsAssumption, FS_Subset
  <1> HIDE DEF S, N
  <1> QED BY <1>1, FS_Subset DEF Shows, S, N

(* Nothing is queued, owed or taken up. *)
LEMMA SamePaid ==
  ASSUME NEW recs, NEW qs, NEW surf, NEW y, NEW z, z.freed = y.freed, NEW hd, NEW gn,
         \A b \in BufferIds : qs[b].releaseOwed = recs[b].releaseOwed,
         Paid(recs, surf, y, hd, gn)
  PROVE  Paid(qs, surf, z, hd, gn)
  BY DEF Paid, Owed

(* A dispatch answers no more commits than the flushed entries owed. *)
LEMMA LandedPaid ==
  ASSUME NEW recs, NEW flush, NEW k, NEW y \in Executors, NEW z, NEW gn, NEW surf,
         NEW hd \in [BufferIds -> Nat],
         Landed(recs, flush, k, y, z, gn), Paid(recs, surf, y, hd, gn)
  PROVE  Paid(k, surf, z, hd, gn)
  <1>1. ASSUME NEW b \in BufferIds \ gn
        PROVE  z.freed[b] + Owed(k[b]) + Shows(surf, b) <= hd[b]
    <2>1. /\ z.freed[b] \in Nat /\ y.freed[b] \in Nat
          /\ z.freed[b] + Owed(k[b]) <= y.freed[b] + Owed(recs[b])
      BY DEF Landed, Executors
    <2>2. /\ Shows(surf, b) \in Nat /\ hd[b] \in Nat
          /\ Owed(k[b]) \in Nat /\ Owed(recs[b]) \in Nat
      BY ShowsNat DEF Owed
    <2>3. y.freed[b] + Owed(recs[b]) + Shows(surf, b) <= hd[b]
      BY DEF Paid
    <2> QED BY <2>1, <2>2, <2>3
  <1> QED BY <1>1 DEF Paid

(* A turn whose machine step made the entries recs and flushed some of     *)
(* them: the executor's dispatch restores the invariant.                   *)
LEMMA TurnCore ==
  ASSUME NEW recs \in [BufferIds -> BufferRec], NEW flush \in SUBSET BufferIds,
         NEW emitted, Silent(emitted),
         NEW n, n.buffers = FlushedBuffers(recs, flush),
         n.out = emitted \cup FlushedOut(recs, flush),
         NEW y \in Executors, Owned(y), NEW hd \in [BufferIds -> Nat], NEW gn,
         Paid(recs, n.surfaces, y, hd, gn), Fitting(recs, y, gn)
  PROVE  Dispatched(y, n.out) \in Executors /\ Core(n, Dispatched(y, n.out), hd, gn)
  <1> DEFINE out == n.out
             k == n.buffers
             z == Dispatched(y, out)
  <1>1. Flushable(recs, flush, y, gn)
    BY DEF Fits, Fitting, Flushable
  <1>2. /\ out = emitted \cup FlushedOut(recs, flush)
        /\ k = FlushedBuffers(recs, flush) /\ z = Dispatched(y, out)
    OBVIOUS
  <1> HIDE DEF out, k, z
  <1>3. Landed(recs, flush, k, y, z, gn)
    BY <1>1, <1>2, DispatchFits
  <1>4. Paid(k, n.surfaces, z, hd, gn)
    BY <1>3, LandedPaid
  <1> QED BY <1>3, <1>4 DEF Core, Fitting, Landed, out, k, z

(* An event that is ignored, or flushes nothing, is dispatched to nothing. *)
LEMMA QuietFlush ==
  ASSUME NEW recs \in [BufferIds -> BufferRec]
  PROVE  FlushedBuffers(recs, {}) = recs /\ FlushedOut(recs, {}) = {}
  BY DEF FlushedBuffers, FlushedOut

(* n is the step j but for the frame's fields. *)
Same(n, j) == n.buffers = j.buffers /\ n.out = j.out /\ n.surfaces = j.surfaces

(* The machine has stepped to n: the executor y dispatches its intents. *)
Turned(n, y, hd, gn) ==
  Dispatched(y, n.out) \in Executors /\ Core(n, Dispatched(y, n.out), hd, gn)

(* A turn of the machine k that keeps the entries alike before it flushes. *)
LEMMA AlikeTurn ==
  ASSUME NEW k \in Machines, NEW y \in Executors,
         NEW hd \in [BufferIds -> Nat], NEW gn, Core(k, y, hd, gn),
         NEW recs \in [BufferIds -> BufferRec], AllAlike(k.buffers, recs),
         NEW flush \in SUBSET BufferIds, NEW emitted \in SUBSET Intents, Silent(emitted),
         NEW j, j = Stepped(k, recs, flush, emitted),
         NEW n, Same(n, j)
  PROVE  j \in Machines /\ Turned(n, y, hd, gn)
  <1>1. Fitting(recs, y, gn) /\ Paid(recs, k.surfaces, y, hd, gn)
    BY AlikeFitting DEF Core
  <1>2. AllSane(recs)
    BY <1>1 DEF Fitting, Fits, AllSane
  <1>3. /\ j \in Machines /\ j.buffers = FlushedBuffers(recs, flush)
        /\ j.out = emitted \cup FlushedOut(recs, flush)
        /\ j.surfaces = k.surfaces
    BY <1>2, SteppedFields
  <1>4. /\ n.buffers = FlushedBuffers(recs, flush)
        /\ n.out = emitted \cup FlushedOut(recs, flush)
        /\ Paid(recs, n.surfaces, y, hd, gn)
    BY <1>1, <1>3 DEF Same
  <1> QED BY <1>1, <1>3, <1>4, TurnCore DEF Core, Turned

-----------------------------------------------------------------------------
(* The actions.                                                            *)

LEMMA IInvFacts ==
  ASSUME IInv
  PROVE  /\ m \in Machines /\ x \in Executors /\ Core(m, x, held, gone)
         /\ m.buffers \in [BufferIds -> BufferRec]
         /\ m.surfaces \in [SurfaceIds -> BufferIds \cup {NoBuffer}]
         /\ m.sampled \in SUBSET BufferIds /\ m.pendingEndExports \in SUBSET Serials
         /\ reads \in [Serials -> SUBSET Textures]
         /\ held \in [BufferIds -> Nat] /\ gone \subseteq BufferIds /\ alive \subseteq SurfaceIds
         /\ {} \in SUBSET Intents /\ Silent({})
  BY DEF IInv, TypeOK, Machines, Silent

(* gpuCompleted. *)
LEMMA GpuCompletedIInv ==
  ASSUME IInv, NEW sr \in Serials, GpuCompleted(sr)
  PROVE  IInv'
  <1> DEFINE reading == {b \in BufferIds : sr \in m.buffers[b].inflightSerials}
             recs == [b \in BufferIds |->
                        [m.buffers[b] EXCEPT !.inflightSerials = @ \ {sr}]]
             none == {}
             j == Stepped(m, recs, reading, none)
  <1>1. recs \in [BufferIds -> BufferRec]
    BY IInvFacts DEF BufferRec
  <1>2. AllAlike(m.buffers, recs)
    <2>1. ASSUME NEW b \in BufferIds
          PROVE  Alike(m.buffers[b], recs[b])
      <3> DEFINE r == m.buffers[b]
      <3>1. r \in BufferRec /\ (r.state = "Absent" => r = AbsentRec)
        BY IInvFacts DEF Core, Fitting, Fits, Sane
      <3>2. recs[b] = [r EXCEPT !.inflightSerials = @ \ {sr}]
        OBVIOUS
      <3>3. r.state = "Absent" => recs[b] = r
        BY <3>1, <3>2 DEF AbsentRec, NewRec
      <3> HIDE DEF recs
      <3> QED BY <3>1, <3>2, <3>3 DEF Alike, BufferRec
    <2> QED BY <2>1 DEF AllAlike
  <1>3. /\ m' = [j EXCEPT !.pendingEndExports = @ \ {sr}]
        /\ x' = Dispatched(x, m'.out) /\ reads' = [reads EXCEPT ![sr] = {}]
        /\ UNCHANGED <<held, gone, alive>>
    BY DEF GpuCompleted, OnGpuCompleted
  <1>4. /\ none \in SUBSET Intents /\ Silent(none) /\ reading \in SUBSET BufferIds
        /\ j = Stepped(m, recs, reading, none) /\ Same(j, j)
    BY IInvFacts DEF Same
  <1> HIDE DEF recs, reading, none, j
  <1>5. j \in Machines
    BY IInvFacts, <1>1, <1>2, <1>4, AlikeTurn
  <1>6. m' \in Machines /\ Same(m', j)
    BY <1>3, <1>5 DEF Machines, Same
  <1>7. Turned(m', x, held, gone)
    BY IInvFacts, <1>1, <1>2, <1>4, <1>6, AlikeTurn
  <1>8. reads' \in [Serials -> SUBSET Textures]
    BY <1>3, IInvFacts
  <1> QED BY <1>3, <1>6, <1>7, <1>8, IInvFacts DEF IInv, TypeOK, Turned

(* The machine n differs from k in nothing the invariant speaks of. *)
Like(k, n) ==
  n \in Machines /\ n.surfaces = k.surfaces /\ AllAlike(k.buffers, n.buffers)

LEMMA LikeTrans ==
  ASSUME NEW k, NEW n, NEW j, Like(k, n), Like(n, j)
  PROVE  Like(k, j)
  BY DEF Like, AllAlike, Alike

LEMMA LikeCore ==
  ASSUME NEW k, NEW n, Like(k, n), NEW y, NEW hd, NEW gn, Core(k, y, hd, gn)
  PROVE  Core(n, y, hd, gn)
  BY AlikeFitting DEF Like, Core

(* frameStart and the frameSampled steps. *)
LEMMA OpenedLike ==
  ASSUME IInv, NEW R \in SUBSET SurfaceIds
  PROVE  Like(m, Opened(R))
  <1> DEFINE begun == {m.surfaces[s] : s \in {t \in R : Samplable(m, t)}}
             bufs == [b \in BufferIds |-> IF b \in begun THEN BegunRec(m.buffers[b])
                                                         ELSE m.buffers[b]]
             o == Opened(R)
  <1>1. /\ begun \in SUBSET BufferIds
        /\ \A b \in begun : m.buffers[b].state = "Imported"
    BY DEF Samplable
  <1>2. ASSUME NEW b \in BufferIds
        PROVE  bufs[b] \in BufferRec /\ Alike(m.buffers[b], bufs[b])
    <2> DEFINE r == m.buffers[b]
               q == [r EXCEPT !.pendingAcquireFence = "none", !.accessOpen = TRUE]
    <2>1. r \in BufferRec
      BY IInvFacts
    <2>2. bufs[b] = r \/ (r.state = "Imported" /\ bufs[b] = q)
      BY <1>1 DEF BegunRec
    <2> HIDE DEF bufs, r
    <2>3. q \in BufferRec /\ (r.state = "Imported" => Alike(r, q)) /\ Alike(r, r)
      BY <2>1 DEF BufferRec, Fences, Alike
    <2> QED BY <2>1, <2>2, <2>3 DEF r
  <1>3. bufs \in [BufferIds -> BufferRec] /\ AllAlike(m.buffers, bufs)
    BY <1>2 DEF AllAlike
  <1>4. o = [m EXCEPT !.frameOpen = TRUE, !.sampled = begun, !.out = {}, !.buffers = bufs]
    BY IInvFacts DEF Opened, OnFrameStart, Ignored, Machines
  <1> HIDE DEF begun, bufs, o
  <1>5. o \in Machines /\ o.surfaces = m.surfaces /\ o.buffers = bufs
    BY <1>1, <1>3, <1>4, IInvFacts DEF Machines
  <1> QED BY <1>3, <1>5 DEF Like, o

(* The endAccessFenceExported steps. *)
LEMMA ClosedLike ==
  ASSUME NEW k \in Machines, NEW R
  PROVE  Like(k, Closed(k, R))
  <1> DEFINE ended == {b \in BufferIds : Known(k, b) /\ \E s \in R : x.texture[s].buf = b}
             bufs == [b \in BufferIds |-> IF b \in ended THEN ExportedRec(k.buffers[b])
                                                         ELSE k.buffers[b]]
             n == Closed(k, R)
  <1>1. k.buffers \in [BufferIds -> BufferRec]
    BY DEF Machines
  <1>2. ASSUME NEW b \in BufferIds
        PROVE  bufs[b] \in BufferRec /\ Alike(k.buffers[b], bufs[b])
    <2> DEFINE r == k.buffers[b]
               q == [r EXCEPT !.chainFence = TRUE]
    <2>1. r \in BufferRec
      BY <1>1
    <2>2. bufs[b] = r \/ (r.state # "Absent" /\ bufs[b] = q)
      BY DEF ExportedRec, Known
    <2> HIDE DEF bufs, r
    <2>3. q \in BufferRec /\ (r.state # "Absent" => Alike(r, q)) /\ Alike(r, r)
      BY <2>1 DEF BufferRec, Alike
    <2> QED BY <2>1, <2>2, <2>3 DEF r
  <1>3. bufs \in [BufferIds -> BufferRec] /\ AllAlike(k.buffers, bufs)
    BY <1>2 DEF AllAlike
  <1>4. n = [k EXCEPT !.buffers = bufs, !.out = {}]
    BY DEF Closed
  <1> HIDE DEF ended, bufs, n
  <1>5. n \in Machines /\ n.surfaces = k.surfaces /\ n.buffers = bufs
    BY <1>3, <1>4 DEF Machines
  <1> QED BY <1>3, <1>5 DEF Like, n

(* submitted. *)
LEMMA SubmittedLike ==
  ASSUME NEW k \in Machines, AllSane(k.buffers), NEW sr \in Serials
  PROVE  Like(k, OnSubmitted(k, sr))
  <1> DEFINE ended == {b \in k.sampled : Known(k, b)}
             recs == [b \in BufferIds |->
                        IF b \in ended
                          THEN [k.buffers[b] EXCEPT !.accessOpen = FALSE,
                                                    !.inflightSerials = @ \cup {sr}]
                          ELSE k.buffers[b]]
             ends == {Intent("endAccess", b, "none") : b \in ended}
             none == {}
             j == Stepped(k, recs, none, ends)
             n == OnSubmitted(k, sr)
  <1>1. /\ k.buffers \in [BufferIds -> BufferRec] /\ ended \in SUBSET BufferIds
        /\ ends \in SUBSET Intents /\ none \in SUBSET BufferIds
    BY DEF Machines, Intent, Intents, IntentKinds, Fences
  <1>2. ASSUME NEW b \in BufferIds
        PROVE  recs[b] \in BufferRec /\ Alike(k.buffers[b], recs[b])
    <2> DEFINE r == k.buffers[b]
               q == [r EXCEPT !.accessOpen = FALSE, !.inflightSerials = @ \cup {sr}]
    <2>1. r \in BufferRec
      BY <1>1
    <2>2. recs[b] = r \/ (r.state # "Absent" /\ recs[b] = q)
      BY DEF Known
    <2> HIDE DEF recs, r
    <2>3. q \in BufferRec /\ (r.state # "Absent" => Alike(r, q)) /\ Alike(r, r)
      BY <2>1 DEF BufferRec, Alike
    <2> QED BY <2>1, <2>2, <2>3 DEF r
  <1>3. recs \in [BufferIds -> BufferRec] /\ AllAlike(k.buffers, recs)
    BY <1>2 DEF AllAlike
  <1>4. AllSane(recs)
    BY <1>3, AlikeFits DEF AllSane, AllAlike
  <1>5. n = [j EXCEPT !.frameOpen = FALSE, !.sampled = {},
                      !.pendingEndExports = IF ended # {} THEN @ \cup {sr} ELSE @]
    BY DEF OnSubmitted
  <1>6. FlushedBuffers(recs, none) = recs
    BY <1>3, QuietFlush
  <1> HIDE DEF ended, recs, ends, none
  <1>7. j \in Machines /\ j.buffers = recs /\ j.surfaces = k.surfaces
    BY <1>1, <1>3, <1>4, <1>6, SteppedFields
  <1> HIDE DEF j, n
  <1>8. n \in Machines /\ n.buffers = recs /\ n.surfaces = k.surfaces
    BY <1>5, <1>7 DEF Machines
  <1> QED BY <1>3, <1>8 DEF Like, n

LEMMA RenderFrameIInv ==
  ASSUME IInv, NEW sr \in Serials, NEW D \in SUBSET SurfaceIds, RenderFrame(sr, D)
  PROVE  IInv'
  <1>1. PICK R \in SUBSET SurfaceIds : m' = Closed(OnSubmitted(Opened(R), sr), R)
    BY DEF RenderFrame, Leaders, Bracketable, Drawn
  <1> DEFINE o == Opened(R)
             n == OnSubmitted(o, sr)
  <1>2. Like(m, o) /\ o \in Machines
    BY OpenedLike DEF Like
  <1> HIDE DEF o
  <1>3. AllSane(o.buffers)
    <2>1. Core(o, x, held, gone)
      BY <1>2, LikeCore, IInvFacts
    <2> QED BY <2>1 DEF Core, Fitting, Fits, AllSane
  <1>4. Like(o, n) /\ n \in Machines
    BY <1>2, <1>3, SubmittedLike DEF Like
  <1> HIDE DEF n
  <1>5. Like(n, m')
    BY <1>1, <1>4, ClosedLike DEF n, o
  <1>6. Like(m, m')
    BY <1>2, <1>4, <1>5, LikeTrans
  <1>7. Core(m', x, held, gone) /\ m' \in Machines
    BY <1>6, LikeCore, IInvFacts DEF Like
  <1>8. reads' \in [Serials -> SUBSET Textures] /\ UNCHANGED <<x, held, gone, alive>>
    BY IInvFacts DEF RenderFrame, Drawn, Executors
  <1> QED BY <1>7, <1>8, IInvFacts DEF IInv, TypeOK

LEMMA RenderThrowsIInv ==
  ASSUME IInv, NEW D \in SUBSET SurfaceIds, RenderThrows(D)
  PROVE  IInv'
  <1>1. PICK R \in SUBSET SurfaceIds :
          /\ m' = OnFrameAborted(Closed(Opened(R), R))
          /\ x' = Dispatched(x, m'.out)
    <2>1. PICK L \in Leaders(D) : \E Q \in SUBSET L :
            /\ m' = OnFrameAborted(Closed(Opened(Q), Q))
            /\ x' = Dispatched(x, m'.out)
      BY DEF RenderThrows
    <2>2. L \in SUBSET SurfaceIds
      BY DEF Leaders, Bracketable, Drawn
    <2> QED BY <2>1, <2>2
  <1> DEFINE o == Opened(R)
             k == Closed(o, R)
  <1>2. Like(m, o) /\ o \in Machines
    BY OpenedLike DEF Like
  <1> HIDE DEF o
  <1>3. Like(o, k) /\ k \in Machines
    BY <1>2, ClosedLike DEF Like
  <1>4. m' = OnFrameAborted(k)
    BY <1>1 DEF o
  <1> HIDE DEF k
  <1>5. Core(k, x, held, gone)
    BY <1>2, <1>3, LikeTrans, LikeCore, IInvFacts
  <1> DEFINE recs == [b \in BufferIds |-> IF b \in k.sampled /\ Known(k, b)
                                            THEN ClosedRec(k.buffers[b]) ELSE k.buffers[b]]
             flush == k.sampled
             none == {}
             j == Stepped(k, recs, flush, none)
  <1>6. k.buffers \in [BufferIds -> BufferRec] /\ flush \in SUBSET BufferIds
    BY <1>3 DEF Machines
  <1>7. ASSUME NEW b \in BufferIds
        PROVE  recs[b] \in BufferRec /\ Alike(k.buffers[b], recs[b])
    <2> DEFINE r == k.buffers[b]
               q == [r EXCEPT !.accessOpen = FALSE]
    <2>1. r \in BufferRec
      BY <1>6
    <2>2. recs[b] = r \/ (r.state # "Absent" /\ recs[b] = q)
      BY DEF Known, ClosedRec
    <2> HIDE DEF recs, r
    <2>3. q \in BufferRec /\ (r.state # "Absent" => Alike(r, q)) /\ Alike(r, r)
      BY <2>1 DEF BufferRec, Alike
    <2> QED BY <2>1, <2>2, <2>3 DEF r
  <1>8. recs \in [BufferIds -> BufferRec] /\ AllAlike(k.buffers, recs)
    BY <1>7 DEF AllAlike
  <1>9. m' = [j EXCEPT !.frameOpen = FALSE, !.sampled = {}]
    BY <1>4 DEF OnFrameAborted
  <1>10. /\ none \in SUBSET Intents /\ Silent(none) /\ j = Stepped(k, recs, flush, none)
         /\ Same(j, j)
    BY IInvFacts DEF Same
  <1> HIDE DEF recs, flush, none, j
  <1>11. j \in Machines
    BY IInvFacts, <1>3, <1>5, <1>6, <1>8, <1>10, AlikeTurn
  <1>12. m' \in Machines /\ Same(m', j)
    BY <1>9, <1>11 DEF Machines, Same
  <1>13. Turned(m', x, held, gone)
    BY IInvFacts, <1>3, <1>5, <1>6, <1>8, <1>10, <1>12, AlikeTurn
  <1>14. UNCHANGED <<reads, held, gone, alive>>
    BY DEF RenderThrows
  <1> QED BY <1>1, <1>12, <1>13, <1>14, IInvFacts DEF IInv, TypeOK, Turned

(* The executor y agrees with z on what Fits speaks of. *)
LEMMA MapsFit ==
  ASSUME NEW y, NEW z, y.imports = z.imports, y.queue = z.queue, y.freed = z.freed,
         NEW r, NEW b, NEW gn, Fits(r, b, y, gn)
  PROVE  Fits(r, b, z, gn)
  BY DEF Fits, InQueue

(* The first entry of the queue leaves it. *)
LEMMA Dequeued ==
  ASSUME NEW y \in Executors, Lined(y), y.queue # <<>>
  PROVE  LET q == Tail(y.queue)
             h == Head(y.queue)
         IN  /\ q \in Seq([buf: BufferIds, imp: ImportIds])
             /\ h.buf \in BufferIds /\ h.imp \in ImportIds /\ InQueue(y, h.buf)
             /\ h.imp \notin y.live /\ \A s \in SurfaceIds : y.texture[s].imp # h.imp
             /\ \A b \in BufferIds :
                  (\E j \in 1..Len(q) : q[j].buf = b) <=> b # h.buf /\ InQueue(y, b)
             /\ \A j \in 1..Len(q) :
                  /\ q[j].imp \notin y.live /\ q[j].imp # h.imp
                  /\ \A s \in SurfaceIds : y.texture[s].imp # q[j].imp
             /\ \A j, k \in 1..Len(q) : q[j].imp = q[k].imp \/ q[j].buf = q[k].buf => j = k
  <1> DEFINE a == y.queue
             q == Tail(a)
             h == Head(a)
             E == [buf: BufferIds, imp: ImportIds]
  <1>1. a \in Seq(E) /\ a # <<>>
    BY DEF Executors
  <1>2. /\ \A j \in 1..Len(a) :
             /\ a[j].imp \notin y.live
             /\ \A s \in SurfaceIds : y.texture[s].imp # a[j].imp
        /\ \A j, k \in 1..Len(a) : a[j].imp = a[k].imp \/ a[j].buf = a[k].buf => j = k
    BY DEF Lined
  <1>3. \A b : InQueue(y, b) <=> \E j \in 1..Len(a) : a[j].buf = b
    BY DEF InQueue
  <1> HIDE DEF a, E
  <1>4. /\ q \in Seq(E) /\ h = a[1] /\ Len(a) \in Nat /\ Len(a) >= 1 /\ h \in E
        /\ Len(q) = Len(a) - 1 /\ \A j \in 1..Len(q) : q[j] = a[j + 1] /\ j + 1 \in 1..Len(a)
    BY <1>1
  <1>5. h.buf \in BufferIds /\ h.imp \in ImportIds
    BY <1>4 DEF E
  <1> HIDE DEF q, h
  <1>6. 1 \in 1..Len(a) /\ \A j \in 1..Len(q) : j + 1 # 1
    BY <1>4
  <1>7. InQueue(y, h.buf) /\ h.imp \notin y.live /\ \A s \in SurfaceIds : y.texture[s].imp # h.imp
    BY <1>2, <1>3, <1>4, <1>6
  <1>8. ASSUME NEW b \in BufferIds
        PROVE  (\E j \in 1..Len(q) : q[j].buf = b) <=> b # h.buf /\ InQueue(y, b)
    <2>1. ASSUME NEW j \in 1..Len(q), q[j].buf = b
          PROVE  b # h.buf /\ InQueue(y, b)
      BY <1>2, <1>3, <1>4, <1>6, <2>1
    <2>2. ASSUME b # h.buf, InQueue(y, b)
          PROVE  \E j \in 1..Len(q) : q[j].buf = b
      <3>1. PICK i \in 1..Len(a) : a[i].buf = b
        BY <1>3, <2>2
      <3>2. i # 1
        BY <1>4, <2>2, <3>1
      <3>3. i - 1 \in 1..Len(q) /\ (i - 1) + 1 = i
        BY <1>4, <3>2
      <3>4. q[i - 1].buf = b
        BY <1>4, <3>1, <3>3
      <3> QED BY <3>3, <3>4
    <2> QED BY <2>1, <2>2
  <1>9. ASSUME NEW j \in 1..Len(q)
        PROVE  /\ q[j].imp \notin y.live /\ q[j].imp # h.imp
               /\ \A s \in SurfaceIds : y.texture[s].imp # q[j].imp
    BY <1>2, <1>4, <1>6
  <1>10. ASSUME NEW j \in 1..Len(q), NEW k \in 1..Len(q),
                q[j].imp = q[k].imp \/ q[j].buf = q[k].buf
         PROVE  j = k
    <2>1. q[j] = a[j + 1] /\ q[k] = a[k + 1] /\ j + 1 \in 1..Len(a) /\ k + 1 \in 1..Len(a)
      BY <1>4
    <2>2. j + 1 = k + 1
      BY <1>2, <1>10, <2>1, Zenon
    <2> QED BY <1>4, <2>2
  <1> QED BY <1>4, <1>5, <1>7, <1>8, <1>9, <1>10 DEF q, h, a, E

(* runImportBuffer's callback with null. *)
LEMMA ImportFailsIInv ==
  ASSUME IInv, ImportFails
  PROVE  IInv'
  <1> DEFINE b == Head(x.queue).buf
             y == [x EXCEPT !.queue = Tail(@), !.pending[b] = {}]
             recs == [m.buffers EXCEPT ![b].state = "Poisoned"]
             flush == {b}
             none == {}
             j == Stepped(m, recs, flush, none)
  <1>1. x \in Executors /\ Lined(x) /\ x.queue # <<>>
    BY IInvFacts DEF ImportFails, Core, Owned
  <1>2. /\ b \in BufferIds /\ InQueue(x, b)
        /\ Tail(x.queue) \in Seq([buf: BufferIds, imp: ImportIds])
        /\ \A c \in BufferIds :
             (\E k \in 1..Len(Tail(x.queue)) : Tail(x.queue)[k].buf = c) <=> c # b /\ InQueue(x, c)
        /\ \A k \in 1..Len(Tail(x.queue)) :
             /\ Tail(x.queue)[k].imp \notin x.live
             /\ \A s \in SurfaceIds : x.texture[s].imp # Tail(x.queue)[k].imp
        /\ \A i, k \in 1..Len(Tail(x.queue)) :
             Tail(x.queue)[i].imp = Tail(x.queue)[k].imp
               \/ Tail(x.queue)[i].buf = Tail(x.queue)[k].buf => i = k
    BY <1>1, Dequeued
  <1>3. m.buffers[b].state = "Importing"
    BY <1>2, IInvFacts DEF Core, Fitting, Fits
  <1>4. m' = j /\ x' = Dispatched(y, m'.out) /\ UNCHANGED <<reads, held, gone, alive>>
    BY <1>3 DEF ImportFails, OnAccessFailed, Known
  <1> DEFINE q == Tail(x.queue)
  <1> HIDE DEF b, q
  <1>5. /\ y \in Executors /\ y.queue = q /\ y.pending[b] = {}
        /\ \A c \in BufferIds : c # b => y.pending[c] = x.pending[c]
        /\ y.imports = x.imports /\ y.zombies = x.zombies /\ y.texture = x.texture
        /\ y.freed = x.freed /\ y.live = x.live
    <2>1. q \in Seq([buf: BufferIds, imp: ImportIds]) /\ b \in BufferIds
      BY <1>2 DEF q
    <2>2. y = [x EXCEPT !.queue = q, !.pending[b] = {}]
      BY DEF q
    <2> DEFINE pend == [x.pending EXCEPT ![b] = {}]
    <2>3. /\ pend \in [BufferIds -> SUBSET SurfaceIds] /\ pend[b] = {}
          /\ \A c \in BufferIds : c # b => pend[c] = x.pending[c]
      BY <1>1, <2>1 DEF Executors
    <2>4. y = [x EXCEPT !.queue = q, !.pending = pend]
      BY <1>1, <2>2 DEF Executors
    <2> HIDE DEF y, pend
    <2>5. /\ y \in Executors /\ y.queue = q /\ y.pending = pend
          /\ y.imports = x.imports /\ y.zombies = x.zombies /\ y.texture = x.texture
          /\ y.freed = x.freed /\ y.live = x.live
      BY <1>1, <2>1, <2>3, <2>4 DEF Executors
    <2> QED BY <2>3, <2>5
  <1> HIDE DEF y
  <1>6. Owned(y)
    <2>1. Owners(y) /\ Parked(y)
      BY <1>5, IInvFacts DEF Core, Owned, Owners, Parked, Displayed
    <2>2. Lined(y)
      <3>1. /\ \A k \in 1..Len(q) :
                 q[k].imp \notin x.live /\ \A s \in SurfaceIds : x.texture[s].imp # q[k].imp
            /\ \A i, k \in 1..Len(q) : q[i].imp = q[k].imp \/ q[i].buf = q[k].buf => i = k
        BY <1>2 DEF q
      <3>2. y.queue = q /\ y.live = x.live /\ y.texture = x.texture
        BY <1>5
      <3> QED BY <3>1, <3>2 DEF Lined
    <2> QED BY <2>1, <2>2 DEF Owned
  <1>7. \A c \in BufferIds : InQueue(y, c) <=> c # b /\ InQueue(x, c)
    BY <1>2, <1>5 DEF InQueue, q
  <1>8. ASSUME NEW c \in BufferIds
        PROVE  /\ recs[c] \in BufferRec /\ recs[c].releaseOwed = m.buffers[c].releaseOwed
               /\ Fits(recs[c], c, y, gone) /\ Served(recs[c], c, y)
    <2> DEFINE r == m.buffers[c]
               p == [r EXCEPT !.state = "Poisoned"]
    <2>1. r \in BufferRec /\ Fits(r, c, x, gone) /\ Served(r, c, x)
      BY IInvFacts DEF Core, Fitting
    <2>2. CASE c # b
      <3>1. recs[c] = r
        BY <2>2, <1>2, IInvFacts
      <3> QED BY <1>5, <1>7, <2>1, <2>2, <3>1 DEF Fits, Served
    <2>3. CASE c = b
      <3>1. recs[c] = p
        BY <2>3, <1>2, IInvFacts
      <3>2. /\ p \in BufferRec /\ p.state = "Poisoned" /\ p.destroyed = r.destroyed
            /\ p.releaseOwed = r.releaseOwed /\ p.importOwed = r.importOwed
            /\ p.currentSurfaceId = r.currentSurfaceId
        BY <2>1 DEF BufferRec
      <3> HIDE DEF p
      <3>3. Fits(p, c, y, gone) /\ Served(p, c, y)
        BY <1>3, <1>5, <1>7, <2>1, <2>3, <3>2 DEF Fits, Served, Sane
      <3> QED BY <3>1, <3>2, <3>3
    <2> QED BY <2>2, <2>3
  <1>9. recs \in [BufferIds -> BufferRec] /\ Fitting(recs, y, gone) /\ AllSane(recs)
    <2>1. DOMAIN recs = BufferIds /\ recs = [c \in BufferIds |-> recs[c]]
      BY IInvFacts
    <2> QED BY <1>8, <2>1 DEF Fitting, AllSane, Fits
  <1>10. Paid(recs, m.surfaces, y, held, gone)
    BY <1>5, <1>8, IInvFacts, SamePaid DEF Core
  <1>11. /\ none \in SUBSET Intents /\ Silent(none) /\ flush \in SUBSET BufferIds
    BY <1>2, IInvFacts
  <1> HIDE DEF recs, flush, none
  <1>12. /\ j \in Machines /\ j.buffers = FlushedBuffers(recs, flush)
         /\ j.out = none \cup FlushedOut(recs, flush) /\ j.surfaces = m.surfaces
    BY <1>9, <1>11, IInvFacts, SteppedFields
  <1> HIDE DEF j
  <1>13. Dispatched(y, j.out) \in Executors /\ Core(j, Dispatched(y, j.out), held, gone)
    <2>1. Paid(recs, j.surfaces, y, held, gone) /\ held \in [BufferIds -> Nat]
      BY <1>10, <1>12, IInvFacts
    <2> QED BY <1>5, <1>6, <1>9, <1>11, <1>12, <2>1, TurnCore
  <1> QED BY <1>4, <1>12, <1>13, IInvFacts DEF IInv, TypeOK

(* Deleting a dmabufPending entry. *)
LEMMA ClearedFields ==
  ASSUME NEW y \in Executors, Owned(y), NEW b \in BufferIds
  PROVE  LET z == [y EXCEPT !.pending[b] = {}] IN
         /\ z \in Executors /\ Owned(z)
         /\ z.imports = y.imports /\ z.queue = y.queue /\ z.freed = y.freed
         /\ z.texture = y.texture /\ z.pending[b] = {}
         /\ \A c \in BufferIds : c # b => z.pending[c] = y.pending[c]
  <1> DEFINE z == [y EXCEPT !.pending[b] = {}]
  <1>1. /\ z \in Executors /\ z.imports = y.imports /\ z.queue = y.queue
        /\ z.freed = y.freed /\ z.texture = y.texture /\ z.zombies = y.zombies
        /\ z.live = y.live /\ z.pending[b] = {}
        /\ \A c \in BufferIds : c # b => z.pending[c] = y.pending[c]
    BY DEF Executors
  <1> HIDE DEF z
  <1>2. Owned(z)
    BY <1>1 DEF Owned, Owners, Parked, Lined, Displayed
  <1> QED BY <1>1, <1>2 DEF z

(* Binding the surfaces that wait for b and deleting its entry. *)
LEMMA BoundCleared ==
  ASSUME NEW y \in Executors, Owned(y), NEW S \in SUBSET SurfaceIds,
         NEW b \in BufferIds, NEW i \in ImportIds, NEW recs, NEW gn,
         \A j \in 1..Len(y.queue) : y.queue[j].imp # i,
         \A c \in BufferIds : Fits(recs[c], c, y, gn),
         \A c \in BufferIds : c # b => Served(recs[c], c, y),
         NEW z, z = [Bound(y, S, b, i) EXCEPT !.pending[b] = {}]
  PROVE  z \in Executors /\ Owned(z) /\ Fitting(recs, z, gn)
  <1> DEFINE w == Bound(y, S, b, i)
  <1>1. /\ w \in Executors /\ Owned(w) /\ w.pending = y.pending /\ w.imports = y.imports
        /\ w.freed = y.freed /\ w.queue = y.queue
    BY BoundOwned
  <1>4. z = [w EXCEPT !.pending[b] = {}]
    OBVIOUS
  <1> HIDE DEF w
  <1>2. /\ z \in Executors /\ Owned(z)
        /\ z.imports = y.imports /\ z.queue = y.queue /\ z.freed = y.freed
        /\ z.pending[b] = {}
        /\ \A c \in BufferIds : c # b => z.pending[c] = y.pending[c]
    <2> DEFINE v == [w EXCEPT !.pending[b] = {}]
    <2>1. /\ v \in Executors /\ Owned(v)
          /\ v.imports = w.imports /\ v.queue = w.queue /\ v.freed = w.freed
          /\ v.texture = w.texture /\ v.pending[b] = {}
          /\ \A c \in BufferIds : c # b => v.pending[c] = w.pending[c]
      BY <1>1, ClearedFields
    <2>2. z = v
      BY <1>4
    <2> HIDE DEF v
    <2> QED BY <1>1, <2>1, <2>2
  <1>3. ASSUME NEW c \in BufferIds
        PROVE  Fits(recs[c], c, z, gn) /\ Served(recs[c], c, z)
    <2>1. Fits(recs[c], c, z, gn)
      BY <1>2, MapsFit
    <2>2. Served(recs[c], c, z)
      BY <1>2 DEF Served
    <2> QED BY <2>1, <2>2
  <1> QED BY <1>2, <1>3 DEF Fitting

(* runImportBuffer's callback with a handle. *)
LEMMA ImportSucceedsIInv ==
  ASSUME IInv, ImportSucceeds
  PROVE  IInv'
  <1> DEFINE b == Head(x.queue).buf
             i == Head(x.queue).imp
             q == Tail(x.queue)
             y == [x EXCEPT !.queue = Tail(@), !.live = @ \cup {i}, !.imports[b] = i]
             recs == [m.buffers EXCEPT ![b].state = "Imported"]
             flush == {b}
             none == {}
             j == Stepped(m, recs, flush, none)
             z == Dispatched(y, j.out)
  <1>1. x \in Executors /\ Lined(x) /\ x.queue # <<>>
    BY IInvFacts DEF ImportSucceeds, Core, Owned
  <1>2. /\ b \in BufferIds /\ i \in ImportIds /\ InQueue(x, b)
        /\ q \in Seq([buf: BufferIds, imp: ImportIds])
        /\ i \notin x.live /\ \A s \in SurfaceIds : x.texture[s].imp # i
        /\ \A c \in BufferIds : (\E k \in 1..Len(q) : q[k].buf = c) <=> c # b /\ InQueue(x, c)
        /\ \A k \in 1..Len(q) :
             /\ q[k].imp \notin x.live /\ q[k].imp # i
             /\ \A s \in SurfaceIds : x.texture[s].imp # q[k].imp
        /\ \A l, k \in 1..Len(q) : q[l].imp = q[k].imp \/ q[l].buf = q[k].buf => l = k
    BY <1>1, Dequeued
  <1>3. m.buffers[b].state = "Importing"
    BY <1>2, IInvFacts DEF Core, Fitting, Fits
  <1>4. /\ m' = j /\ UNCHANGED <<reads, held, gone, alive>>
        /\ x' = IF x.pending[b] = {} THEN z
                ELSE [Bound(z, x.pending[b], b, i) EXCEPT !.pending[b] = {}]
    <2> DEFINE n == OnImportCompleted(m, b)
    <2>1. n = j
      BY <1>3 DEF OnImportCompleted
    <2>2. /\ m' = n /\ UNCHANGED <<reads, held, gone, alive>>
          /\ x' = IF x.pending[b] = {} THEN Dispatched(y, n.out)
                  ELSE [Bound(Dispatched(y, n.out), x.pending[b], b, i) EXCEPT !.pending[b] = {}]
      BY DEF ImportSucceeds
    <2> HIDE DEF n, j, y, b, i
    <2> QED BY <2>1, <2>2
  <1>5. x.imports[b] = NoImport /\ i # NoImport
    BY <1>2, <1>3, IInvFacts, NoImportAssumption DEF Core, Fitting, Fits
  <1> DEFINE imps == [x.imports EXCEPT ![b] = i]
  <1>6. /\ y = [x EXCEPT !.queue = q, !.live = x.live \cup {i}, !.imports = imps]
        /\ x.live \cup {i} \in SUBSET ImportIds
        /\ imps \in [BufferIds -> ImportIds \cup {NoImport}]
        /\ imps[b] = i /\ \A c \in BufferIds : c # b => imps[c] = x.imports[c]
    BY <1>1, <1>2 DEF Executors
  <1> HIDE DEF b, i, q, imps
  <1>7. /\ y \in Executors /\ y.queue = q /\ y.live = x.live \cup {i}
        /\ y.imports[b] = i /\ \A c \in BufferIds : c # b => y.imports[c] = x.imports[c]
        /\ y.pending = x.pending /\ y.zombies = x.zombies /\ y.texture = x.texture
        /\ y.freed = x.freed
    <2> HIDE DEF y
    <2> QED BY <1>1, <1>2, <1>6 DEF Executors
  <1> HIDE DEF y
  <1>8. Owned(y)
    <2>1. Owners(x) /\ Parked(x)
      BY IInvFacts DEF Core, Owned
    <2>2. Owners(y)
      BY <1>2, <1>5, <1>7, <2>1 DEF Owners
    <2>3. Parked(y)
      BY <1>7, <2>1 DEF Parked, Displayed
    <2>4. Lined(y)
      BY <1>2, <1>7 DEF Lined
    <2> QED BY <2>2, <2>3, <2>4 DEF Owned
  <1>9. \A c \in BufferIds : InQueue(y, c) <=> c # b /\ InQueue(x, c)
    BY <1>2, <1>7 DEF InQueue
  <1>10. ASSUME NEW c \in BufferIds
         PROVE  /\ recs[c] \in BufferRec /\ recs[c].releaseOwed = m.buffers[c].releaseOwed
                /\ Fits(recs[c], c, y, gone)
                /\ c # b \/ x.pending[b] = {} => Served(recs[c], c, y)
    <2> DEFINE r == m.buffers[c]
               p == [r EXCEPT !.state = "Imported"]
    <2>1. r \in BufferRec /\ Fits(r, c, x, gone) /\ Served(r, c, x)
      BY IInvFacts DEF Core, Fitting
    <2>2. CASE c # b
      <3>1. recs[c] = r
        BY <2>2, <1>2, IInvFacts
      <3> QED BY <1>7, <1>9, <2>1, <2>2, <3>1 DEF Fits, Served
    <2>3. CASE c = b
      <3>1. recs[c] = p
        BY <2>3, <1>2, IInvFacts
      <3>2. /\ p \in BufferRec /\ p.state = "Imported" /\ p.destroyed = r.destroyed
            /\ p.releaseOwed = r.releaseOwed /\ p.importOwed = r.importOwed
            /\ p.currentSurfaceId = r.currentSurfaceId
        BY <2>1 DEF BufferRec
      <3> HIDE DEF p
      <3>3. Fits(p, c, y, gone) /\ (x.pending[b] = {} => Served(p, c, y))
        BY <1>3, <1>5, <1>7, <1>9, <2>1, <2>3, <3>2 DEF Fits, Served, Sane
      <3> QED BY <2>3, <3>1, <3>2, <3>3
    <2> QED BY <2>2, <2>3
  <1>11. recs \in [BufferIds -> BufferRec] /\ AllSane(recs) /\ Flushable(recs, flush, y, gone)
    <2>1. DOMAIN recs = BufferIds /\ recs = [c \in BufferIds |-> recs[c]]
      BY IInvFacts
    <2>2. recs \in [BufferIds -> BufferRec]
      BY <1>10, <2>1
    <2> HIDE DEF recs
    <2>3. AllSane(recs)
      BY <1>10 DEF AllSane, Fits
    <2>4. \A c \in flush : Fits(recs[c], c, y, gone)
      BY <1>2, <1>10
    <2> QED BY <2>2, <2>3, <2>4 DEF Flushable, AllSane
  <1>12. Paid(recs, m.surfaces, y, held, gone)
    BY <1>7, <1>10, IInvFacts, SamePaid DEF Core
  <1>13. /\ none \in SUBSET Intents /\ Silent(none) /\ flush \in SUBSET BufferIds
    BY <1>2, IInvFacts
  <1> HIDE DEF recs, flush, none
  <1>14. /\ j \in Machines /\ j.buffers = FlushedBuffers(recs, flush)
         /\ j.out = none \cup FlushedOut(recs, flush) /\ j.surfaces = m.surfaces
    BY <1>11, <1>13, IInvFacts, SteppedFields
  <1>15. Landed(recs, flush, j.buffers, y, z, gone)
    <2> DEFINE out == j.out
               k == j.buffers
    <2>1. /\ out = none \cup FlushedOut(recs, flush) /\ k = FlushedBuffers(recs, flush)
          /\ z = Dispatched(y, out)
      BY <1>14
    <2> HIDE DEF out, k, z
    <2>2. Landed(recs, flush, k, y, z, gone)
      BY <1>7, <1>8, <1>11, <1>13, <2>1, DispatchFits
    <2> QED BY <2>2 DEF k
  <1> HIDE DEF j, z
  <1>19. Paid(j.buffers, j.surfaces, z, held, gone)
    BY <1>7, <1>12, <1>14, <1>15, IInvFacts, LandedPaid
  <1>16. /\ z \in Executors /\ Owned(z) /\ z.queue = q
         /\ \A c \in BufferIds :
              /\ Fits(j.buffers[c], c, z, gone)
              /\ c # b \/ x.pending[b] = {} => Served(j.buffers[c], c, z)
    BY <1>7, <1>10, <1>14, <1>15 DEF Landed
  <1>17. CASE x.pending[b] = {}
    BY <1>4, <1>14, <1>16, <1>17, <1>19, IInvFacts DEF IInv, TypeOK, Core, Fitting
  <1>18. CASE x.pending[b] # {}
    <2> DEFINE S == x.pending[b]
               w == [Bound(z, S, b, i) EXCEPT !.pending[b] = {}]
               bufs == j.buffers
    <2>1. S \in SUBSET SurfaceIds
      BY <1>1, <1>2 DEF Executors
    <2>2. x' = w
      BY <1>4, <1>18
    <2>3. /\ \A l \in 1..Len(z.queue) : z.queue[l].imp # i
          /\ \A c \in BufferIds : Fits(bufs[c], c, z, gone)
          /\ \A c \in BufferIds : c # b => Served(bufs[c], c, z)
      BY <1>2, <1>16
    <2> HIDE DEF S, bufs
    <2>4. w \in Executors /\ Owned(w) /\ Fitting(bufs, w, gone) /\ w.freed = z.freed
      <3>1. w = [Bound(z, S, b, i) EXCEPT !.pending[b] = {}]
        OBVIOUS
      <3>2. b \in BufferIds /\ i \in ImportIds /\ z \in Executors /\ Owned(z)
        BY <1>2, <1>16
      <3> HIDE DEF w
      <3>3. w \in Executors /\ Owned(w)
        BY <2>1, <2>3, <3>1, <3>2, BoundCleared
      <3>4. Fitting(bufs, w, gone)
        BY <2>1, <2>3, <3>1, <3>2, BoundCleared
      <3>5. w.freed = z.freed
        <4> DEFINE v == Bound(z, S, b, i)
        <4>1. v \in Executors /\ v.freed = z.freed
          BY <2>1, <2>3, <3>2, BoundOwned
        <4>2. w = [v EXCEPT !.pending[b] = {}]
          BY <3>1
        <4> HIDE DEF v
        <4> QED BY <4>1, <4>2 DEF Executors
      <3> QED BY <3>3, <3>4, <3>5
    <2> HIDE DEF w
    <2>5. Paid(bufs, j.surfaces, w, held, gone)
      BY <1>19, <2>4, SamePaid DEF bufs
    <2> QED BY <1>4, <1>14, <1>16, <2>2, <2>4, <2>5, IInvFacts DEF IInv, TypeOK, Core, bufs
  <1> QED BY <1>17, <1>18

(* wl_buffer.destroy. *)
LEMMA DestroyBufferIInv ==
  ASSUME IInv, NEW b \in BufferIds, DestroyBuffer(b)
  PROVE  IInv'
  <1> DEFINE r == m.buffers[b]
             q == [r EXCEPT !.destroyed = TRUE, !.importOwed = TRUE,
                            !.currentSurfaceId = NoSurface, !.releaseOwed = FALSE]
             recs == IF Known(m, b) THEN [m.buffers EXCEPT ![b] = q] ELSE m.buffers
             flush == IF Known(m, b) THEN {b} ELSE {}
             surf == IF Known(m, b)
                     THEN [s \in SurfaceIds |->
                             IF s = r.currentSurfaceId /\ m.surfaces[s] = b
                               THEN NoBuffer ELSE m.surfaces[s]]
                     ELSE m.surfaces
             hd == [held EXCEPT ![b] = 0]
             gn == gone \cup {b}
             none == {}
             j == Stepped(m, recs, flush, none)
  <1>1. r \in BufferRec /\ Fits(r, b, x, gone) /\ Served(r, b, x)
    BY IInvFacts DEF Core, Fitting
  <1>2. /\ q \in BufferRec /\ q.destroyed = TRUE /\ q.importOwed = TRUE
        /\ q.currentSurfaceId = NoSurface /\ q.releaseOwed = FALSE /\ q.state = r.state
    BY <1>1 DEF BufferRec
  <1>3. m.surfaces \in [SurfaceIds -> BufferIds \cup {NoBuffer}]
        /\ surf \in [SurfaceIds -> BufferIds \cup {NoBuffer}]
    BY IInvFacts
  <1>4. /\ recs \in [BufferIds -> BufferRec]
        /\ \A c \in BufferIds : c # b => recs[c] = m.buffers[c]
        /\ Known(m, b) => recs[b] = q
        /\ ~Known(m, b) => recs[b] = r /\ r = AbsentRec
    <2> HIDE DEF q
    <2> QED BY <1>1, <1>2, IInvFacts DEF Known, Fits, Sane
  <1>5. /\ x' = Dispatched(x, m'.out) /\ held' = hd /\ gone' = gn /\ UNCHANGED <<reads, alive>>
        /\ m' = OnBufferDestroyed(m, b)
    BY DEF DestroyBuffer
  <1>6. CASE Known(m, b)
    <2>1. m' = [j EXCEPT !.surfaces = surf]
      BY <1>5, <1>6 DEF OnBufferDestroyed
    <2>2. Fitting(recs, x, gn)
      <3>1. ASSUME NEW c \in BufferIds
            PROVE  Fits(recs[c], c, x, gn) /\ Served(recs[c], c, x)
        <4> HIDE DEF recs, q, r
        <4>1. CASE c = b
          BY <1>1, <1>2, <1>4, <1>6, <4>1 DEF Fits, Served, Sane, Known, r
        <4>2. CASE c # b
          <5>1. Fits(m.buffers[c], c, x, gone) /\ Served(m.buffers[c], c, x)
            BY IInvFacts DEF Core, Fitting
          <5> QED BY <1>4, <4>2, <5>1 DEF Fits
        <4> QED BY <4>1, <4>2
      <3> QED BY <3>1 DEF Fitting
    <2>3. Paid(recs, surf, x, hd, gn)
      <3>1. ASSUME NEW c \in BufferIds \ gn
            PROVE  x.freed[c] + Owed(recs[c]) + Shows(surf, c) <= hd[c]
        <4>1. /\ c \in BufferIds \ gone /\ recs[c] = m.buffers[c] /\ hd[c] = held[c]
              /\ \A s \in SurfaceIds : surf[s] = c => m.surfaces[s] = c
          BY <1>4, NoBufferAssumption, IInvFacts
        <4>2. x.freed[c] + Owed(m.buffers[c]) + Shows(m.surfaces, c) <= held[c]
          BY <4>1, IInvFacts DEF Core, Paid
        <4>3. Shows(surf, c) <= Shows(m.surfaces, c)
          BY <4>1, ShowsFewer
        <4>4. /\ Shows(surf, c) \in Nat /\ Shows(m.surfaces, c) \in Nat
              /\ x.freed[c] \in Nat /\ Owed(m.buffers[c]) \in Nat /\ held[c] \in Nat
          BY ShowsNat, IInvFacts DEF Executors, Owed
        <4> HIDE DEF recs, surf, hd
        <4> QED BY <4>1, <4>2, <4>3, <4>4
      <3> QED BY <3>1 DEF Paid
    <2>4. AllSane(recs) /\ none \in SUBSET Intents /\ Silent(none) /\ flush \in SUBSET BufferIds
      BY <2>2, IInvFacts DEF AllSane, Fitting, Fits
    <2> HIDE DEF recs, flush, none, surf, gn, r, q
    <2>5. /\ j \in Machines /\ j.buffers = FlushedBuffers(recs, flush)
          /\ j.out = none \cup FlushedOut(recs, flush)
      <3>1. m \in Machines /\ recs \in [BufferIds -> BufferRec]
        BY <1>4, IInvFacts
      <3> QED BY <2>4, <3>1, SteppedFields
    <2> HIDE DEF j
    <2>6. /\ m' \in Machines /\ m'.buffers = FlushedBuffers(recs, flush)
          /\ m'.out = none \cup FlushedOut(recs, flush) /\ m'.surfaces = surf
      BY <1>3, <2>1, <2>5 DEF Machines
    <2>7. Dispatched(x, m'.out) \in Executors /\ Core(m', Dispatched(x, m'.out), hd, gn)
      <3> DEFINE n == m'
      <3>1. /\ n.buffers = FlushedBuffers(recs, flush) /\ Paid(recs, n.surfaces, x, hd, gn)
            /\ n.out = none \cup FlushedOut(recs, flush)
        BY <2>3, <2>6
      <3>2. x \in Executors /\ Owned(x) /\ hd \in [BufferIds -> Nat]
        BY IInvFacts DEF Core
      <3> HIDE DEF n, hd
      <3>3. Dispatched(x, n.out) \in Executors /\ Core(n, Dispatched(x, n.out), hd, gn)
        BY <1>4, <2>2, <2>4, <3>1, <3>2, TurnCore
      <3> QED BY <3>3 DEF n
    <2>8. hd \in [BufferIds -> Nat] /\ gn \subseteq BufferIds
      BY IInvFacts DEF gn
    <2> QED BY <1>5, <2>6, <2>7, <2>8, IInvFacts DEF IInv, TypeOK
  <1>7. CASE ~Known(m, b)
    <2>1. m' = [m EXCEPT !.out = none]
      BY <1>5, <1>7 DEF OnBufferDestroyed, Ignored
    <2>2. Fitting(m.buffers, x, gn)
      <3>1. ASSUME NEW c \in BufferIds
            PROVE  Fits(m.buffers[c], c, x, gn) /\ Served(m.buffers[c], c, x)
        <4>0. Fits(m.buffers[c], c, x, gone) /\ Served(m.buffers[c], c, x)
            BY IInvFacts DEF Core, Fitting
        <4>1. CASE c = b
          <5>1. /\ r = AbsentRec /\ AbsentRec.state = "Absent"
                /\ AbsentRec.currentSurfaceId = NoSurface /\ AbsentRec.releaseOwed = FALSE
            BY <1>4, <1>7 DEF AbsentRec, NewRec
          <5> QED BY <1>1, <4>1, <5>1 DEF Fits
        <4>2. CASE c # b
          BY <4>0, <4>2 DEF Fits
        <4> QED BY <4>1, <4>2
      <3> QED BY <3>1 DEF Fitting
    <2> DEFINE recs0 == m.buffers
               none0 == {}
               n == m'
    <2>3. /\ n \in Machines /\ n.buffers = recs0 /\ n.surfaces = m.surfaces /\ n.out = none
      BY <2>1, IInvFacts DEF Machines
    <2>4. /\ recs0 \in [BufferIds -> BufferRec] /\ none0 \in SUBSET BufferIds
          /\ none \in SUBSET Intents /\ Silent(none)
          /\ FlushedBuffers(recs0, none0) = recs0 /\ FlushedOut(recs0, none0) = {}
      BY IInvFacts, QuietFlush
    <2>5. n.buffers = FlushedBuffers(recs0, none0) /\ n.out = none \cup FlushedOut(recs0, none0)
      BY <2>3, <2>4
    <2>6. /\ Fitting(recs0, x, gn) /\ x \in Executors /\ Owned(x)
          /\ Paid(recs0, n.surfaces, x, hd, gn)
      <3>1. Paid(recs0, n.surfaces, x, held, gone)
        BY <2>3, IInvFacts DEF Core
      <3>2. \A c \in BufferIds \ gn : c \in BufferIds \ gone /\ hd[c] = held[c]
        BY IInvFacts
      <3> HIDE DEF recs0, n, hd, gn
      <3>3. Paid(recs0, n.surfaces, x, hd, gn)
        BY <3>1, <3>2 DEF Paid
      <3> QED BY <2>2, <3>3, IInvFacts DEF Core, recs0
    <2>7. hd \in [BufferIds -> Nat] /\ gn \subseteq BufferIds
      BY IInvFacts
    <2> HIDE DEF recs0, none0, n, none, hd, gn
    <2>8. Dispatched(x, n.out) \in Executors /\ Core(n, Dispatched(x, n.out), hd, gn)
      BY <2>4, <2>5, <2>6, <2>7, TurnCore
    <2> QED BY <1>5, <2>3, <2>7, <2>8, IInvFacts DEF IInv, TypeOK, n
  <1> QED BY <1>6, <1>7

(* The executor z agrees with y on all that the entries' Fitting speaks of. *)
LEMMA MapsFitting ==
  ASSUME NEW y, NEW z, y.imports = z.imports, y.queue = z.queue, y.freed = z.freed,
         y.pending = z.pending, NEW recs, NEW gn, Fitting(recs, y, gn)
  PROVE  Fitting(recs, z, gn)
  <1>1. ASSUME NEW b \in BufferIds
        PROVE  Fits(recs[b], b, z, gn) /\ Served(recs[b], b, z)
    <2>1. Fits(recs[b], b, y, gn) /\ Served(recs[b], b, y)
      BY DEF Fitting
    <2>2. Fits(recs[b], b, z, gn)
      BY <2>1, MapsFit
    <2> QED BY <2>1, <2>2 DEF Served
  <1> QED BY <1>1 DEF Fitting

(* removeSurface. *)
LEMMA RemoveSurfaceIInv ==
  ASSUME IInv, NEW s \in SurfaceIds, RemoveSurface(s)
  PROVE  IInv'
  <1> DEFINE cur == {b \in BufferIds : b = m.surfaces[s] /\ Known(m, b)}
             recs == [b \in BufferIds |->
                        IF b \in cur /\ m.buffers[b].currentSurfaceId = s
                          THEN DrainedRec(m.buffers[b]) ELSE m.buffers[b]]
             surf == [m.surfaces EXCEPT ![s] = NoBuffer]
             none == {}
             j == Stepped(m, recs, cur, none)
             n == m'
             y == Dispatched(x, n.out)
             w == [y EXCEPT !.texture[s] = NoTexture]
  <1>1. /\ n = [j EXCEPT !.surfaces = [@ EXCEPT ![s] = NoBuffer]] /\ x' = Drained(w)
        /\ alive' = alive \ {s} /\ UNCHANGED <<reads, held, gone>>
    BY DEF RemoveSurface, OnSurfaceRemoved
  <1>2. /\ Paid(m.buffers, m.surfaces, x, held, gone) /\ Fitting(m.buffers, x, gone)
        /\ Owned(x) /\ x \in Executors
    BY IInvFacts DEF Core
  <1>3. ASSUME NEW b \in BufferIds
        PROVE  /\ recs[b] \in BufferRec
               /\ Fits(recs[b], b, x, gone) /\ Served(recs[b], b, x)
               /\ recs[b].releaseOwed =>
                    m.surfaces[s] = b \/ m.buffers[b].releaseOwed
    <2> DEFINE r == m.buffers[b]
               q == [r EXCEPT !.releaseOwed = TRUE, !.importOwed = TRUE,
                              !.currentSurfaceId = NoSurface]
    <2>1. r \in BufferRec /\ Fits(r, b, x, gone) /\ Served(r, b, x)
      BY <1>2, IInvFacts DEF Fitting
    <2>2. CASE ~(b \in cur /\ r.currentSurfaceId = s)
      BY <2>1, <2>2
    <2>3. CASE b \in cur /\ r.currentSurfaceId = s
      <3>1. s # NoSurface /\ m.surfaces[s] = b
        BY <2>3, NoSurfaceAssumption
      <3>2. r.state # "Absent" /\ r.importOwed = FALSE /\ r.destroyed = FALSE
        <4>1. Sane(r) /\ r.state # "Absent"
          BY <2>1, <2>3 DEF Fits, Known
        <4>2. r.currentSurfaceId = s
          BY <2>3
        <4> HIDE DEF r
        <4> QED BY <2>1, <3>1, <4>1, <4>2 DEF Sane, BufferRec
      <3>3. DrainedRec(r) = q
        BY <2>1, <3>2 DEF DrainedRec, BufferRec
      <3>4. recs[b] = DrainedRec(r)
        BY <2>3
      <3> HIDE DEF recs, r
      <3>5. /\ q \in BufferRec /\ q.releaseOwed = TRUE /\ q.importOwed = TRUE
            /\ q.currentSurfaceId = NoSurface /\ q.state = r.state
            /\ q.destroyed = r.destroyed
        BY <2>1 DEF BufferRec
      <3> HIDE DEF q
      <3>6. Fits(q, b, x, gone) /\ Served(q, b, x)
        BY <2>1, <3>1, <3>2, <3>5 DEF Fits, Served, Sane
      <3> QED BY <3>1, <3>3, <3>4, <3>5, <3>6
    <2> QED BY <2>2, <2>3
  <1>4. recs \in [BufferIds -> BufferRec]
    <2>1. recs = [b \in BufferIds |-> recs[b]]
      OBVIOUS
    <2> QED BY <1>3, <2>1
  <1>5. surf \in [SurfaceIds -> BufferIds \cup {NoBuffer}]
        /\ \A t \in SurfaceIds : surf[t] = IF t = s THEN NoBuffer ELSE m.surfaces[t]
    BY IInvFacts
  <1>6. cur \in SUBSET BufferIds /\ none \in SUBSET Intents /\ Silent(none)
    BY IInvFacts
  <1> HIDE DEF recs, surf, cur, none
  <1>7. AllSane(recs) /\ Fitting(recs, x, gone)
    BY <1>3 DEF AllSane, Fitting, Fits
  <1>8. Paid(recs, surf, x, held, gone)
    <2>1. ASSUME NEW b \in BufferIds \ gone
          PROVE  x.freed[b] + Owed(recs[b]) + Shows(surf, b) <= held[b]
      <3>1. x.freed[b] + Owed(m.buffers[b]) + Shows(m.surfaces, b) <= held[b]
        BY <1>2 DEF Paid
      <3>2. /\ m.surfaces[s] = b => Shows(surf, b) + 1 = Shows(m.surfaces, b)
            /\ m.surfaces[s] # b => Shows(surf, b) = Shows(m.surfaces, b)
        BY ShowsMoves, NoBufferAssumption, IInvFacts DEF surf
      <3>3. /\ Shows(surf, b) \in Nat /\ Shows(m.surfaces, b) \in Nat
            /\ x.freed[b] \in Nat /\ held[b] \in Nat
        BY ShowsNat, IInvFacts DEF Executors
      <3>4. /\ Owed(recs[b]) \in {0, 1} /\ Owed(m.buffers[b]) \in {0, 1}
            /\ Owed(recs[b]) = 1 => m.surfaces[s] = b \/ Owed(m.buffers[b]) = 1
        BY <1>3 DEF Owed
      <3> QED BY <3>1, <3>2, <3>3, <3>4
    <2> QED BY <2>1 DEF Paid
  <1>9. /\ j \in Machines /\ j.buffers = FlushedBuffers(recs, cur)
        /\ j.out = none \cup FlushedOut(recs, cur) /\ j.surfaces = m.surfaces
    <2>1. m \in Machines
      BY IInvFacts
    <2>2. AllSane(recs)
      BY <1>7
    <2>3. j \in Machines
      BY <1>4, <1>6, <2>1, <2>2, SteppedFields
    <2>4. j.buffers = FlushedBuffers(recs, cur) /\ j.out = none \cup FlushedOut(recs, cur)
      BY <1>4, <1>6, <2>1, <2>2, SteppedFields
    <2>5. j.surfaces = m.surfaces
      BY <1>4, <1>6, <2>1, <2>2, SteppedFields
    <2> QED BY <2>3, <2>4, <2>5
  <1> HIDE DEF j
  <1>10. /\ n \in Machines /\ n.buffers = FlushedBuffers(recs, cur)
         /\ n.out = none \cup FlushedOut(recs, cur) /\ n.surfaces = surf
    <2>1. n = [j EXCEPT !.surfaces = surf]
      BY <1>1, <1>9 DEF surf
    <2> HIDE DEF n
    <2> QED BY <1>5, <1>9, <2>1 DEF Machines
  <1>11. y \in Executors /\ Core(n, y, held, gone)
    <2> HIDE DEF n, y
    <2>1. Paid(recs, n.surfaces, x, held, gone)
      BY <1>8, <1>10
    <2>2. Dispatched(x, n.out) \in Executors /\ Core(n, Dispatched(x, n.out), held, gone)
      BY <1>2, <1>4, <1>6, <1>7, <1>10, <2>1, IInvFacts, TurnCore
    <2> QED BY <2>2 DEF y
  <1> HIDE DEF n, y
  <1> DEFINE tex == [y.texture EXCEPT ![s] = NoTexture]
  <1>12. /\ w = [y EXCEPT !.texture = tex] /\ tex \in [SurfaceIds -> Textures]
         /\ \A t \in SurfaceIds : tex[t] = IF t = s THEN NoTexture ELSE y.texture[t]
    BY <1>11 DEF Executors, Textures, NoTexture
  <1> HIDE DEF tex
  <1>13. /\ w \in Executors /\ w.texture = tex /\ w.pending = y.pending
         /\ w.imports = y.imports /\ w.zombies = y.zombies /\ w.live = y.live
         /\ w.freed = y.freed /\ w.queue = y.queue
    <2> HIDE DEF w
    <2> QED BY <1>11, <1>12 DEF Executors
  <1> HIDE DEF w
  <1>14. Owners(w) /\ Lined(w)
    <2>1. Owners(y) /\ Lined(y)
      BY <1>11 DEF Core, Owned
    <2>2. Owners(w)
      BY <1>13, <2>1 DEF Owners
    <2>3. NoTexture.imp = NoImport
      BY DEF NoTexture
    <2>4. \A k \in 1..Len(y.queue) : y.queue[k].imp \in ImportIds
      <3> DEFINE a == y.queue
                 E == [buf: BufferIds, imp: ImportIds]
      <3>1. a \in Seq(E) /\ \A e \in E : e.imp \in ImportIds
        BY <1>11 DEF Executors
      <3> HIDE DEF a, E
      <3>2. \A k \in 1..Len(a) : a[k] \in E
        BY <3>1
      <3> QED BY <3>1, <3>2 DEF a
    <2>5. Lined(w)
      BY <1>12, <1>13, <2>1, <2>3, <2>4, NoImportAssumption DEF Lined
    <2> QED BY <2>2, <2>5
  <1> DEFINE z == Drained(w)
  <1>15. /\ z \in Executors /\ Owned(z) /\ z.pending = w.pending /\ z.imports = w.imports
         /\ z.freed = w.freed /\ z.queue = w.queue
    BY <1>13, <1>14, DrainedOwned
  <1> HIDE DEF z
  <1>16. Core(n, z, held, gone)
    <2> DEFINE bufs == n.buffers
    <2>1. Fitting(bufs, y, gone) /\ Paid(bufs, n.surfaces, y, held, gone)
      BY <1>11 DEF Core
    <2> HIDE DEF bufs
    <2>2. Fitting(bufs, z, gone)
      BY <1>13, <1>15, <2>1, MapsFitting
    <2>3. Paid(bufs, n.surfaces, z, held, gone)
      BY <1>13, <1>15, <2>1, SamePaid
    <2> QED BY <1>15, <2>2, <2>3 DEF Core, bufs
  <1> QED BY <1>1, <1>10, <1>15, <1>16, IInvFacts DEF IInv, TypeOK, n, z

(* dispatchFrameCallbacks. *)
LEMMA SendReleasesIInv ==
  ASSUME IInv, SendReleases
  PROVE  IInv'
  <1> DEFINE fr == [b \in BufferIds |-> 0]
             hd == [b \in BufferIds |-> IF b \in gone THEN 0 ELSE held[b] - x.freed[b]]
  <1>1. /\ x' = [x EXCEPT !.freed = fr] /\ held' = hd /\ UNCHANGED <<m, reads, gone, alive>>
        /\ fr \in [BufferIds -> Nat] /\ \A b \in BufferIds : fr[b] = 0
    BY DEF SendReleases
  <1> HIDE DEF fr
  <1>2. /\ x' \in Executors /\ x'.freed = fr /\ x'.pending = x.pending
        /\ x'.imports = x.imports /\ x'.zombies = x.zombies /\ x'.live = x.live
        /\ x'.texture = x.texture /\ x'.queue = x.queue
    BY <1>1, IInvFacts DEF Executors
  <1> DEFINE y == x'
  <1> HIDE DEF y
  <1>3. Owned(y)
    BY <1>2, IInvFacts DEF Core, Owned, Owners, Parked, Lined, Displayed, y
  <1>4. ASSUME NEW b \in BufferIds
        PROVE  Fits(m.buffers[b], b, y, gone) /\ Served(m.buffers[b], b, y)
    <2>1. Fits(m.buffers[b], b, x, gone) /\ Served(m.buffers[b], b, x)
      BY IInvFacts DEF Core, Fitting
    <2> QED BY <1>1, <1>2, <2>1 DEF Fits, Served, InQueue, y
  <1>7. ASSUME NEW b \in BufferIds
        PROVE  /\ hd[b] \in Nat
               /\ b \notin gone =>
                    y.freed[b] + Owed(m.buffers[b]) + Shows(m.surfaces, b) <= hd[b]
    <2>1. /\ Shows(m.surfaces, b) \in Nat /\ x.freed[b] \in Nat /\ held[b] \in Nat
          /\ Owed(m.buffers[b]) \in Nat /\ y.freed[b] = 0
      BY <1>1, <1>2, ShowsNat, IInvFacts DEF Executors, Owed, y
    <2>2. b \notin gone =>
            /\ x.freed[b] + Owed(m.buffers[b]) + Shows(m.surfaces, b) <= held[b]
            /\ hd[b] = held[b] - x.freed[b]
      BY IInvFacts DEF Core, Paid
    <2>3. b \in gone => hd[b] = 0
      OBVIOUS
    <2> HIDE DEF hd
    <2> QED BY <2>1, <2>2, <2>3
  <1>5. Core(m, y, hd, gone)
    <2> HIDE DEF hd
    <2> QED BY <1>3, <1>4, <1>7 DEF Core, Fitting, Paid
  <1>6. hd \in [BufferIds -> Nat]
    BY <1>7
  <1> QED BY <1>1, <1>2, <1>5, <1>6, IInvFacts DEF IInv, TypeOK, y

(* A new wl_buffer. *)
LEMMA NewBufferIInv ==
  ASSUME IInv, NEW b \in BufferIds, NewBuffer(b)
  PROVE  IInv'
  <1> DEFINE gn == gone \ {b}
  <1>1. /\ gone' = gn /\ UNCHANGED <<m, x, reads, held, alive>>
        /\ m.buffers[b].state = "Absent" /\ x.freed[b] = 0
        /\ \A s \in SurfaceIds : m.surfaces[s] # b
    BY DEF NewBuffer, Known
  <1>2. ASSUME NEW c \in BufferIds
        PROVE  Fits(m.buffers[c], c, x, gn) /\ Served(m.buffers[c], c, x)
    <2>1. Fits(m.buffers[c], c, x, gone) /\ Served(m.buffers[c], c, x)
      BY IInvFacts DEF Core, Fitting
    <2> QED BY <1>1, <2>1 DEF Fits
  <1>4. Shows(m.surfaces, b) = 0
    <2>1. {s \in SurfaceIds : m.surfaces[s] = b} = {}
      BY <1>1
    <2> QED BY <2>1, FS_EmptySet DEF Shows
  <1>5. Owed(m.buffers[b]) = 0
    <2>1. m.buffers[b] = AbsentRec
      BY <1>1, IInvFacts DEF Core, Fitting, Fits, Sane
    <2> QED BY <2>1 DEF Owed, AbsentRec, NewRec
  <1>6. Paid(m.buffers, m.surfaces, x, held, gn)
    <2>1. Paid(m.buffers, m.surfaces, x, held, gone) /\ held[b] \in Nat
      BY IInvFacts DEF Core
    <2> QED BY <1>1, <1>4, <1>5, <2>1 DEF Paid
  <1>3. Core(m, x, held, gn)
    BY <1>2, <1>6, IInvFacts DEF Core, Fitting
  <1> QED BY <1>1, <1>3, IInvFacts DEF IInv, TypeOK

(* A new wl_surface. *)
LEMMA NewSurfaceIInv ==
  ASSUME IInv, NEW s \in SurfaceIds, NewSurface(s)
  PROVE  IInv'
  BY DEF IInv, TypeOK, NewSurface

LEMMA InitIInv ==
  ASSUME Init
  PROVE  IInv
  <1>1. AbsentRec \in BufferRec /\ AbsentRec.state = "Absent" /\ Sane(AbsentRec)
        /\ AbsentRec.currentSurfaceId = NoSurface /\ AbsentRec.releaseOwed = FALSE
    BY DEF AbsentRec, NewRec, BufferRec, Fences, Sane
  <1>2. /\ m.buffers = [b \in BufferIds |-> AbsentRec]
        /\ m.surfaces = [s \in SurfaceIds |-> NoBuffer]
        /\ m \in Machines
    <2> HIDE DEF AbsentRec
    <2> QED BY <1>1 DEF Init, InitMachine, Machines
  <1>3. /\ x \in Executors /\ x.queue = <<>>
        /\ \A b \in BufferIds :
             /\ x.pending[b] = {} /\ x.imports[b] = NoImport
             /\ x.zombies[b] = NoImport /\ x.freed[b] = 0
    BY DEF Init, Executors, Textures, NoTexture
  <1>4. Owned(x)
    BY <1>3 DEF Owned, Owners, Parked, Lined
  <1>5. Paid(m.buffers, m.surfaces, x, held, gone)
    <2>1. ASSUME NEW b \in BufferIds
          PROVE  x.freed[b] = 0 /\ Owed(m.buffers[b]) = 0 /\ Shows(m.surfaces, b) = 0
                 /\ held[b] = 0
      <3>1. {s \in SurfaceIds : m.surfaces[s] = b} = {}
        BY <1>2, NoBufferAssumption
      <3> QED BY <1>1, <1>2, <1>3, <3>1, FS_EmptySet DEF Owed, Shows, Init
    <2> QED BY <2>1 DEF Paid
  <1>6. \A b \in BufferIds : ~InQueue(x, b)
    BY <1>3 DEF InQueue
  <1>7. Fitting(m.buffers, x, gone)
    <2>1. ASSUME NEW b \in BufferIds
          PROVE  Fits(m.buffers[b], b, x, gone) /\ Served(m.buffers[b], b, x)
      <3>1. m.buffers[b] = AbsentRec
        BY <1>2
      <3> QED BY <1>1, <1>3, <1>6, <3>1 DEF Fits, Served
    <2> QED BY <2>1 DEF Fitting
  <1>8. /\ reads \in [Serials -> SUBSET Textures]
        /\ held \in [BufferIds -> Nat] /\ gone \subseteq BufferIds /\ alive \subseteq SurfaceIds
    BY DEF Init
  <1> QED BY <1>2, <1>3, <1>4, <1>5, <1>7, <1>8 DEF IInv, TypeOK, Core

-----------------------------------------------------------------------------
(* The commits.                                                            *)

(* The commits to be answered once s has committed b. *)
Counted(s, b) == [held EXCEPT ![b] = IF m.surfaces[s] = b THEN @ ELSE @ + 1]

(* commitSurfaceDmabuf before its dispatch: the commit event of b on s     *)
(* made the entries recs, and its flush is still to be dispatched by y.    *)
Readied(recs, flush, emitted, n, y, s, b) ==
  /\ recs \in [BufferIds -> BufferRec] /\ flush \in SUBSET BufferIds /\ b \notin flush
  /\ Silent(emitted) /\ AllSane(recs)
  /\ n \in Machines /\ n.buffers = FlushedBuffers(recs, flush)
  /\ n.out = emitted \cup FlushedOut(recs, flush)
  /\ Counted(s, b) \in [BufferIds -> Nat]
  /\ Paid(recs, n.surfaces, y, Counted(s, b), gone)
  /\ y \in Executors /\ Owned(y) /\ y.live = x.live /\ y.texture = x.texture
  /\ y.queue = x.queue
  /\ \A c \in BufferIds : c # b \/ Known(m, b) =>
                             Fits(recs[c], c, y, gone) /\ Served(recs[c], c, y)
  /\ recs[b].state # "Absent"
  /\ ~Known(m, b) => /\ recs[b] = NewRec("Importing", s) /\ b \notin gone
                     /\ y.imports[b] = NoImport /\ ~InQueue(y, b)

(* The surface waits for the import. *)
LEMMA AwaitingFacts ==
  ASSUME IInv, NEW s \in SurfaceIds, NEW b \in BufferIds
  PROVE  LET y == Awaiting(s, b) IN
         /\ y \in Executors /\ Owned(y)
         /\ y.imports = x.imports /\ y.queue = x.queue /\ y.freed = x.freed
         /\ y.texture = x.texture /\ y.zombies = x.zombies /\ y.live = x.live
         /\ \A c \in BufferIds : c # b => y.pending[c] = x.pending[c]
         /\ y.pending[b] = {} \/ x.pending[b] # {} \/ x.imports[b] = NoImport
  <1> DEFINE pend == [x.pending EXCEPT ![b] = @ \cup {s}]
             y == Awaiting(s, b)
  <1>1. /\ pend \in [BufferIds -> SUBSET SurfaceIds]
        /\ \A c \in BufferIds : c # b => pend[c] = x.pending[c]
        /\ x \in Executors /\ Owned(x)
    BY IInvFacts DEF Executors, Core
  <1>2. CASE x.pending[b] = {} /\ x.imports[b] # NoImport
    <2>1. Awaiting(s, b) = x
      BY <1>2 DEF Awaiting
    <2> QED BY <1>1, <1>2, <2>1
  <1>3. CASE ~(x.pending[b] = {} /\ x.imports[b] # NoImport)
    <2>1. y = [x EXCEPT !.pending = pend]
      BY <1>1, <1>3 DEF Awaiting, Executors
    <2> HIDE DEF y, pend
    <2>2. /\ y \in Executors /\ y.pending = pend
          /\ y.imports = x.imports /\ y.queue = x.queue /\ y.freed = x.freed
          /\ y.texture = x.texture /\ y.zombies = x.zombies /\ y.live = x.live
      BY <1>1, <2>1 DEF Executors
    <2>3. Owned(y)
      BY <1>1, <2>2 DEF Owned, Owners, Parked, Lined, Displayed
    <2> QED BY <1>1, <1>3, <2>2, <2>3 DEF y
  <1> QED BY <1>2, <1>3

(* The entry the commit of b gives b. *)
Adopted(k, s, b) ==
  LET imported == IF Known(k, b) THEN k.buffers[b] ELSE NewRec("Importing", s)
  IN  IF k.surfaces[s] = b THEN imported
      ELSE [imported EXCEPT !.currentSurfaceId = s, !.releaseOwed = FALSE,
                            !.importOwed = FALSE]

(* y is x, but that a surface may wait for b's import. *)
Waits(y, b) ==
  /\ y.imports = x.imports /\ y.queue = x.queue /\ y.freed = x.freed
  /\ y.pending[b] = {} \/ x.pending[b] # {} \/ x.imports[b] = NoImport

(* q is a good entry for b once s commits it. *)
Fresh(q, s, b, y) ==
  /\ q \in BufferRec /\ Sane(q) /\ q.state # "Absent"
  /\ q.releaseOwed => m.surfaces[s] = b /\ m.buffers[b].releaseOwed
  /\ Known(m, b) => Fits(q, b, y, gone) /\ Served(q, b, y)
  /\ ~Known(m, b) => /\ q = NewRec("Importing", s)
                     /\ y.imports[b] = NoImport /\ ~InQueue(y, b)

LEMMA AdoptedFacts ==
  ASSUME IInv, NEW s \in SurfaceIds, NEW b \in BufferIds, MayCommit(s, b),
         NEW y, Waits(y, b)
  PROVE  Fresh(Adopted(m, s, b), s, b, y)
  <1> DEFINE r == m.buffers[b]
             q == Adopted(m, s, b)
  <1>1. /\ r \in BufferRec /\ Sane(r) /\ Fits(r, b, x, gone) /\ Served(r, b, x)
        /\ b \notin gone
    BY IInvFacts DEF Core, Fitting, Fits, MayCommit
  <1>2. InQueue(y, b) <=> InQueue(x, b)
    BY DEF InQueue, Waits
  <1>3. CASE Known(m, b)
    <2>1. r.state # "Absent" /\ ~r.destroyed
      BY <1>1, <1>3 DEF Known, Fits
    <2>2. /\ q \in BufferRec /\ Sane(q) /\ q.state = r.state /\ q.destroyed = r.destroyed
          /\ q.releaseOwed => m.surfaces[s] = b /\ r.releaseOwed
      <3>1. CASE m.surfaces[s] = b
        <4>1. q = r
          BY <1>3, <3>1 DEF Adopted
        <4> HIDE DEF q, r
        <4> QED BY <1>1, <3>1, <4>1
      <3>2. CASE m.surfaces[s] # b
        <4>1. q = [r EXCEPT !.currentSurfaceId = s, !.releaseOwed = FALSE,
                            !.importOwed = FALSE]
          BY <1>3, <3>2 DEF Adopted
        <4> HIDE DEF q, r
        <4>2. /\ q \in BufferRec /\ q.releaseOwed = FALSE /\ q.importOwed = FALSE
              /\ q.state = r.state /\ q.destroyed = r.destroyed
          BY <1>1, <4>1 DEF BufferRec
        <4> QED BY <2>1, <4>2 DEF Sane
      <3> QED BY <3>1, <3>2
    <2> HIDE DEF q, r
    <2>3. Fits(q, b, y, gone)
      BY <1>1, <1>2, <2>2 DEF Fits, Waits
    <2>4. Served(q, b, y)
      <3>1. r.state \in {"Importing", "Imported", "Poisoned"}
        BY <1>1, <2>1 DEF BufferRec
      <3> QED BY <1>1, <2>2, <3>1 DEF Served, Fits, Waits
    <2> QED BY <1>3, <2>1, <2>2, <2>3, <2>4 DEF q, r, Fresh
  <1>4. CASE ~Known(m, b)
    <2> DEFINE new == NewRec("Importing", s)
    <2>1. r.state = "Absent"
      BY <1>4 DEF Known
    <2>2. /\ new \in BufferRec /\ Sane(new) /\ new.state = "Importing"
          /\ new.currentSurfaceId = s /\ new.releaseOwed = FALSE /\ new.importOwed = FALSE
      BY DEF NewRec, BufferRec, Fences, Sane
    <2>3. q = new
      <3>1. q = IF m.surfaces[s] = b THEN new
                ELSE [new EXCEPT !.currentSurfaceId = s, !.releaseOwed = FALSE,
                                 !.importOwed = FALSE]
        BY <1>4 DEF Adopted
      <3> HIDE DEF new, q
      <3> QED BY <2>2, <3>1 DEF BufferRec
    <2>4. y.imports[b] = NoImport /\ ~InQueue(y, b)
      BY <1>1, <1>2, <2>1 DEF Fits, Waits
    <2> HIDE DEF new, q
    <2> QED BY <1>4, <2>2, <2>3, <2>4 DEF new, q, Fresh
  <1> QED BY <1>3, <1>4

(* The commit event. *)
LEMMA CommitFacts ==
  ASSUME IInv, NEW s \in SurfaceIds, NEW b \in BufferIds, MayCommit(s, b)
  PROVE  \E recs, flush, emitted :
           Readied(recs, flush, emitted, OnCommit(m, s, b), Awaiting(s, b), s, b)
  <1> DEFINE prev == m.surfaces[s]
             q == Adopted(m, s, b)
             emitted == IF Known(m, b) THEN {} ELSE {Intent("importBuffer", b, "none")}
             flush == {p \in BufferIds : p = prev /\ p # b /\ Known(m, p)}
             recs == [c \in BufferIds |->
                        IF c = b THEN q
                        ELSE IF c \in flush THEN SupersededRec(m.buffers[c], s)
                        ELSE m.buffers[c]]
             surf == [m.surfaces EXCEPT ![s] = b]
             j == Stepped(m, recs, flush, emitted)
             n == OnCommit(m, s, b)
             y == Awaiting(s, b)
  <1>1. /\ Paid(m.buffers, m.surfaces, x, held, gone) /\ Fitting(m.buffers, x, gone)
        /\ m \in Machines /\ m.surfaces \in [SurfaceIds -> BufferIds \cup {NoBuffer}]
    BY IInvFacts DEF Core
  <1>2. /\ y \in Executors /\ Owned(y)
        /\ y.imports = x.imports /\ y.queue = x.queue /\ y.freed = x.freed
        /\ y.texture = x.texture /\ y.live = x.live
        /\ \A c \in BufferIds : c # b => y.pending[c] = x.pending[c]
        /\ y.pending[b] = {} \/ x.pending[b] # {} \/ x.imports[b] = NoImport
    BY AwaitingFacts
  <1> HIDE DEF y
  <1>3. /\ q \in BufferRec /\ Sane(q) /\ q.state # "Absent"
        /\ q.releaseOwed => m.surfaces[s] = b /\ m.buffers[b].releaseOwed
        /\ Known(m, b) => Fits(q, b, y, gone) /\ Served(q, b, y)
        /\ ~Known(m, b) => /\ q = NewRec("Importing", s)
                           /\ y.imports[b] = NoImport /\ ~InQueue(y, b)
    <2>1. Waits(y, b)
      BY <1>2 DEF Waits
    <2> HIDE DEF recs, emitted, flush, surf, j, n
    <2>2. Fresh(q, s, b, y)
      BY <2>1, AdoptedFacts
    <2> QED BY <2>2 DEF Fresh
  <1>4. n = [j EXCEPT !.surfaces = [@ EXCEPT ![s] = b]]
    <2> DEFINE imported == IF Known(m, b) THEN m.buffers[b] ELSE NewRec("Importing", s)
               adopted == [imported EXCEPT !.currentSurfaceId = s, !.releaseOwed = FALSE,
                                           !.importOwed = FALSE]
               rs == [c \in BufferIds |->
                        IF c = b THEN IF prev = b THEN imported ELSE adopted
                        ELSE IF c \in flush THEN SupersededRec(m.buffers[c], s)
                        ELSE m.buffers[c]]
    <2>1. q = IF prev = b THEN imported ELSE adopted
      BY DEF Adopted
    <2>2. rs = recs
      BY <2>1
    <2>3. n = [Stepped(m, rs, flush, emitted) EXCEPT !.surfaces[s] = b]
      BY DEF OnCommit
    <2> QED BY <2>2, <2>3
  <1> HIDE DEF q
  <1>5. ASSUME NEW c \in BufferIds
        PROVE  /\ recs[c] \in BufferRec /\ Sane(recs[c])
               /\ c # b \/ Known(m, b) =>
                    Fits(recs[c], c, y, gone) /\ Served(recs[c], c, y)
               /\ recs[c].releaseOwed =>
                    (c # b /\ prev = c) \/ m.buffers[c].releaseOwed
    <2> DEFINE r == m.buffers[c]
               p == SupersededRec(r, s)
    <2>1. r \in BufferRec /\ Fits(r, c, x, gone) /\ Served(r, c, x)
      BY <1>1, IInvFacts DEF Fitting
    <2>2. CASE c = b
      <3>1. recs[c] = q
        BY <2>2
      <3> QED BY <1>3, <2>2, <3>1
    <2>3. c # b => (Fits(r, c, y, gone) /\ Served(r, c, y) /\ Sane(r))
      <3>1. InQueue(y, c) <=> InQueue(x, c)
        BY <1>2 DEF InQueue
      <3> HIDE DEF r
      <3> QED BY <1>2, <2>1, <3>1 DEF Fits, Served
    <2>4. CASE c # b /\ c \notin flush
      <3>1. recs[c] = r
        BY <2>4
      <3> HIDE DEF recs, r
      <3> QED BY <2>1, <2>3, <2>4, <3>1 DEF r
    <2>5. CASE c # b /\ c \in flush
      <3>1. recs[c] = p /\ prev = c /\ r.state # "Absent"
        BY <2>5 DEF Known
      <3> HIDE DEF recs, r, prev
      <3>2. /\ p \in BufferRec /\ p.importOwed = r.importOwed
            /\ p.state = r.state /\ p.destroyed = r.destroyed
            /\ p.releaseOwed = (r.releaseOwed \/ ~r.destroyed)
            /\ p.currentSurfaceId = IF r.currentSurfaceId = s THEN NoSurface
                                    ELSE r.currentSurfaceId
        BY <2>1 DEF SupersededRec, BufferRec
      <3> HIDE DEF p
      <3>3. Sane(p)
        BY <2>3, <2>5, <3>1, <3>2 DEF Sane
      <3>4. Fits(p, c, y, gone) /\ Served(p, c, y)
        BY <2>3, <2>5, <3>2, <3>3 DEF Fits, Served
      <3> QED BY <2>5, <3>1, <3>2, <3>3, <3>4
    <2> QED BY <2>2, <2>4, <2>5
  <1>6. recs \in [BufferIds -> BufferRec] /\ recs[b] = q
    <2>1. recs = [c \in BufferIds |-> recs[c]]
      OBVIOUS
    <2> QED BY <1>5, <2>1
  <1>7. surf \in [SurfaceIds -> BufferIds \cup {NoBuffer}]
    BY <1>1
  <1>8. /\ flush \in SUBSET BufferIds /\ b \notin flush
        /\ emitted \in SUBSET Intents /\ Silent(emitted)
    BY DEF Silent, Intent, Intents, IntentKinds, Fences
  <1> HIDE DEF recs, flush, emitted
  <1>9. AllSane(recs)
    BY <1>5 DEF AllSane
  <1>10. Counted(s, b) \in [BufferIds -> Nat] /\ Paid(recs, surf, y, Counted(s, b), gone)
    <2> DEFINE hd == Counted(s, b)
    <2>1. ASSUME NEW c \in BufferIds
          PROVE  /\ held[c] \in Nat /\ hd[c] \in Nat
                 /\ hd[c] = IF c = b /\ prev # b THEN held[c] + 1 ELSE held[c]
      BY IInvFacts DEF Counted
    <2>2. hd \in [BufferIds -> Nat]
      <3>1. hd = [c \in BufferIds |-> hd[c]]
        BY IInvFacts DEF Counted
      <3> HIDE DEF hd
      <3> QED BY <2>1, <3>1
    <2>3. ASSUME NEW c \in BufferIds \ gone
          PROVE  y.freed[c] + Owed(recs[c]) + Shows(surf, c) <= hd[c]
      <3>1. /\ c = b /\ c # prev => Shows(surf, c) = Shows(m.surfaces, c) + 1
            /\ c # b /\ c = prev => Shows(surf, c) + 1 = Shows(m.surfaces, c)
            /\ (c = b <=> c = prev) => Shows(surf, c) = Shows(m.surfaces, c)
        BY <1>1, ShowsMoves
      <3>2. Shows(surf, c) \in Nat /\ Shows(m.surfaces, c) \in Nat
        BY ShowsNat
      <3>3. /\ x.freed[c] \in Nat /\ y.freed[c] = x.freed[c]
            /\ x.freed[c] + Owed(m.buffers[c]) + Shows(m.surfaces, c) <= held[c]
        BY <1>1, <1>2, IInvFacts DEF Paid, Executors
      <3>4. /\ Owed(recs[c]) \in {0, 1} /\ Owed(m.buffers[c]) \in {0, 1}
            /\ ~(c # b /\ prev = c) => Owed(recs[c]) <= Owed(m.buffers[c])
        BY <1>5 DEF Owed
      <3> HIDE DEF prev, surf, hd
      <3> QED BY <2>1, <3>1, <3>2, <3>3, <3>4
    <2> QED BY <2>2, <2>3 DEF Paid
  <1> HIDE DEF surf
  <1>11. /\ j \in Machines /\ j.buffers = FlushedBuffers(recs, flush)
         /\ j.out = emitted \cup FlushedOut(recs, flush) /\ j.surfaces = m.surfaces
    BY <1>1, <1>6, <1>8, <1>9, SteppedFields
  <1> HIDE DEF j, n
  <1>12. /\ n \in Machines /\ n.buffers = FlushedBuffers(recs, flush)
         /\ n.out = emitted \cup FlushedOut(recs, flush) /\ n.surfaces = surf
    <2>1. n = [j EXCEPT !.surfaces = surf]
      BY <1>4, <1>11 DEF surf
    <2> QED BY <1>7, <1>11, <2>1 DEF Machines
  <1>13. b \notin gone
    BY DEF MayCommit
  <1>14. Readied(recs, flush, emitted, n, y, s, b)
    BY <1>2, <1>3, <1>5, <1>6, <1>8, <1>9, <1>10, <1>12, <1>13 DEF Readied
  <1> QED BY <1>14 DEF n, y

(* Its dispatch. *)
LEMMA ReadiedLanded ==
  ASSUME NEW recs, NEW flush, NEW emitted, NEW n, NEW y, NEW s, NEW b \in BufferIds,
         Readied(recs, flush, emitted, n, y, s, b)
  PROVE  Landed(recs, flush, n.buffers, y, Dispatched(y, n.out), gone)
  <1> DEFINE out == n.out
             k == n.buffers
             z == Dispatched(y, out)
  <1>1. Flushable(recs, flush, y, gone)
    BY DEF Readied, Flushable, AllSane
  <1>2. /\ out = emitted \cup FlushedOut(recs, flush)
        /\ k = FlushedBuffers(recs, flush) /\ z = Dispatched(y, out)
        /\ recs \in [BufferIds -> BufferRec] /\ flush \in SUBSET BufferIds
        /\ Silent(emitted) /\ y \in Executors /\ Owned(y)
    BY DEF Readied
  <1> HIDE DEF out, k, z
  <1>3. Landed(recs, flush, k, y, z, gone)
    BY <1>1, <1>2, DispatchFits
  <1> QED BY <1>3 DEF out, k, z

(* acquireFenceAvailable for a commit without a fence. *)
LEMMA FenceLike ==
  ASSUME NEW k \in Machines, AllSane(k.buffers), NEW b \in BufferIds
  PROVE  Like(k, OnAcquireFenceAvailable(k, b, "none"))
  <1> DEFINE n == OnAcquireFenceAvailable(k, b, "none")
             r == k.buffers[b]
             q == [r EXCEPT !.pendingAcquireFence = "implicit"]
             recs == [k.buffers EXCEPT ![b] = q]
             drop == DiscardIntents(b, r)
             none == {}
  <1>1. k.buffers \in [BufferIds -> BufferRec] /\ r \in BufferRec
    BY DEF Machines
  <1>2. CASE ~Known(k, b)
    <2>1. n = [k EXCEPT !.out = {}]
      BY <1>2 DEF OnAcquireFenceAvailable, Ignored
    <2> HIDE DEF n
    <2>2. n \in Machines /\ n.surfaces = k.surfaces /\ n.buffers = k.buffers
      BY <2>1 DEF Machines
    <2> QED BY <2>2 DEF Like, AllAlike, Alike, n
  <1>3. CASE Known(k, b)
    <2>1. n = Stepped(k, recs, none, drop)
      BY <1>3 DEF OnAcquireFenceAvailable
    <2>2. q \in BufferRec /\ Alike(r, q)
      <3>1. r.state # "Absent"
        BY <1>3 DEF Known
      <3> HIDE DEF r
      <3> QED BY <1>1, <3>1 DEF BufferRec, Fences, Alike
    <2> HIDE DEF q
    <2>3. ASSUME NEW c \in BufferIds
          PROVE  recs[c] \in BufferRec /\ Alike(k.buffers[c], recs[c])
      <3>1. recs[c] = IF c = b THEN q ELSE k.buffers[c]
        BY <1>1
      <3>2. Alike(k.buffers[c], k.buffers[c])
        BY DEF Alike
      <3> QED BY <1>1, <2>2, <3>1, <3>2
    <2>4. recs \in [BufferIds -> BufferRec] /\ AllAlike(k.buffers, recs)
      <3>1. recs \in [BufferIds -> BufferRec]
        BY <1>1, <2>2
      <3> HIDE DEF recs
      <3> QED BY <2>3, <3>1 DEF AllAlike
    <2>5. AllSane(recs)
      BY <2>4, AlikeFits DEF AllSane, AllAlike
    <2>6. drop \in SUBSET Intents /\ none \in SUBSET BufferIds
      BY DEF DiscardIntents, Intent, Intents, IntentKinds, Fences
    <2>7. FlushedBuffers(recs, none) = recs
      BY <2>4, QuietFlush
    <2> HIDE DEF recs, drop, none, n, r
    <2>8. n \in Machines /\ n.buffers = recs /\ n.surfaces = k.surfaces
      BY <2>1, <2>4, <2>5, <2>6, <2>7, SteppedFields
    <2> QED BY <2>4, <2>8 DEF Like, n
  <1> QED BY <1>2, <1>3

(* The end of every commit: bind the import if there is one. *)
LEMMA CommittedIInv ==
  ASSUME IInv, NEW s \in SurfaceIds, NEW b \in BufferIds,
         NEW n \in Machines, NEW y \in Executors, Counted(s, b) \in [BufferIds -> Nat],
         Core(n, y, Counted(s, b), gone), Committed(s, b, n, y)
  PROVE  IInv'
  <1> DEFINE i == y.imports[b]
             S == {s}
             bufs == n.buffers
             hd == Counted(s, b)
             z == [Bound(y, S, b, i) EXCEPT !.pending[b] = {}]
  <1>1. /\ m' = OnAcquireFenceAvailable(n, b, "none")
        /\ x' = IF i # NoImport THEN z ELSE y
        /\ held' = hd /\ UNCHANGED <<reads, gone, alive>>
    BY DEF Committed, Counted
  <1>2. /\ Owned(y) /\ Paid(bufs, n.surfaces, y, hd, gone) /\ Fitting(bufs, y, gone)
        /\ AllSane(bufs)
    BY DEF Core, Fitting, Fits, AllSane
  <1>3. x' \in Executors /\ Core(n, x', hd, gone)
    <2>1. CASE i = NoImport
      <3>1. x' = y
        BY <1>1, <2>1
      <3> QED BY <3>1
    <2>2. CASE i # NoImport
      <3>1. i \in ImportIds /\ S \in SUBSET SurfaceIds
        BY <2>2 DEF Executors
      <3>2. \A l \in 1..Len(y.queue) : y.queue[l].imp # i
        BY <1>2, <2>2 DEF Owned, Owners, Lined
      <3>3. /\ \A c \in BufferIds : Fits(bufs[c], c, y, gone)
            /\ \A c \in BufferIds : c # b => Served(bufs[c], c, y)
        BY <1>2 DEF Fitting
      <3> HIDE DEF i, S, bufs
      <3>4. z \in Executors /\ Owned(z) /\ Fitting(bufs, z, gone) /\ z.freed = y.freed
        <4>1. z = [Bound(y, S, b, i) EXCEPT !.pending[b] = {}]
          OBVIOUS
        <4>2. Owned(y)
          BY <1>2
        <4> HIDE DEF z
        <4>3. z \in Executors /\ Owned(z)
          BY <3>1, <3>2, <3>3, <4>1, <4>2, BoundCleared
        <4>4. Fitting(bufs, z, gone)
          BY <3>1, <3>2, <3>3, <4>1, <4>2, BoundCleared
        <4>5. z.freed = y.freed
          <5> DEFINE w == Bound(y, S, b, i)
          <5>1. w \in Executors /\ w.freed = y.freed
            BY <3>1, <3>2, <4>2, BoundOwned
          <5>2. z = [w EXCEPT !.pending[b] = {}]
            BY <4>1
          <5> HIDE DEF w
          <5> QED BY <5>1, <5>2 DEF Executors
        <4> QED BY <4>3, <4>4, <4>5
      <3>5. x' = z
        BY <1>1, <2>2
      <3> HIDE DEF z, hd
      <3>6. Paid(bufs, n.surfaces, z, hd, gone)
        BY <1>2, <3>4, SamePaid
      <3> QED BY <3>4, <3>5, <3>6 DEF Core, bufs
    <2> QED BY <2>1, <2>2
  <1>4. Like(n, m')
    BY <1>1, <1>2, FenceLike
  <1>5. m' \in Machines /\ Core(m', x', hd, gone)
    BY <1>3, <1>4, LikeCore DEF Like
  <1> QED BY <1>1, <1>3, <1>5, IInvFacts DEF IInv, TypeOK

(* A commit of a buffer the machine knows. *)
LEMMA CommitKnownIInv ==
  ASSUME IInv, NEW s \in SurfaceIds, NEW b \in BufferIds, CommitKnown(s, b)
  PROVE  IInv'
  <1> DEFINE n == OnCommit(m, s, b)
             y == Awaiting(s, b)
             z == Dispatched(y, n.out)
  <1>1. MayCommit(s, b) /\ Known(m, b) /\ Committed(s, b, n, z)
    BY DEF CommitKnown
  <1>2. PICK recs, flush, emitted : Readied(recs, flush, emitted, n, y, s, b)
    BY <1>1, CommitFacts
  <1> HIDE DEF n, y
  <1>3. Landed(recs, flush, n.buffers, y, z, gone)
    BY <1>2, ReadiedLanded
  <1>4. \A c \in BufferIds : Fits(recs[c], c, y, gone) /\ Served(recs[c], c, y)
    BY <1>1, <1>2 DEF Readied
  <1> HIDE DEF z
  <1>5. /\ Paid(n.buffers, n.surfaces, z, Counted(s, b), gone)
        /\ n \in Machines /\ Counted(s, b) \in [BufferIds -> Nat]
    BY <1>2, <1>3, LandedPaid DEF Readied
  <1>6. Core(n, z, Counted(s, b), gone) /\ z \in Executors
    BY <1>3, <1>4, <1>5 DEF Core, Fitting, Landed
  <1> QED BY <1>1, <1>5, <1>6, CommittedIInv

(* A buffer joins the import queue. *)
LEMMA Enqueued ==
  ASSUME NEW y \in Executors, Lined(y), NEW b \in BufferIds, NEW i \in ImportIds,
         ~InQueue(y, b), i \notin y.live,
         \A l \in 1..Len(y.queue) : y.queue[l].imp # i,
         \A s \in SurfaceIds : y.texture[s].imp # i
  PROVE  LET z == [y EXCEPT !.queue = Append(@, [buf |-> b, imp |-> i])] IN
         /\ z \in Executors /\ Lined(z)
         /\ z.pending = y.pending /\ z.imports = y.imports /\ z.zombies = y.zombies
         /\ z.texture = y.texture /\ z.freed = y.freed /\ z.live = y.live
         /\ \A c \in BufferIds : InQueue(z, c) <=> c = b \/ InQueue(y, c)
  <1> DEFINE a == y.queue
             E == [buf: BufferIds, imp: ImportIds]
             e == [buf |-> b, imp |-> i]
             q == Append(a, e)
             z == [y EXCEPT !.queue = Append(@, e)]
             N == Len(a)
  <1>1. a \in Seq(E) /\ e \in E /\ e.buf = b /\ e.imp = i
    BY DEF Executors
  <1> HIDE DEF a, E, e
  <1>2. /\ q \in Seq(E) /\ Len(q) = N + 1 /\ N \in Nat /\ q[N + 1] = e
        /\ \A l \in 1..N : q[l] = a[l]
    BY <1>1
  <1> HIDE DEF N
  <1>3. /\ \A l \in 1..Len(q) : l \in 1..N \/ l = N + 1
        /\ \A l \in 1..N : l \in 1..Len(q)
        /\ N + 1 \in 1..Len(q)
    BY <1>2
  <1>4. /\ z \in Executors /\ z.queue = q
        /\ z.pending = y.pending /\ z.imports = y.imports /\ z.zombies = y.zombies
        /\ z.texture = y.texture /\ z.freed = y.freed /\ z.live = y.live
    <2>1. z = [y EXCEPT !.queue = q]
      BY DEF a
    <2> HIDE DEF z, q
    <2> QED BY <1>2, <2>1 DEF Executors, E
  <1> HIDE DEF z, q
  <1>5. /\ \A l \in 1..N : /\ a[l].imp \notin y.live /\ a[l].imp # i /\ a[l].buf # b
                           /\ \A s \in SurfaceIds : y.texture[s].imp # a[l].imp
        /\ \A l, k \in 1..N : a[l].imp = a[k].imp \/ a[l].buf = a[k].buf => l = k
    BY DEF Lined, InQueue, a, N
  <1>6. Lined(z)
    BY <1>1, <1>2, <1>3, <1>4, <1>5 DEF Lined
  <1>7. \A c \in BufferIds : InQueue(z, c) <=> c = b \/ InQueue(y, c)
    <2>1. \A c \in BufferIds : InQueue(y, c) <=> \E l \in 1..N : a[l].buf = c
      BY DEF InQueue, a, N
    <2> QED BY <1>1, <1>2, <1>3, <1>4, <2>1 DEF InQueue
  <1> QED BY <1>4, <1>6, <1>7 DEF z, e

(* A first commit of a buffer, whose import starts. *)
LEMMA CommitImportsIInv ==
  ASSUME IInv, NEW s \in SurfaceIds, NEW b \in BufferIds, NEW i \in ImportIds,
         CommitImports(s, b, i)
  PROVE  IInv'
  <1> DEFINE n == OnCommit(m, s, b)
             y == Awaiting(s, b)
             w == Dispatched(y, n.out)
             z == [w EXCEPT !.queue = Append(@, [buf |-> b, imp |-> i])]
  <1>1. MayCommit(s, b) /\ ~Known(m, b) /\ i \in FreshImports /\ Committed(s, b, n, z)
    BY DEF CommitImports
  <1>2. PICK recs, flush, emitted : Readied(recs, flush, emitted, n, y, s, b)
    BY <1>1, CommitFacts
  <1> HIDE DEF n, y
  <1>3. Landed(recs, flush, n.buffers, y, w, gone)
    BY <1>2, ReadiedLanded
  <1> HIDE DEF w
  <1>4. /\ i \notin x.live /\ \A l \in 1..Len(x.queue) : x.queue[l].imp # i
        /\ \A t \in SurfaceIds : x.texture[t].imp # i
    BY <1>1 DEF FreshImports
  <1>5. /\ w \in Executors /\ Owned(w) /\ w.queue = y.queue /\ w.texture = x.texture
        /\ w.queue = x.queue /\ w.live \subseteq x.live
    BY <1>2, <1>3 DEF Readied, Landed
  <1>6. /\ n.buffers[b] = NewRec("Importing", s) /\ w.imports[b] = NoImport
        /\ b \notin gone /\ ~InQueue(y, b)
    BY <1>1, <1>2, <1>3 DEF Readied, Landed
  <1>7. ~InQueue(w, b)
    BY <1>5, <1>6 DEF InQueue
  <1>8. /\ z \in Executors /\ Lined(z)
        /\ z.pending = w.pending /\ z.imports = w.imports /\ z.zombies = w.zombies
        /\ z.texture = w.texture /\ z.freed = w.freed /\ z.live = w.live
        /\ \A c \in BufferIds : InQueue(z, c) <=> c = b \/ InQueue(w, c)
    <2>1. /\ i \notin w.live /\ \A l \in 1..Len(w.queue) : w.queue[l].imp # i
          /\ \A t \in SurfaceIds : w.texture[t].imp # i
      BY <1>4, <1>5
    <2>2. Lined(w)
      BY <1>5 DEF Owned
    <2> QED BY <1>5, <1>7, <2>1, <2>2, Enqueued
  <1> HIDE DEF z
  <1>9. Owned(z)
    BY <1>5, <1>8 DEF Owned, Owners, Parked, Displayed
  <1>10. ASSUME NEW c \in BufferIds
         PROVE  Fits(n.buffers[c], c, z, gone) /\ Served(n.buffers[c], c, z)
    <2>1. CASE c = b
      <3> DEFINE q == NewRec("Importing", s)
      <3>1. q.state = "Importing" /\ Sane(q) /\ q.destroyed = FALSE
        BY DEF NewRec, Sane
      <3> HIDE DEF q
      <3> QED BY <1>6, <1>8, <2>1, <3>1 DEF Fits, Served, q
    <2>2. CASE c # b
      <3>1. Fits(recs[c], c, y, gone) /\ Served(recs[c], c, y)
        BY <1>2, <2>2 DEF Readied
      <3>2. Fits(n.buffers[c], c, w, gone) /\ Served(n.buffers[c], c, w)
        BY <1>3, <3>1 DEF Landed
      <3> QED BY <1>8, <2>2, <3>2 DEF Fits, Served
    <2> QED BY <2>1, <2>2
  <1>11. /\ Paid(n.buffers, n.surfaces, z, Counted(s, b), gone)
         /\ n \in Machines /\ Counted(s, b) \in [BufferIds -> Nat]
    <2>1. Paid(n.buffers, n.surfaces, w, Counted(s, b), gone)
      BY <1>2, <1>3, LandedPaid DEF Readied
    <2> QED BY <1>2, <1>8, <2>1, SamePaid DEF Readied
  <1>12. Core(n, z, Counted(s, b), gone)
    BY <1>9, <1>10, <1>11 DEF Core, Fitting
  <1> QED BY <1>1, <1>8, <1>11, <1>12, CommittedIInv

(* A first commit of a buffer that the addon refuses: the machine steps    *)
(* twice, and the second step poisons the entry the first one made.        *)
LEMMA CommitRefusedIInv ==
  ASSUME IInv, NEW s \in SurfaceIds, NEW b \in BufferIds, CommitRefused(s, b)
  PROVE  IInv'
  <1> DEFINE n == OnCommit(m, s, b)
             y == Awaiting(s, b)
             w == Dispatched(y, n.out)
             v == [w EXCEPT !.pending[b] = {}]
             n2 == OnAccessFailed(n, b)
             z == Dispatched(v, n2.out)
  <1>1. MayCommit(s, b) /\ ~Known(m, b) /\ Committed(s, b, n2, z)
    BY DEF CommitRefused
  <1>2. PICK recs, flush, emitted : Readied(recs, flush, emitted, n, y, s, b)
    BY <1>1, CommitFacts
  <1> HIDE DEF n, y
  <1>3. Landed(recs, flush, n.buffers, y, w, gone)
    BY <1>2, ReadiedLanded
  <1> HIDE DEF w
  <1>4. /\ w \in Executors /\ Owned(w) /\ w.queue = y.queue
        /\ n.buffers \in [BufferIds -> BufferRec] /\ n \in Machines
    BY <1>2, <1>3 DEF Readied, Landed
  <1>5. /\ n.buffers[b] = NewRec("Importing", s) /\ w.imports[b] = NoImport
        /\ b \notin gone /\ ~InQueue(y, b)
    BY <1>1, <1>2, <1>3 DEF Readied, Landed
  <1>6. ~InQueue(w, b)
    BY <1>4, <1>5 DEF InQueue
  <1>7. /\ v \in Executors /\ Owned(v)
        /\ v.imports = w.imports /\ v.queue = w.queue /\ v.freed = w.freed
        /\ v.pending[b] = {}
        /\ \A c \in BufferIds : c # b => v.pending[c] = w.pending[c]
    BY <1>4, ClearedFields
  <1> HIDE DEF v
  <1> DEFINE r == NewRec("Importing", s)
             q == [r EXCEPT !.state = "Poisoned"]
             rs == [n.buffers EXCEPT ![b] = q]
             poisoned == {b}
             none == {}
  <1>8. /\ r.state = "Importing" /\ r.currentSurfaceId = s
        /\ q \in BufferRec /\ Sane(q) /\ q.state = "Poisoned" /\ q.destroyed = FALSE
        /\ q.releaseOwed = FALSE /\ r.releaseOwed = FALSE
    BY DEF NewRec, BufferRec, Fences, Sane
  <1>9. n2 = Stepped(n, rs, poisoned, none)
    <2>1. Known(n, b)
      BY <1>5, <1>8 DEF Known
    <2>2. [n.buffers EXCEPT ![b].state = "Poisoned"] = rs
      BY <1>4, <1>5
    <2> QED BY <2>1, <2>2 DEF OnAccessFailed
  <1> HIDE DEF r, q
  <1>10. rs \in [BufferIds -> BufferRec]
         /\ \A c \in BufferIds : rs[c] = IF c = b THEN q ELSE n.buffers[c]
    BY <1>4, <1>8
  <1> HIDE DEF rs
  <1>11. ASSUME NEW c \in BufferIds
         PROVE  Fits(rs[c], c, v, gone) /\ Served(rs[c], c, v)
    <2>1. InQueue(v, c) <=> InQueue(w, c)
      BY <1>7 DEF InQueue
    <2>2. CASE c = b
      BY <1>5, <1>6, <1>7, <1>8, <1>10, <2>1, <2>2 DEF Fits, Served
    <2>3. CASE c # b
      <3>1. Fits(recs[c], c, y, gone) /\ Served(recs[c], c, y)
        BY <1>2, <2>3 DEF Readied
      <3>2. Fits(n.buffers[c], c, w, gone) /\ Served(n.buffers[c], c, w)
        BY <1>3, <3>1 DEF Landed
      <3>3. rs[c] = n.buffers[c]
        BY <1>10, <2>3
      <3> QED BY <1>7, <2>1, <2>3, <3>2, <3>3 DEF Fits, Served
    <2> QED BY <2>2, <2>3
  <1>12. Fitting(rs, v, gone) /\ AllSane(rs)
    BY <1>11 DEF Fitting, AllSane, Fits
  <1>13. /\ Paid(rs, n.surfaces, v, Counted(s, b), gone)
         /\ Counted(s, b) \in [BufferIds -> Nat]
    <2>1. Paid(n.buffers, n.surfaces, w, Counted(s, b), gone)
      BY <1>2, <1>3, LandedPaid DEF Readied
    <2>2. \A c \in BufferIds : rs[c].releaseOwed = n.buffers[c].releaseOwed
      BY <1>5, <1>8, <1>10 DEF r
    <2> QED BY <1>2, <1>7, <2>1, <2>2, SamePaid DEF Readied
  <1>14. none \in SUBSET Intents /\ Silent(none) /\ poisoned \in SUBSET BufferIds
    BY DEF Silent
  <1> HIDE DEF none, poisoned, n2
  <1>15. /\ n2 \in Machines /\ n2.buffers = FlushedBuffers(rs, poisoned)
         /\ n2.out = none \cup FlushedOut(rs, poisoned) /\ n2.surfaces = n.surfaces
    <2>1. AllSane(rs) /\ n \in Machines /\ rs \in [BufferIds -> BufferRec]
      BY <1>4, <1>10, <1>12
    <2>2. n2 \in Machines
      BY <1>9, <1>14, <2>1, SteppedFields
    <2>3. n2.buffers = FlushedBuffers(rs, poisoned) /\ n2.out = none \cup FlushedOut(rs, poisoned)
      BY <1>9, <1>14, <2>1, SteppedFields
    <2>4. n2.surfaces = n.surfaces
      BY <1>9, <1>14, <2>1, SteppedFields
    <2> QED BY <2>2, <2>3, <2>4
  <1>16. z \in Executors /\ Core(n2, z, Counted(s, b), gone)
    <2>1. Paid(rs, n2.surfaces, v, Counted(s, b), gone)
      BY <1>13, <1>15
    <2> QED BY <1>7, <1>10, <1>12, <1>13, <1>14, <1>15, <2>1, TurnCore
  <1> HIDE DEF z
  <1> QED BY <1>1, <1>13, <1>15, <1>16, CommittedIInv

-----------------------------------------------------------------------------
(* The theorems.                                                           *)

LEMMA NextIInv ==
  ASSUME IInv, [Next]_vars
  PROVE  IInv'
  <1>1. CASE UNCHANGED vars
    BY <1>1 DEF vars, IInv, TypeOK
  <1>2. ASSUME NEW s \in SurfaceIds, NEW b \in BufferIds,
               \/ CommitKnown(s, b) \/ CommitRefused(s, b)
               \/ \E i \in ImportIds : CommitImports(s, b, i)
        PROVE  IInv'
    BY <1>2, CommitKnownIInv, CommitRefusedIInv, CommitImportsIInv
  <1>3. CASE ImportSucceeds \/ ImportFails
    BY <1>3, ImportSucceedsIInv, ImportFailsIInv
  <1>4. ASSUME NEW D \in SUBSET SurfaceIds,
               RenderThrows(D) \/ \E sr \in Serials : RenderFrame(sr, D)
        PROVE  IInv'
    BY <1>4, RenderThrowsIInv, RenderFrameIInv
  <1>5. ASSUME NEW sr \in Serials, GpuCompleted(sr)
        PROVE  IInv'
    BY <1>5, GpuCompletedIInv
  <1>6. CASE SendReleases
    BY <1>6, SendReleasesIInv
  <1>7. ASSUME NEW b \in BufferIds, DestroyBuffer(b) \/ NewBuffer(b)
        PROVE  IInv'
    BY <1>7, DestroyBufferIInv, NewBufferIInv
  <1>8. ASSUME NEW s \in SurfaceIds, RemoveSurface(s) \/ NewSurface(s)
        PROVE  IInv'
    BY <1>8, RemoveSurfaceIInv, NewSurfaceIInv
  <1> QED BY <1>1, <1>2, <1>3, <1>4, <1>5, <1>6, <1>7, <1>8 DEF Next

(* The inductive invariant holds: after every turn of compositor.ts the    *)
(* machine's entries, the import maps, the queue of imports and the        *)
(* client's loans agree, whatever the turn's intents were.                 *)
THEOREM Invariance == Spec => []IInv
  BY InitIInv, NextIInv, PTL DEF Spec

(* The maps, the queue and the client's bookkeeping are well-typed; in     *)
(* particular dispatchFrameCallbacks never sends more releases than there  *)
(* are commits to answer.                                                  *)
THEOREM TypeCorrect == Spec => []TypeOK
  <1>1. IInv => TypeOK
    BY DEF IInv
  <1> QED BY <1>1, Invariance, PTL

(* Every cached or parked import is one the GPU process still holds, is    *)
(* owned by one entry, and a parked one is displayed: runReleaseImport and *)
(* drainZombieImports neither miss a texture nor free another buffer's.    *)
THEOREM ImportsAreOwned == Spec => []OwnedImportsLive
  <1>1. ASSUME IInv
        PROVE  OwnedImportsLive
    BY <1>1, IInvFacts DEF Core, Owned, Owners, Parked, OwnedImportsLive
  <1> QED BY <1>1, Invariance, PTL

(* The state machine and compositor.ts's maps agree on every buffer: what  *)
(* is imported, what is being imported, and who waits for it.              *)
THEOREM MachineIsMirrored == Spec => []MachineMirrored
  <1>1. ASSUME IInv
        PROVE  MachineMirrored
    <2>1. ASSUME NEW b \in BufferIds
          PROVE  /\ m.buffers[b].state = "Imported" <=> x.imports[b] # NoImport
                 /\ m.buffers[b].state = "Importing" <=> Queued(b)
                 /\ x.pending[b] # {} => m.buffers[b].state \in {"Importing", "Poisoned"}
      BY <1>1, IInvFacts DEF Core, Fitting, Fits, Served, InQueue, Queued
    <2>2. \A b \in BufferIds : \A j, k \in 1..Len(x.queue) :
            x.queue[j].buf = b /\ x.queue[k].buf = b => j = k
      BY <1>1, IInvFacts DEF Core, Owned, Lined
    <2> QED BY <2>1, <2>2 DEF MachineMirrored
  <1> QED BY <1>1, Invariance, PTL

(* No commit is answered by two releases, and none while its surface still *)
(* has the buffer: what dispatchFrameCallbacks is about to send, what the  *)
(* machine owes and the surfaces that have the buffer are covered by the   *)
(* commits not answered yet.                                               *)
THEOREM ReleasesAreSingle == Spec => []ReleasedOnce
  <1>1. ASSUME IInv
        PROVE  ReleasedOnce
    <2>1. \A b \in BufferIds : Cardinality(ShownOn(m, b)) = Shows(m.surfaces, b)
      BY DEF ShownOn, Shows
    <2>2. Paid(m.buffers, m.surfaces, x, held, gone)
      BY <1>1, IInvFacts DEF Core
    <2> QED BY <2>1, <2>2 DEF Paid, ReleasedOnce
  <1> QED BY <1>1, Invariance, PTL
=============================================================================
