--------------------------- MODULE BufferLending ---------------------------
(***************************************************************************)
(* What the client-buffer lifecycle promises a client, with none of its    *)
(* bookkeeping: a commit lends a buffer to the compositor; the compositor  *)
(* reads lent buffers (GPU samples, scanout); and every loan ends exactly  *)
(* once, by a return (wl_buffer.release) or by the client destroying the   *)
(* buffer.  A buffer is never returned while it is being read.             *)
(*   lent      buffers the client may not write                            *)
(*   reading   buffers some frame, GPU job or plane still reads            *)
(*   returned  the buffers handed back by the last step                    *)
(***************************************************************************)
CONSTANT BufferIds

VARIABLES lent, reading, returned

vars == <<lent, reading, returned>>

Init == lent = {} /\ reading = {} /\ returned = {}

(* A commit lends b; what it supersedes may come back at once. *)
Lend(b) ==
  \E R \in SUBSET (lent \ (reading \cup {b})) :
    /\ lent' = (lent \ R) \cup {b}
    /\ returned' = R
    /\ UNCHANGED reading

(* A read starts only on a lent buffer, or on one already being read. *)
StartRead(b) ==
  /\ b \in lent \cup reading
  /\ reading' = reading \cup {b}
  /\ returned' = {}
  /\ UNCHANGED lent

(* Reads end, or a loan falls due: what is due and unread comes back. *)
EndReads ==
  \E E \in SUBSET reading : \E R \in SUBSET (lent \ (reading \ E)) :
    /\ reading' = reading \ E
    /\ lent' = lent \ R
    /\ returned' = R

(* A destroyed buffer is never returned. *)
Forget(b) ==
  /\ lent' = lent \ {b}
  /\ returned' = {}
  /\ UNCHANGED reading

Next ==
  \/ \E b \in BufferIds : Lend(b) \/ StartRead(b) \/ Forget(b)
  \/ EndReads

Spec == Init /\ [][Next]_vars
=============================================================================
