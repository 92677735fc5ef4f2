------------------------- MODULE MCSurfaceCommit -------------------------
(* SurfaceCommit for TLC: a toplevel, a subsurface and a nested one.       *)
EXTENDS SurfaceCommit, TLC

CONSTANTS top, child, nested, d1, d2, m1

ParentOf == (child :> top) @@ (nested :> child)

Pools == (top :> {m1, Null}) @@ (child :> {d1, d2}) @@ (nested :> {})

Symmetry == Permutations(Dmabufs)
==========================================================================
