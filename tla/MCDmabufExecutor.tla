-------------------------- MODULE MCDmabufExecutor --------------------------
(* DmabufExecutor for TLC: every id is an interchangeable model value.     *)
EXTENDS DmabufExecutor, TLC

Symmetry == Permutations(BufferIds) \cup Permutations(SurfaceIds)
              \cup Permutations(Serials) \cup Permutations(ImportIds)
=============================================================================
