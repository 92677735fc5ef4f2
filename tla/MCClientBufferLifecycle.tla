---------------------- MODULE MCClientBufferLifecycle ----------------------
(* ClientBufferLifecycle for TLC: buffers, surfaces, serials and fds are   *)
(* interchangeable model values.                                           *)
EXTENDS ClientBufferLifecycle, TLC

Symmetry == Permutations(BufferIds) \cup Permutations(SurfaceIds)
              \cup Permutations(Serials) \cup Permutations(Fds)
=============================================================================
