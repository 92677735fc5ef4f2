------------------------- MODULE MCScanoutPipeline -------------------------
(* ScanoutPipeline for TLC: the client's buffers are interchangeable.      *)
EXTENDS ScanoutPipeline

Symmetry == Permutations(Bufs)
=============================================================================
