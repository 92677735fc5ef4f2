------------------------ MODULE MCWorkspaceRegistry ------------------------
(* WorkspaceRegistry for TLC: two monitors at boot; a caller that prefers   *)
(* none, or the second.                                                    *)
EXTENDS WorkspaceRegistry

CONSTANTS DP1, HDMI1

Symmetry == Permutations(Surfaces)

Given == {<<>>, <<HDMI1>>}

TwoMonitors == (0 :> DP1) @@ (1 :> HDMI1)
=============================================================================
