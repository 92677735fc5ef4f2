-------------------------- MODULE MCPluginRuntime --------------------------
(* PluginRuntime for TLC: a bundled provider at the priority-0 floor and a *)
(* user plugin in a worker at the default priority 100.                    *)
EXTENDS PluginRuntime

CONSTANTS user, bundled

Priorities == (user :> 100) @@ (bundled :> 0)

\* Both in one batch, or the user plugin in a second one.
OneOrTwoBatches == {{user, bundled}, {bundled}}
=============================================================================
