--------------------------- MODULE MCBuildWorkers ---------------------------
(* Instances of BuildWorkers for TLC: a measurement, a correctness run, a   *)
(* claim that is refused, and a request without claims (a verify).          *)
EXTENDS BuildWorkers, TLC

CONSTANTS b1, b2

Two == {b1, b2}

Claims(c, g, h) == [clock |-> c, gpu |-> g, host_cpu |-> h]

MixedHolds == {Claims("all", "all", "some"), Claims("none", "shared", "some"),
               Claims("none", "all", "too many"), Claims("none", "none", "none")}

Interchangeable == Permutations(Two)
=============================================================================
