----------------------------- MODULE DeviceUse -----------------------------
(***************************************************************************)
(* What the GPU lock promises its callers, with none of its files: a       *)
(* process uses the device exclusively, or shared, or not at all.          *)
(*                                                                         *)
(*   "MEASURED work needs the device to itself ... CORRECTNESS work only   *)
(*    needs the device not to be mid-measurement"  (locks/gpu.py:25-30)    *)
(*                                                                         *)
(* GpuLock.tla implements this specification.                              *)
(***************************************************************************)
EXTENDS Naturals, FiniteSets

CONSTANTS
    Procs,      \* the processes of the machine that may use the device
    Capacity    \* host.gpu_shared_slots: how many may share it at once

VARIABLE use    \* use[p]: how process p uses the device

Users(kind) == {p \in Procs : use[p] = kind}

Init == use = [p \in Procs |-> "none"]

\* A measurement starts only on an idle device.
EnterExclusive(p) ==
    /\ Users("shared") \union Users("exclusive") = {}
    /\ use' = [use EXCEPT ![p] = "exclusive"]

\* A correctness run joins the others while there is room and no measurement.
EnterShared(p) ==
    /\ use[p] = "none"
    /\ Users("exclusive") = {}
    /\ Cardinality(Users("shared")) < Capacity
    /\ use' = [use EXCEPT ![p] = "shared"]

\* The block ends, or the process dies inside it.
Leave(p) ==
    /\ use[p] # "none"
    /\ use' = [use EXCEPT ![p] = "none"]

Next == \E p \in Procs : EnterExclusive(p) \/ EnterShared(p) \/ Leave(p)

Spec == Init /\ [][Next]_use
=============================================================================
