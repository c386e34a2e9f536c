----------------------------- MODULE MCGpuLock -----------------------------
(* The instance of GpuLock for TLC: two root processes and the child one of *)
(* them may start.                                                          *)
EXTENDS GpuLock

CONSTANTS p1, p2, c1

TwoProcs == {p1, p2}
TwoAndChild == TwoProcs \union {c1}
=============================================================================
