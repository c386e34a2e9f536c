---------------------------- MODULE MCHostBudget ----------------------------
(* The instance of HostBudget for TLC.                                      *)
EXTENDS HostBudget

CONSTANTS p1, p2

TwoProcs == {p1, p2}

\* None, one, and more than there are: n is clamped.
SmallAndMany == {0, 1, 9}
=============================================================================
