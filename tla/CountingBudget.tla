--------------------------- MODULE CountingBudget ---------------------------
(***************************************************************************)
(* What the host budget promises: a counting semaphore over Total compute  *)
(* slots.  A block is granted a number of slots, at least one and never    *)
(* more than are left, in one step, and gives all of them back in one.     *)
(* HostBudget.tla implements this.                                         *)
(***************************************************************************)
EXTENDS Integers, FiniteSets

CONSTANTS
    Procs,      \* the processes that draw
    Total       \* budget_slots()

VARIABLE drawn  \* drawn[p]: how many slots p's block runs with

\* The slots granted, as <<whose, which of its slots>>.
Granted == {g \in Procs \X (1 .. Total) : g[2] <= drawn[g[1]]}

Left == Total - Cardinality(Granted)

Init == drawn = [p \in Procs |-> 0]

Grant(p, k) ==
    /\ drawn[p] = 0
    /\ k <= Left
    /\ drawn' = [drawn EXCEPT ![p] = k]

Release(p) ==
    /\ drawn[p] > 0
    /\ drawn' = [drawn EXCEPT ![p] = 0]

Next == \E p \in Procs : Release(p) \/ \E k \in 1 .. Total : Grant(p, k)

Spec == Init /\ [][Next]_drawn
=============================================================================
