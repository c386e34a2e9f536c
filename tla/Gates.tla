------------------------------- MODULE Gates --------------------------------
(***************************************************************************)
(* The three gates a change is judged by: the draw of a cell (CarryCell),  *)
(* a diff of two sides (Diff), and the verdict over its sessions           *)
(* (Verdict).  They share no state; a behaviour exercises the one it       *)
(* starts in.                                                              *)
(***************************************************************************)
EXTENDS CarryCell, Diff, Verdict

VARIABLE gate

GatesInit ==
    /\ gate \in {"draw", "comparison", "timing"}
    /\ CellInit /\ DiffInit /\ VerdictInit

GatesNext ==
    /\ UNCHANGED gate
    /\ \/ gate = "draw" /\ CellNext /\ UNCHANGED <<diffVars, verdictVars>>
       \/ gate = "comparison" /\ DiffNext /\ UNCHANGED <<cellVars, verdictVars>>
       \/ gate = "timing" /\ VerdictNext /\ UNCHANGED <<cellVars, diffVars>>

GatesSpec == GatesInit /\ [][GatesNext]_<<gate, cellVars, diffVars, verdictVars>>
=============================================================================
