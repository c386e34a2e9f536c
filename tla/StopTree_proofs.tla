--------------------------- MODULE StopTree_proofs ---------------------------
(***************************************************************************)
(* Theorems about StopTree, for any number of processes.                   *)
(***************************************************************************)
EXTENDS StopTree, TLAPS

-----------------------------------------------------------------------------
(* The walk: the least set that holds the command and is closed.           *)

LEMMA DescendantsAreClosed ==
    ASSUME NEW up \in [Procs -> Procs \union {Reaper}]
    PROVE  ClosedUnder(up, Descendants(up))
<1>1. Cmd \in Descendants(up)
  BY MaxProcsAssumption DEF Descendants, ClosedUnder, Cmd, Procs
<1>2. ASSUME NEW p \in Procs, up[p] \in Descendants(up)
      PROVE  p \in Descendants(up)
  BY <1>2 DEF Descendants, ClosedUnder
<1> QED BY <1>1, <1>2 DEF ClosedUnder

LEMMA DescendantsAreLeast ==
    ASSUME NEW up, NEW known \in SUBSET Procs, ClosedUnder(up, known)
    PROVE  Descendants(up) \subseteq known
BY DEF Descendants

\* A process whose stat file was never read is nobody's descendant.
LEMMA DescendantsHaveParents ==
    ASSUME NEW up, NEW p \in Descendants(up), p # Cmd
    PROVE  up[p] # p
<1> DEFINE known == {Cmd} \union {q \in Procs : up[q] # q}
<1>1. known \in SUBSET Procs
  BY MaxProcsAssumption DEF Cmd, Procs
<1>2. ClosedUnder(up, known)
  BY DEF ClosedUnder
<1>3. p \in known
  BY <1>1, <1>2, DescendantsAreLeast
<1> QED BY <1>3

-----------------------------------------------------------------------------
(* The inductive invariant.                                                *)

Born(p) == status[p] # "unborn"

\* Whoever runs has a parent that runs, or the reaper.
ParentsRun == \A p \in Procs : Alive(p) /\ parent[p] # Reaper => Alive(parent[p])

\* Only what has been started is listed, read or worked on.
TreeIsBorn ==
    /\ Born(Cmd)
    /\ \A p \in Procs : p \in listed \/ p \in unread \/ ppid[p] # p \/ p \in tree => Born(p)

\* The signals go round twice, SIGTERM first.
Rounds ==
    /\ pc \in {"communicate", "list", "read", "returned"} => sig = "TERM"
    /\ pc = "group" => todo = tree
    /\ pc = "returned" => tree = {}
    /\ pc \in {"communicate", "list", "read"} => tree = {}

\* The tree has been asked when SIGTERM has gone round.
Asked ==
    /\ sig = "KILL" \/ pc = "wait" => \A p \in tree : Alive(p) => p \in termed
    /\ pc = "each" => \A p \in tree \ todo : Alive(p) => p \in termed

\* And killed when SIGKILL has.
Killed ==
    /\ sig = "KILL" /\ pc = "each" => \A p \in tree \ todo : Alive(p) => p \in killed
    /\ sig = "KILL" /\ pc = "wait" => \A p \in tree : Alive(p) => p \in killed
    /\ pc \in {"reap", "raised"} => \A p \in tree : Alive(p) => p \in killed

\* What is listed and still under its parent keeps that parent: it was listed,
\* it is what the stat file said, and the tree that holds it holds the child.
Found ==
    LET kept == {p \in listed : Alive(p) /\ parent[p] # Reaper} IN
    /\ pc = "read" \/ (pc = "group" /\ sig = "TERM") => \A p \in kept : parent[p] \in listed
    /\ pc = "read" => \A p \in kept \ unread : ppid[p] = parent[p]
    /\ pc = "group" /\ sig = "TERM" => Cmd \in tree /\ \A p \in kept : parent[p] \in tree => p \in tree

IInv == TypeOK /\ ParentsRun /\ TreeIsBorn /\ Rounds /\ Asked /\ Killed /\ Found

-----------------------------------------------------------------------------

LEMMA InitHolds == Init => IInv
<1> SUFFICES ASSUME Init PROVE IInv
  OBVIOUS
<1> USE MaxProcsAssumption DEF Init, Alive, Procs, Cmd, Reaper, Born
<1>1. TypeOK
  BY DEF TypeOK, Labels, NothingRead
<1>2. ParentsRun
  BY DEF ParentsRun
<1>3. TreeIsBorn
  BY DEF TreeIsBorn, NothingRead
<1>4. Rounds /\ Asked /\ Killed /\ Found
  BY DEF Rounds, Asked, Killed, Found
<1> QED BY <1>1, <1>2, <1>3, <1>4 DEF IInv

LEMMA TypeStep ==
    ASSUME TypeOK, [Next]_vars
    PROVE  TypeOK'
<1> USE DEF TypeOK, Labels
<1>1. ASSUME NEW p \in Procs, NEW c \in Procs, Fork(p, c)
      PROVE  TypeOK'
  BY <1>1 DEF Fork, Alive, vars, procVars, treeVars
<1>2. ASSUME NEW p \in Procs, Exit(p)
      PROVE  TypeOK'
  BY <1>2 DEF Exit, Alive, vars, procVars, treeVars
<1>3. CASE Complete
  BY <1>3 DEF Complete, vars, procVars, treeVars
<1>4. CASE Abandon
  BY <1>4 DEF Abandon, vars, procVars, treeVars
<1>5. CASE List
  BY <1>5 DEF List, vars, procVars, treeVars
<1>6. ASSUME NEW p \in Procs, ReadStat(p)
      PROVE  TypeOK'
  BY <1>6 DEF ReadStat, vars, procVars, treeVars
<1>7. CASE Walk
  BY <1>7 DEF Walk, NothingRead, Descendants, vars, procVars, treeVars
<1>8. CASE SignalGroup
  BY <1>8 DEF SignalGroup, Send, vars, procVars, treeVars
<1>9. ASSUME NEW p \in Procs, SignalOne(p)
      PROVE  TypeOK'
  BY <1>9 DEF SignalOne, Send, vars, procVars, treeVars
<1>10. CASE AllSignalled
  BY <1>10 DEF AllSignalled, vars, procVars, treeVars
<1>11. CASE TreeGone
  BY <1>11 DEF TreeGone, vars, procVars, treeVars
<1>12. CASE GraceOver
  BY <1>12 DEF GraceOver, vars, procVars, treeVars
<1>13. CASE Reap
  BY <1>13 DEF Reap, vars, procVars, treeVars
<1>14. CASE UNCHANGED vars
  BY <1>14 DEF vars, procVars, treeVars
<1> QED BY <1>1, <1>2, <1>3, <1>4, <1>5, <1>6, <1>7, <1>8, <1>9, <1>10, <1>11, <1>12, <1>13, <1>14 DEF Next, Stop

LEMMA ParentsRunStep ==
    ASSUME TypeOK, ParentsRun, [Next]_vars
    PROVE  ParentsRun'
<1> USE DEF TypeOK, ParentsRun, Alive, Procs, Reaper
<1>1. ASSUME NEW p \in Procs, NEW c \in Procs, Fork(p, c)
      PROVE  ParentsRun'
  BY <1>1 DEF Fork, Alive, vars, procVars, treeVars
<1>2. ASSUME NEW p \in Procs, Exit(p)
      PROVE  ParentsRun'
  BY <1>2 DEF Exit, Alive, vars, procVars, treeVars
<1>3. CASE Complete
  BY <1>3 DEF Complete, vars, procVars, treeVars
<1>4. CASE Abandon
  BY <1>4 DEF Abandon, vars, procVars, treeVars
<1>5. CASE List
  BY <1>5 DEF List, vars, procVars, treeVars
<1>6. ASSUME NEW p \in Procs, ReadStat(p)
      PROVE  ParentsRun'
  BY <1>6 DEF ReadStat, vars, procVars, treeVars
<1>7. CASE Walk
  BY <1>7 DEF Walk, NothingRead, vars, procVars, treeVars
<1>8. CASE SignalGroup
  BY <1>8 DEF SignalGroup, Send, vars, procVars, treeVars
<1>9. ASSUME NEW p \in Procs, SignalOne(p)
      PROVE  ParentsRun'
  BY <1>9 DEF SignalOne, Send, vars, procVars, treeVars
<1>10. CASE AllSignalled
  BY <1>10 DEF AllSignalled, vars, procVars, treeVars
<1>11. CASE TreeGone
  BY <1>11 DEF TreeGone, vars, procVars, treeVars
<1>12. CASE GraceOver
  BY <1>12 DEF GraceOver, vars, procVars, treeVars
<1>13. CASE Reap
  BY <1>13 DEF Reap, vars, procVars, treeVars
<1>14. CASE UNCHANGED vars
  BY <1>14 DEF vars, procVars, treeVars
<1> QED BY <1>1, <1>2, <1>3, <1>4, <1>5, <1>6, <1>7, <1>8, <1>9, <1>10, <1>11, <1>12, <1>13, <1>14 DEF Next, Stop

LEMMA TreeIsBornStep ==
    ASSUME TypeOK, TreeIsBorn, [Next]_vars
    PROVE  TreeIsBorn'
<1> USE DEF TypeOK, TreeIsBorn, Alive, Born
<1>1. ASSUME NEW p \in Procs, NEW c \in Procs, Fork(p, c)
      PROVE  TreeIsBorn'
  BY <1>1 DEF Fork, Alive, vars, procVars, treeVars
<1>2. ASSUME NEW p \in Procs, Exit(p)
      PROVE  TreeIsBorn'
  BY <1>2 DEF Exit, Alive, vars, procVars, treeVars
<1>3. CASE Complete
  BY <1>3 DEF Complete, vars, procVars, treeVars
<1>4. CASE Abandon
  BY <1>4 DEF Abandon, vars, procVars, treeVars
<1>5. CASE List
  BY <1>5 DEF List, vars, procVars, treeVars
<1>6. ASSUME NEW p \in Procs, ReadStat(p)
      PROVE  TreeIsBorn'
  BY <1>6 DEF ReadStat, vars, procVars, treeVars
<1>7. CASE Walk
  <2>1. ASSUME NEW p \in Procs, p \in tree'
        PROVE  Born(p)
    BY <1>7, <2>1, DescendantsHaveParents DEF Walk
  <2> QED BY <1>7, <2>1 DEF Walk, NothingRead, vars, procVars, treeVars
<1>8. CASE SignalGroup
  BY <1>8 DEF SignalGroup, Send, vars, procVars, treeVars
<1>9. ASSUME NEW p \in Procs, SignalOne(p)
      PROVE  TreeIsBorn'
  BY <1>9 DEF SignalOne, Send, vars, procVars, treeVars
<1>10. CASE AllSignalled
  BY <1>10 DEF AllSignalled, vars, procVars, treeVars
<1>11. CASE TreeGone
  BY <1>11 DEF TreeGone, vars, procVars, treeVars
<1>12. CASE GraceOver
  BY <1>12 DEF GraceOver, vars, procVars, treeVars
<1>13. CASE Reap
  BY <1>13 DEF Reap, vars, procVars, treeVars
<1>14. CASE UNCHANGED vars
  BY <1>14 DEF vars, procVars, treeVars
<1> QED BY <1>1, <1>2, <1>3, <1>4, <1>5, <1>6, <1>7, <1>8, <1>9, <1>10, <1>11, <1>12, <1>13, <1>14 DEF Next, Stop

LEMMA RoundsStep ==
    ASSUME TypeOK, Rounds, [Next]_vars
    PROVE  Rounds'
<1> USE DEF TypeOK, Rounds
<1>1. ASSUME NEW p \in Procs, NEW c \in Procs, Fork(p, c)
      PROVE  Rounds'
  BY <1>1 DEF Fork, Alive, vars, procVars, treeVars
<1>2. ASSUME NEW p \in Procs, Exit(p)
      PROVE  Rounds'
  BY <1>2 DEF Exit, Alive, vars, procVars, treeVars
<1>3. CASE Complete
  BY <1>3 DEF Complete, vars, procVars, treeVars
<1>4. CASE Abandon
  BY <1>4 DEF Abandon, vars, procVars, treeVars
<1>5. CASE List
  BY <1>5 DEF List, vars, procVars, treeVars
<1>6. ASSUME NEW p \in Procs, ReadStat(p)
      PROVE  Rounds'
  BY <1>6 DEF ReadStat, vars, procVars, treeVars
<1>7. CASE Walk
  BY <1>7 DEF Walk, NothingRead, vars, procVars, treeVars
<1>8. CASE SignalGroup
  BY <1>8 DEF SignalGroup, Send, vars, procVars, treeVars
<1>9. ASSUME NEW p \in Procs, SignalOne(p)
      PROVE  Rounds'
  BY <1>9 DEF SignalOne, Send, vars, procVars, treeVars
<1>10. CASE AllSignalled
  BY <1>10 DEF AllSignalled, vars, procVars, treeVars
<1>11. CASE TreeGone
  BY <1>11 DEF TreeGone, vars, procVars, treeVars
<1>12. CASE GraceOver
  BY <1>12 DEF GraceOver, vars, procVars, treeVars
<1>13. CASE Reap
  BY <1>13 DEF Reap, vars, procVars, treeVars
<1>14. CASE UNCHANGED vars
  BY <1>14 DEF vars, procVars, treeVars
<1> QED BY <1>1, <1>2, <1>3, <1>4, <1>5, <1>6, <1>7, <1>8, <1>9, <1>10, <1>11, <1>12, <1>13, <1>14 DEF Next, Stop

LEMMA AskedStep ==
    ASSUME TypeOK, TreeIsBorn, Rounds, Asked, [Next]_vars
    PROVE  Asked'
<1> USE DEF TypeOK, TreeIsBorn, Rounds, Asked, Alive, Born
<1>1. ASSUME NEW p \in Procs, NEW c \in Procs, Fork(p, c)
      PROVE  Asked'
  BY <1>1 DEF Fork, Alive, vars, procVars, treeVars
<1>2. ASSUME NEW p \in Procs, Exit(p)
      PROVE  Asked'
  BY <1>2 DEF Exit, Alive, vars, procVars, treeVars
<1>3. CASE Complete
  BY <1>3 DEF Complete, vars, procVars, treeVars
<1>4. CASE Abandon
  BY <1>4 DEF Abandon, vars, procVars, treeVars
<1>5. CASE List
  BY <1>5 DEF List, vars, procVars, treeVars
<1>6. ASSUME NEW p \in Procs, ReadStat(p)
      PROVE  Asked'
  BY <1>6 DEF ReadStat, vars, procVars, treeVars
<1>7. CASE Walk
  BY <1>7 DEF Walk, NothingRead, vars, procVars, treeVars
<1>8. CASE SignalGroup
  BY <1>8 DEF SignalGroup, Send, vars, procVars, treeVars
<1>9. ASSUME NEW p \in Procs, SignalOne(p)
      PROVE  Asked'
  BY <1>9 DEF SignalOne, Send, vars, procVars, treeVars
<1>10. CASE AllSignalled
  BY <1>10 DEF AllSignalled, vars, procVars, treeVars
<1>11. CASE TreeGone
  BY <1>11 DEF TreeGone, vars, procVars, treeVars
<1>12. CASE GraceOver
  BY <1>12 DEF GraceOver, vars, procVars, treeVars
<1>13. CASE Reap
  BY <1>13 DEF Reap, vars, procVars, treeVars
<1>14. CASE UNCHANGED vars
  BY <1>14 DEF vars, procVars, treeVars
<1> QED BY <1>1, <1>2, <1>3, <1>4, <1>5, <1>6, <1>7, <1>8, <1>9, <1>10, <1>11, <1>12, <1>13, <1>14 DEF Next, Stop

LEMMA KilledStep ==
    ASSUME TypeOK, TreeIsBorn, Rounds, Killed, [Next]_vars
    PROVE  Killed'
<1> USE DEF TypeOK, TreeIsBorn, Rounds, Killed, Alive, Born
<1>1. ASSUME NEW p \in Procs, NEW c \in Procs, Fork(p, c)
      PROVE  Killed'
  BY <1>1 DEF Fork, Alive, vars, procVars, treeVars
<1>2. ASSUME NEW p \in Procs, Exit(p)
      PROVE  Killed'
  BY <1>2 DEF Exit, Alive, vars, procVars, treeVars
<1>3. CASE Complete
  BY <1>3 DEF Complete, vars, procVars, treeVars
<1>4. CASE Abandon
  BY <1>4 DEF Abandon, vars, procVars, treeVars
<1>5. CASE List
  BY <1>5 DEF List, vars, procVars, treeVars
<1>6. ASSUME NEW p \in Procs, ReadStat(p)
      PROVE  Killed'
  BY <1>6 DEF ReadStat, vars, procVars, treeVars
<1>7. CASE Walk
  BY <1>7 DEF Walk, NothingRead, vars, procVars, treeVars
<1>8. CASE SignalGroup
  BY <1>8 DEF SignalGroup, Send, vars, procVars, treeVars
<1>9. ASSUME NEW p \in Procs, SignalOne(p)
      PROVE  Killed'
  BY <1>9 DEF SignalOne, Send, vars, procVars, treeVars
<1>10. CASE AllSignalled
  BY <1>10 DEF AllSignalled, vars, procVars, treeVars
<1>11. CASE TreeGone
  BY <1>11 DEF TreeGone, vars, procVars, treeVars
<1>12. CASE GraceOver
  BY <1>12 DEF GraceOver, vars, procVars, treeVars
<1>13. CASE Reap
  BY <1>13 DEF Reap, vars, procVars, treeVars
<1>14. CASE UNCHANGED vars
  BY <1>14 DEF vars, procVars, treeVars
<1> QED BY <1>1, <1>2, <1>3, <1>4, <1>5, <1>6, <1>7, <1>8, <1>9, <1>10, <1>11, <1>12, <1>13, <1>14 DEF Next, Stop

LEMMA FoundStep ==
    ASSUME TypeOK, ParentsRun, TreeIsBorn, Rounds, Found, [Next]_vars
    PROVE  Found'
<1> USE DEF TypeOK, ParentsRun, TreeIsBorn, Rounds, Found, Alive, Born
<1>1. ASSUME NEW p \in Procs, NEW c \in Procs, Fork(p, c)
      PROVE  Found'
  BY <1>1 DEF Fork, Alive, vars, procVars, treeVars
<1>2. ASSUME NEW p \in Procs, Exit(p)
      PROVE  Found'
  BY <1>2 DEF Exit, Alive, vars, procVars, treeVars
<1>3. CASE Complete
  BY <1>3 DEF Complete, vars, procVars, treeVars
<1>4. CASE Abandon
  BY <1>4 DEF Abandon, vars, procVars, treeVars
<1>5. CASE List
  BY <1>5 DEF List, vars, procVars, treeVars
<1>6. ASSUME NEW p \in Procs, ReadStat(p)
      PROVE  Found'
  BY <1>6 DEF ReadStat, vars, procVars, treeVars
<1>7. CASE Walk
  BY <1>7, DescendantsAreClosed DEF Walk, NothingRead, ClosedUnder, vars, procVars, treeVars
<1>8. CASE SignalGroup
  BY <1>8 DEF SignalGroup, Send, vars, procVars, treeVars
<1>9. ASSUME NEW p \in Procs, SignalOne(p)
      PROVE  Found'
  BY <1>9 DEF SignalOne, Send, vars, procVars, treeVars
<1>10. CASE AllSignalled
  BY <1>10 DEF AllSignalled, vars, procVars, treeVars
<1>11. CASE TreeGone
  BY <1>11 DEF TreeGone, vars, procVars, treeVars
<1>12. CASE GraceOver
  BY <1>12 DEF GraceOver, vars, procVars, treeVars
<1>13. CASE Reap
  BY <1>13 DEF Reap, vars, procVars, treeVars
<1>14. CASE UNCHANGED vars
  BY <1>14 DEF vars, procVars, treeVars
<1> QED BY <1>1, <1>2, <1>3, <1>4, <1>5, <1>6, <1>7, <1>8, <1>9, <1>10, <1>11, <1>12, <1>13, <1>14 DEF Next, Stop

-----------------------------------------------------------------------------
(* The theorems.                                                           *)

LEMMA Inductive == Spec => []IInv
<1>1. IInv /\ [Next]_vars => IInv'
  BY TypeStep, ParentsRunStep, TreeIsBornStep, RoundsStep, AskedStep, KilledStep, FoundStep DEF IInv
<1> QED BY InitHolds, <1>1, PTL DEF Spec

\* Types, for any number of processes.
THEOREM TypeCorrect == Spec => []TypeOK
<1>1. IInv => TypeOK
  BY DEF IInv
<1> QED BY Inductive, <1>1, PTL

\* stop_tree (process.py:61-73): whatever the tree does meanwhile, a run that
\* raises leaves nothing of it running that SIGKILL was not sent to.
THEOREM TreeIsAlwaysStopped == Spec => []TreeIsStopped
<1>1. IInv => TreeIsStopped
  BY DEF IInv, Killed, TreeIsStopped
<1> QED BY Inductive, <1>1, PTL

\* stop_tree: SIGKILL reaches nothing of the tree that SIGTERM did not.
THEOREM TreeIsAskedFirst == Spec => AskedFirst
<1>1. IInv /\ [Next]_vars => [(killed' \ killed) \intersect tree \subseteq termed]_vars
  <2> SUFFICES ASSUME IInv, Next
               PROVE  (killed' \ killed) \intersect tree \subseteq termed
    OBVIOUS
  <2> USE DEF IInv
  <2>1. CASE SignalGroup
    <3>1. CASE sig = "TERM"
      BY <2>1, <3>1 DEF SignalGroup, Send
    <3>2. CASE sig # "TERM"
      <4>1. \A p \in tree : Alive(p) => p \in termed
        BY <3>2 DEF Asked, TypeOK
      <4>2. \A p \in killed' \ killed : Alive(p)
        BY <2>1, <3>2 DEF SignalGroup, Send
      <4> QED BY <4>1, <4>2
    <3> QED BY <3>1, <3>2
  <2>2. ASSUME NEW p \in Procs, SignalOne(p)
        PROVE  (killed' \ killed) \intersect tree \subseteq termed
    <3>1. CASE sig = "TERM"
      BY <2>2, <3>1 DEF SignalOne, Send
    <3>2. CASE sig # "TERM"
      <4>1. \A q \in tree : Alive(q) => q \in termed
        BY <3>2 DEF Asked, TypeOK
      <4>2. \A q \in killed' \ killed : Alive(q)
        BY <2>2, <3>2 DEF SignalOne, Send
      <4> QED BY <4>1, <4>2
    <3> QED BY <3>1, <3>2
  <2>3. CASE UNCHANGED killed
    BY <2>3
  <2>4. ASSUME NEW p \in Procs, NEW c \in Procs, Fork(p, c) \/ Exit(p) \/ ReadStat(p)
        PROVE  UNCHANGED killed
    BY <2>4 DEF Fork, Exit, ReadStat
  <2>5. Complete \/ Abandon \/ List \/ Walk \/ AllSignalled \/ TreeGone \/ GraceOver \/ Reap => UNCHANGED killed
    BY DEF Complete, Abandon, List, Walk, AllSignalled, TreeGone, GraceOver, Reap
  <2> QED BY <2>1, <2>2, <2>3, <2>4, <2>5 DEF Next, Stop
<1> QED BY Inductive, <1>1, PTL DEF Spec, AskedFirst

\* descendants (process.py:39-51): reading /proc file by file while processes fork,
\* exit and are handed to the reaper misses none that was listed and is still
\* under the command.  The tree and all that was not listed is closed under the
\* parents the kernel has, so the lineage is within it.
THEOREM LineageIsAlwaysFound == Spec => []LineageIsFound
<1>1. IInv => LineageIsFound
  <2> SUFFICES ASSUME IInv, pc = "group", sig = "TERM"
               PROVE  Lineage \intersect listed \subseteq tree
    BY DEF LineageIsFound
  <2> DEFINE up == [p \in Procs |-> IF Alive(p) /\ parent[p] # Reaper THEN parent[p] ELSE p]
             known == tree \union (Procs \ listed)
  <2>1. known \in SUBSET Procs
    BY DEF IInv, TypeOK
  <2>2. Cmd \in known
    BY DEF IInv, Found
  <2>3. ASSUME NEW p \in Procs, up[p] \in known
        PROVE  p \in known
    BY <2>3 DEF IInv, Found
  <2>4. ClosedUnder(up, known)
    BY <2>2, <2>3 DEF ClosedUnder
  <2>5. Descendants(up) \subseteq known
    BY <2>1, <2>4, DescendantsAreLeast
  <2> QED BY <2>5 DEF Lineage
<1> QED BY Inductive, <1>1, PTL
=============================================================================
