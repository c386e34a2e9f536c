--------------------------- MODULE GpuLock_proofs ---------------------------
(***************************************************************************)
(* What gpu_lock() guarantees for any set of processes and any number of   *)
(* slots.  The inductive invariant is TypeOK /\ FilesMatchProgram; the     *)
(* safety properties and the refinement of DeviceUse follow from it.       *)
(***************************************************************************)
EXTENDS GpuLock, FiniteSetTheorems, TLAPS

IInv == TypeOK /\ FilesMatchProgram

-----------------------------------------------------------------------------
(* Counting.                                                               *)

\* Whatever the slot files say, no more processes hold a file of T than T has
\* files: a slot has one holder.
LEMMA HoldersFitSlots ==
    ASSUME NEW U, NEW T \in SUBSET SlotPaths,
           \A p \in U : \E i \in T : slot[i] = p
    PROVE  /\ IsFiniteSet(U)
           /\ IsFiniteSet(T)
           /\ Cardinality(U) <= Cardinality(T)
<1> DEFINE f == [p \in U |-> CHOOSE i \in T : slot[i] = p]
<1>1. IsFiniteSet(SlotPaths)
  BY FS_Interval, SlotsAssumption DEF SlotPaths
<1>2. IsFiniteSet(T)
  BY <1>1, FS_Subset
<1>3. \A p \in U : f[p] \in T /\ slot[f[p]] = p
  OBVIOUS
<1>4. f \in Injection(U, T)
  BY <1>3 DEF Injection, IsInjective
<1> QED
  BY <1>2, <1>4, FS_Injection

\* There are exactly Slots slot files.
LEMMA SlotPathsCount ==
    IsFiniteSet(SlotPaths) /\ Cardinality(SlotPaths) = Slots
BY FS_Interval, SlotsAssumption DEF SlotPaths

-----------------------------------------------------------------------------
(* The type invariant.                                                     *)

LEMMA InitType == Init => TypeOK
BY SlotsAssumption, RootsAssumption DEF Init, TypeOK, Labels, Modes, SlotPaths

LEMMA StepType == TypeOK /\ [Next]_vars => TypeOK'
<1> SUFFICES ASSUME TypeOK, [Next]_vars PROVE TypeOK'
  OBVIOUS
<1> USE DEF TypeOK, Labels, Goto
<1>1. ASSUME NEW p \in Procs, NEW m \in Modes, Call(p, m) PROVE TypeOK'
  BY <1>1 DEF Call
<1>2. ASSUME NEW p \in Procs, LockWq(p) PROVE TypeOK'
  BY <1>2 DEF LockWq
<1>3. ASSUME NEW p \in Procs, LockRw(p) PROVE TypeOK'
  BY <1>3 DEF LockRw, FlockOf
<1>4. ASSUME NEW p \in Procs, UnlockWq(p) PROVE TypeOK'
  BY <1>4, SlotsAssumption DEF UnlockWq, AfterAdmission
<1>5. ASSUME NEW p \in Procs, TakeSlot(p) PROVE TypeOK'
  BY <1>5 DEF TakeSlot
<1>6. ASSUME NEW p \in Procs, MissSlot(p) PROVE TypeOK'
  <2>1. at' \in [Procs -> 0 .. Slots]
    BY <1>6, SlotsAssumption DEF MissSlot, SlotPaths
  <2> QED BY <1>6, <2>1 DEF MissSlot
<1>7. ASSUME NEW p \in Procs, SweepAgain(p) PROVE TypeOK'
  BY <1>7, SlotsAssumption DEF SweepAgain
<1>8. ASSUME NEW p \in Procs, Mark(p) PROVE TypeOK'
  BY <1>8 DEF Mark
<1>9. ASSUME NEW p \in Procs, EnterBlock(p) PROVE TypeOK'
  BY <1>9 DEF EnterBlock
<1>10. ASSUME NEW p \in Procs, UnlockRw(p) PROVE TypeOK'
  BY <1>10 DEF UnlockRw
<1>11. ASSUME NEW p \in Procs, UnlockSlot(p) PROVE TypeOK'
  BY <1>11 DEF UnlockSlot
<1>12. ASSUME NEW p \in Procs, EndBlock(p) PROVE TypeOK'
  BY <1>12 DEF EndBlock
<1>13. ASSUME NEW p \in Procs, EndNested(p) PROVE TypeOK'
  BY <1>13 DEF EndNested
<1>14. ASSUME NEW p \in Procs, Interrupt(p) PROVE TypeOK'
  BY <1>14 DEF Interrupt
<1>15. ASSUME NEW p \in Procs, Die(p) PROVE TypeOK'
  BY <1>15 DEF Die
<1>16. ASSUME NEW p \in Procs, NEW c \in Procs, Fork(p, c) PROVE TypeOK'
  BY <1>16 DEF Fork
<1>17. CASE UNCHANGED vars
  BY <1>17 DEF vars
<1> QED
  BY <1>1, <1>2, <1>3, <1>4, <1>5, <1>6, <1>7, <1>8, <1>9, <1>10, <1>11, <1>12,
     <1>13, <1>14, <1>15, <1>16, <1>17 DEF Next, LockStep

\* Every variable keeps its type in every behaviour of the lock, whatever
\* processes call it, are interrupted, are killed or start others.
THEOREM TypeCorrect == Spec => []TypeOK
<1> QED BY InitType, StepType, PTL DEF Spec

-----------------------------------------------------------------------------
(* The lock files agree with the program counters.                         *)

LEMMA InitFiles == Init => FilesMatchProgram
BY NobodyAssumption DEF Init, FilesMatchProgram, WqMatchesProgram,
   RwMatchesProgram, ExclusiveFlockAlone, SlotsMatchProgram, FlockOf, SlotPaths

\* The admission mutex is held exactly over the wait for rw and its finally.
LEMMA StepWq ==
    ASSUME TypeOK, WqMatchesProgram, [Next]_vars
    PROVE  WqMatchesProgram'
<1> USE NobodyAssumption DEF TypeOK, WqMatchesProgram, Goto
<1>1. ASSUME NEW p \in Procs, NEW m \in Modes, Call(p, m) PROVE WqMatchesProgram'
  BY <1>1 DEF Call
<1>2. ASSUME NEW p \in Procs, LockWq(p) PROVE WqMatchesProgram'
  BY <1>2 DEF LockWq
<1>3. ASSUME NEW p \in Procs, LockRw(p) PROVE WqMatchesProgram'
  BY <1>3 DEF LockRw
<1>4. ASSUME NEW p \in Procs, UnlockWq(p) PROVE WqMatchesProgram'
  BY <1>4 DEF UnlockWq, AfterAdmission
<1>5. ASSUME NEW p \in Procs,
             TakeSlot(p) \/ MissSlot(p) \/ SweepAgain(p) \/ Mark(p) \/ EnterBlock(p)
      PROVE  WqMatchesProgram'
  BY <1>5 DEF TakeSlot, MissSlot, SweepAgain, Mark, EnterBlock
<1>6. ASSUME NEW p \in Procs,
             UnlockRw(p) \/ UnlockSlot(p) \/ EndBlock(p) \/ EndNested(p)
      PROVE  WqMatchesProgram'
  BY <1>6 DEF UnlockRw, UnlockSlot, EndBlock, EndNested
<1>7. ASSUME NEW p \in Procs, Interrupt(p) PROVE WqMatchesProgram'
  BY <1>7 DEF Interrupt
<1>8. ASSUME NEW p \in Procs, Die(p) PROVE WqMatchesProgram'
  BY <1>8 DEF Die
<1>9. ASSUME NEW p \in Procs, NEW c \in Procs, Fork(p, c) PROVE WqMatchesProgram'
  BY <1>9 DEF Fork
<1>10. CASE UNCHANGED vars
  BY <1>10 DEF vars
<1> QED
  BY <1>1, <1>2, <1>3, <1>4, <1>5, <1>6, <1>7, <1>8, <1>9, <1>10
  DEF Next, LockStep

\* rw is held in the caller's mode over the sweep, the block and the way out.
LEMMA StepRw ==
    ASSUME TypeOK, RwMatchesProgram, SlotsMatchProgram, [Next]_vars
    PROVE  RwMatchesProgram'
<1> USE DEF TypeOK, RwMatchesProgram, Goto
<1>1. ASSUME NEW p \in Procs, NEW m \in Modes, Call(p, m) PROVE RwMatchesProgram'
  BY <1>1 DEF Call
<1>2. ASSUME NEW p \in Procs, LockWq(p) PROVE RwMatchesProgram'
  BY <1>2 DEF LockWq
<1>3. ASSUME NEW p \in Procs, LockRw(p) PROVE RwMatchesProgram'
  BY <1>3 DEF LockRw, FlockOf
<1>4. ASSUME NEW p \in Procs, UnlockWq(p) PROVE RwMatchesProgram'
  BY <1>4 DEF UnlockWq, AfterAdmission
<1>5. ASSUME NEW p \in Procs,
             TakeSlot(p) \/ MissSlot(p) \/ SweepAgain(p) \/ Mark(p) \/ EnterBlock(p)
      PROVE  RwMatchesProgram'
  BY <1>5 DEF TakeSlot, MissSlot, SweepAgain, Mark, EnterBlock
<1>6. ASSUME NEW p \in Procs,
             UnlockRw(p) \/ UnlockSlot(p) \/ EndBlock(p) \/ EndNested(p)
      PROVE  RwMatchesProgram'
  BY <1>6 DEF UnlockRw, UnlockSlot, EndBlock, EndNested
<1>7. ASSUME NEW p \in Procs, Interrupt(p) PROVE RwMatchesProgram'
  BY <1>7 DEF Interrupt
<1>8. ASSUME NEW p \in Procs, Die(p) PROVE RwMatchesProgram'
  BY <1>8 DEF Die
<1>9. ASSUME NEW p \in Procs, NEW c \in Procs, Fork(p, c) PROVE RwMatchesProgram'
  BY <1>9 DEF Fork
<1>10. CASE UNCHANGED vars
  BY <1>10 DEF vars
<1> QED
  BY <1>1, <1>2, <1>3, <1>4, <1>5, <1>6, <1>7, <1>8, <1>9, <1>10
  DEF Next, LockStep

\* Only LockRw grants rw, and it grants LOCK_EX beside nothing.
LEMMA StepExclusive ==
    ASSUME TypeOK, ExclusiveFlockAlone, [Next]_vars
    PROVE  ExclusiveFlockAlone'
<1> USE DEF TypeOK, ExclusiveFlockAlone
<1>1. ASSUME NEW p \in Procs, LockRw(p) PROVE ExclusiveFlockAlone'
  <2>1. FlockOf(mode[p]) \in {"SH", "EX"}
    BY DEF FlockOf
  <2> QED BY <1>1, <2>1 DEF LockRw, Grantable
<1>2. ASSUME NEW p \in Procs, rw' = [rw EXCEPT ![p] = "UN"] PROVE ExclusiveFlockAlone'
  BY <1>2
<1>3. CASE UNCHANGED rw
  BY <1>3
<1>4. \/ \E p \in Procs : LockRw(p) \/ rw' = [rw EXCEPT ![p] = "UN"]
      \/ UNCHANGED rw
  BY DEF Next, LockStep, Call, LockWq, UnlockWq, TakeSlot, MissSlot, SweepAgain, Mark,
         EnterBlock, UnlockRw, UnlockSlot, EndBlock, EndNested, Interrupt, Die, Fork,
         vars
<1> QED BY <1>1, <1>2, <1>3, <1>4

\* A slot file is locked only by a shared holder past its sweep, and every shared
\* holder past its sweep has one.
LEMMA StepSlots ==
    ASSUME TypeOK, RwMatchesProgram, SlotsMatchProgram, [Next]_vars
    PROVE  SlotsMatchProgram'
<1> USE NobodyAssumption DEF TypeOK, SlotsMatchProgram, HoldsSlot, Goto
<1>1. ASSUME NEW p \in Procs, NEW m \in Modes, Call(p, m) PROVE SlotsMatchProgram'
  BY <1>1 DEF Call
<1>2. ASSUME NEW p \in Procs, LockWq(p) \/ LockRw(p) PROVE SlotsMatchProgram'
  BY <1>2 DEF LockWq, LockRw
<1>3. ASSUME NEW p \in Procs, UnlockWq(p) PROVE SlotsMatchProgram'
  <2>1. /\ rw[p] = "SH" => mode[p] = "shared"
        /\ rw[p] = "EX" => mode[p] = "exclusive"
    BY DEF RwMatchesProgram, FlockOf, Modes
  <2> QED BY <1>3, <2>1 DEF UnlockWq, AfterAdmission
<1>4. ASSUME NEW p \in Procs, TakeSlot(p) PROVE SlotsMatchProgram'
  BY <1>4 DEF TakeSlot
<1>5. ASSUME NEW p \in Procs, MissSlot(p) \/ SweepAgain(p) \/ Mark(p) \/ EnterBlock(p)
      PROVE  SlotsMatchProgram'
  BY <1>5 DEF MissSlot, SweepAgain, Mark, EnterBlock
<1>6. ASSUME NEW p \in Procs, EndBlock(p) \/ EndNested(p) \/ UnlockRw(p)
      PROVE  SlotsMatchProgram'
  BY <1>6 DEF EndBlock, EndNested, UnlockRw
<1>7. ASSUME NEW p \in Procs, UnlockSlot(p) \/ Die(p) PROVE SlotsMatchProgram'
  BY <1>7 DEF UnlockSlot, Die
<1>8. ASSUME NEW p \in Procs, Interrupt(p) PROVE SlotsMatchProgram'
  BY <1>8 DEF Interrupt
<1>9. ASSUME NEW p \in Procs, NEW c \in Procs, Fork(p, c) PROVE SlotsMatchProgram'
  BY <1>9 DEF Fork
<1>10. CASE UNCHANGED vars
  BY <1>10 DEF vars
<1> QED
  BY <1>1, <1>2, <1>3, <1>4, <1>5, <1>6, <1>7, <1>8, <1>9, <1>10
  DEF Next, LockStep

-----------------------------------------------------------------------------
(* The inductive invariant, and the safety properties it implies.          *)

LEMMA StepInv == IInv /\ [Next]_vars => IInv'
BY StepType, StepWq, StepRw, StepExclusive, StepSlots DEF IInv, FilesMatchProgram

\* The four lock files agree with the point gpu_lock() has reached in every
\* process, in every behaviour.
THEOREM FilesCorrect == Spec => [](TypeOK /\ FilesMatchProgram)
<1>1. Init => IInv
  BY InitType, InitFiles DEF IInv
<1>2. IInv => TypeOK /\ FilesMatchProgram
  BY DEF IInv
<1> QED BY <1>1, <1>2, StepInv, PTL DEF Spec

LEMMA InvAlone == IInv => MeasurementAlone
BY DEF IInv, TypeOK, FilesMatchProgram, RwMatchesProgram, ExclusiveFlockAlone,
   MeasurementAlone, Inside, FlockOf, Labels

\* A measurement has the device to itself, for any number of processes in any
\* mix of modes, interrupted and killed at will.
THEOREM MeasurementIsAlone == Spec => []MeasurementAlone
BY FilesCorrect, InvAlone, PTL DEF IInv

LEMMA InvWithinSlots == IInv => SharedWithinSlots
<1> SUFFICES ASSUME IInv PROVE SharedWithinSlots
  OBVIOUS
<1> DEFINE U == {p \in Procs : Inside(p) /\ mode[p] = "shared"}
<1>1. \A p \in U : \E i \in SlotPaths : slot[i] = p
  BY DEF IInv, FilesMatchProgram, SlotsMatchProgram, Inside, HoldsSlot
<1>2. Cardinality(U) <= Cardinality(SlotPaths)
  BY <1>1, HoldersFitSlots
<1> QED BY <1>2, SlotPathsCount DEF SharedWithinSlots

\* The number of shared blocks never exceeds host.gpu_shared_slots.
THEOREM SharedStaysWithinSlots == Spec => []SharedWithinSlots
BY FilesCorrect, InvWithinSlots, PTL DEF IInv

LEMMA InvNothingLeft == IInv => NothingLeftLocked
BY NobodyAssumption DEF IInv, TypeOK, FilesMatchProgram, WqMatchesProgram,
   RwMatchesProgram, SlotsMatchProgram, NothingLeftLocked, HoldsSlot

\* No way out of gpu_lock (the block's end, an interrupt, a kill) leaves a lock
\* file behind.
THEOREM NothingIsLeftLocked == Spec => []NothingLeftLocked
BY FilesCorrect, InvNothingLeft, PTL DEF IInv

-----------------------------------------------------------------------------
(* What a step may never do.                                               *)

LEMMA StepOvertaking ==
    ASSUME IInv, [Next]_vars,
           NEW p \in Procs, pc[p] = "flock_rw", mode[p] = "exclusive",
           NEW q \in Procs, rw[q] = "UN", rw'[q] = "SH"
    PROVE  FALSE
<1>1. LockRw(q)
  <2>1. \E r \in Procs : LockRw(r) \/ rw' = [rw EXCEPT ![r] = "UN"] \/ rw' = rw
    BY DEF Next, LockStep, Call, LockWq, UnlockWq, TakeSlot, MissSlot, SweepAgain, Mark,
           EnterBlock, UnlockRw, UnlockSlot, EndBlock, EndNested, Interrupt, Die, Fork,
           vars
  <2> QED BY <2>1 DEF LockRw, IInv, TypeOK
<1>2. wq = p /\ wq = q
  BY <1>1 DEF LockRw, IInv, FilesMatchProgram, WqMatchesProgram
<1> QED BY <1>1, <1>2 DEF LockRw, FlockOf, IInv, TypeOK

\* No shared acquirer ever joins rw past an exclusive request that waits for it:
\* the step that would is taken under wq, which the waiting request holds.
THEOREM NeverOvertaken == Spec => NoOvertaking
<1>1. IInv /\ [Next]_vars =>
        [ \A p, q \in Procs :
            pc[p] = "flock_rw" /\ mode[p] = "exclusive"
              => ~(rw[q] = "UN" /\ rw'[q] = "SH") ]_vars
  BY StepOvertaking
<1>2. Spec => []IInv
  BY FilesCorrect DEF IInv
<1> QED BY <1>1, <1>2, PTL DEF Spec, NoOvertaking

-----------------------------------------------------------------------------
(* The lock implements DeviceUse.                                          *)

\* The device's view of the lock's state.
use == [p \in Procs |-> UseOf(p)]

LEMMA InitDevice == Init => Device!Init
<1> SUFFICES ASSUME Init PROVE Device!Init
  OBVIOUS
<1>1. \A p \in Procs : UseOf(p) = "none"
  BY DEF Init, UseOf
<1> QED BY <1>1 DEF Device!Init, UseOf

\* An exclusive lock is granted only when no process uses the device.
LEMMA StepEnterExclusive ==
    ASSUME IInv, NEW p \in Procs, LockRw(p), mode[p] = "exclusive"
    PROVE  Device!EnterExclusive(p)
<1> USE DEF IInv, TypeOK
<1>1. \A q \in Procs : rw[q] = "UN"
  BY DEF LockRw, Grantable, FlockOf, FilesMatchProgram, RwMatchesProgram
<1>2. \A q \in Procs : UseOf(q) = "none"
  BY <1>1 DEF UseOf
<1>3. Device!Users("shared") \union Device!Users("exclusive") = {}
  BY <1>2 DEF Device!Users, UseOf
<1>4. \A q \in Procs : UseOf(q)' = IF q = p THEN "exclusive" ELSE "none"
  BY <1>1 DEF LockRw, FlockOf, UseOf
<1>5. use' = [use EXCEPT ![p] = "exclusive"]
  BY <1>2, <1>4 DEF use
<1> QED BY <1>3, <1>5 DEF Device!EnterExclusive, use

LEMMA SameCardinality == \A S : Device!Cardinality(S) = Cardinality(S)
BY DEF Device!Cardinality, Cardinality

\* A slot is granted only while the device is not measured and, the slot being
\* free, fewer than Slots processes share it.
LEMMA StepEnterShared ==
    ASSUME IInv, NEW p \in Procs, TakeSlot(p)
    PROVE  Device!EnterShared(p)
<1> USE NobodyAssumption DEF IInv, TypeOK
<1>1. rw[p] = "SH" /\ ~HoldsSlot(p)
  BY DEF TakeSlot, FilesMatchProgram, RwMatchesProgram, SlotsMatchProgram, FlockOf,
         HoldsSlot
<1>2. Device!Users("exclusive") = {}
  BY <1>1 DEF Device!Users, UseOf, FilesMatchProgram, ExclusiveFlockAlone
<1>3. Cardinality(Device!Users("shared")) < Slots
  <2> DEFINE U == Device!Users("shared")
             T == SlotPaths \ {at[p]}
  <2>1. \A q \in U : \E i \in T : slot[i] = q
    BY DEF Device!Users, UseOf, HoldsSlot, TakeSlot
  <2>2. Cardinality(U) <= Cardinality(T) /\ IsFiniteSet(U)
    BY <2>1, HoldersFitSlots
  <2>3. Cardinality(T) = Slots - 1
    BY SlotPathsCount, FS_RemoveElement DEF TakeSlot
  <2>4. Cardinality(U) \in Nat
    BY <2>2, FS_CardinalityType
  <2> HIDE DEF U, T
  <2>5. Cardinality(U) < Slots
    BY <2>2, <2>3, <2>4, SlotsAssumption
  <2> QED BY <2>5 DEF U
<1>4. \A q \in Procs : UseOf(q)' = IF q = p THEN "shared" ELSE UseOf(q)
  <2>1. HoldsSlot(p)'
    BY DEF TakeSlot, HoldsSlot
  <2>2. \A q \in Procs \ {p} : HoldsSlot(q)' <=> HoldsSlot(q)
    BY DEF TakeSlot, HoldsSlot
  <2> QED BY <1>1, <2>1, <2>2 DEF TakeSlot, UseOf
<1>5. use' = [use EXCEPT ![p] = "shared"]
  BY <1>4 DEF use
<1> QED BY <1>1, <1>2, <1>3, <1>5, SameCardinality DEF Device!EnterShared, use, UseOf

\* Letting go of rw, or dying, gives the device back.
LEMMA StepLeave ==
    ASSUME IInv, NEW p \in Procs, UnlockRw(p) \/ Die(p)
    PROVE  Device!Leave(p) \/ use' = use
<1> USE DEF IInv, TypeOK
<1>1. UseOf(p)' = "none"
  BY DEF UnlockRw, Die, UseOf
<1>2. \A q \in Procs \ {p} : UseOf(q)' = UseOf(q)
  BY NobodyAssumption DEF UnlockRw, Die, UseOf, HoldsSlot
<1>3. use' = [use EXCEPT ![p] = "none"]
  BY <1>1, <1>2 DEF use
<1>4. CASE use[p] = "none"
  <2>1. use' = use
    BY <1>3, <1>4 DEF use
  <2> QED BY <2>1
<1>5. CASE use[p] # "none"
  BY <1>3, <1>5 DEF Device!Leave, use
<1> QED BY <1>4, <1>5

\* No other step changes who uses the device: a shared rw without a slot, and a
\* slot without rw, are not yet or no longer a use.
LEMMA StepUnseen ==
    ASSUME IInv, NEW p \in Procs,
           \/ LockRw(p) /\ mode[p] = "shared"
           \/ UnlockSlot(p)
    PROVE  use' = use
<1> USE NobodyAssumption DEF IInv, TypeOK, use, UseOf
<1>1. CASE LockRw(p) /\ mode[p] = "shared"
  <2>1. rw[p] = "UN" /\ ~HoldsSlot(p)
    BY <1>1 DEF LockRw, FilesMatchProgram, RwMatchesProgram, SlotsMatchProgram,
                HoldsSlot
  <2>2. \A q \in Procs : HoldsSlot(q)' <=> HoldsSlot(q)
    BY <1>1 DEF LockRw, HoldsSlot
  <2>3. \A q \in Procs : UseOf(q)' = UseOf(q)
    BY <1>1, <2>1, <2>2 DEF LockRw, FlockOf
  <2> QED BY <2>3
<1>2. CASE UnlockSlot(p)
  <2>1. rw[p] = "UN"
    BY <1>2 DEF UnlockSlot, FilesMatchProgram, RwMatchesProgram
  <2>2. \A q \in Procs \ {p} : HoldsSlot(q)' <=> HoldsSlot(q)
    BY <1>2 DEF UnlockSlot, HoldsSlot
  <2>3. \A q \in Procs : UseOf(q)' = UseOf(q)
    BY <1>2, <2>1, <2>2 DEF UnlockSlot
  <2> QED BY <2>3
<1> QED BY <1>1, <1>2

LEMMA StepDevice == IInv /\ [Next]_vars => [Device!Next]_use
<1> SUFFICES ASSUME IInv, [Next]_vars PROVE Device!Next \/ use' = use
  OBVIOUS
<1>1. ASSUME NEW p \in Procs, LockRw(p) PROVE Device!Next \/ use' = use
  <2>1. mode[p] \in Modes
    BY DEF IInv, TypeOK
  <2> QED BY <1>1, <2>1, StepEnterExclusive, StepUnseen DEF Device!Next, Modes
<1>2. ASSUME NEW p \in Procs, TakeSlot(p) PROVE Device!Next
  BY <1>2, StepEnterShared DEF Device!Next
<1>3. ASSUME NEW p \in Procs, UnlockRw(p) \/ Die(p) PROVE Device!Next \/ use' = use
  BY <1>3, StepLeave DEF Device!Next
<1>4. ASSUME NEW p \in Procs, UnlockSlot(p) PROVE use' = use
  BY <1>4, StepUnseen
<1>5. CASE UNCHANGED <<rw, slot>>
  BY <1>5 DEF use, UseOf, HoldsSlot
<1>6. \/ \E p \in Procs : \/ LockRw(p) \/ TakeSlot(p)
                         \/ UnlockRw(p) \/ Die(p) \/ UnlockSlot(p)
      \/ UNCHANGED <<rw, slot>>
  BY DEF Next, LockStep, Call, LockWq, UnlockWq, MissSlot, SweepAgain, Mark,
         EnterBlock, EndBlock, EndNested, Interrupt, Fork, vars
<1> QED BY <1>1, <1>2, <1>3, <1>4, <1>5, <1>6

\* gpu_lock() is a device in exclusive or bounded shared use, for any number of
\* processes and slots: every step of its files is one grant, one return, or
\* nothing the device can see.
THEOREM LockImplementsDevice == Spec => ImplementsDeviceUse
<1>1. Spec => []IInv
  BY FilesCorrect DEF IInv
<1>2. IInv /\ [Next]_vars => [Device!Next]_([p \in Procs |-> UseOf(p)])
  BY StepDevice DEF use
<1> QED BY <1>1, <1>2, InitDevice, PTL DEF Spec, ImplementsDeviceUse, Device!Spec
=============================================================================
