------------------------------ MODULE GpuLock ------------------------------
(***************************************************************************)
(* gpu_lock() of rola_devtools/locks/gpu.py: a reader/writer lock over the *)
(* flock'd file {base}.rw, an admission mutex {base}.wq every acquirer     *)
(* takes first, and a pool of slot files that caps the shared holders.     *)
(*                                                                         *)
(* One label of pc is one point of gpu_lock() at which another process     *)
(* can observe or change a lock file.  The kernel side (flock(2)) is the   *)
(* three tables wq, rw and slot: a descriptor's lock disappears with its   *)
(* process, so Die releases whatever the process held.                     *)
(*                                                                         *)
(* The marker ROLA_GPU_LOCK_HELD is a copy in each process's environment,  *)
(* inherited by what the process starts and never taken back from it.      *)
(***************************************************************************)
EXTENDS Naturals, FiniteSets

CONSTANTS
    Procs,      \* every process of the run
    Roots,      \* the processes that start on their own, with no marker
    Slots,      \* machine("host.gpu_shared_slots")
    Nobody      \* no process

ASSUME RootsAssumption  == Roots \subseteq Procs
ASSUME SlotsAssumption  == Slots \in Nat
ASSUME NobodyAssumption == Nobody \notin Procs

VARIABLES
    pc,         \* pc[p]: where in gpu_lock process p is
    mode,       \* mode[p]: the mode of p's latest call
    at,         \* at[p]: the slot p's sweep tries next
    marker,     \* marker[p]: the pid in p's ROLA_GPU_LOCK_HELD, or Nobody
    wq,         \* the process holding {base}.wq
    rw,         \* rw[p]: p's flock on {base}.rw
    slot        \* slot[i]: the process holding {base}.slot<i>

vars == <<pc, mode, at, marker, wq, rw, slot>>

Modes == {"exclusive", "shared"}

SlotPaths == 0 .. Slots - 1

Labels == {"unborn", "outside", "flock_wq", "flock_rw", "unlock_wq", "sweep",
           "mark", "lower_priority", "yield", "unlock_rw", "unlock_slot", "nested", "dead"}

FlockAlwaysShared(m) == "SH"
FlockOf(m) == IF m = "exclusive" THEN "EX" ELSE "SH"

TypeOK ==
    /\ pc \in [Procs -> Labels]
    /\ mode \in [Procs -> Modes]
    /\ at \in [Procs -> 0 .. Slots]
    /\ marker \in [Procs -> Procs \union {Nobody}]
    /\ wq \in Procs \union {Nobody}
    /\ rw \in [Procs -> {"UN", "SH", "EX"}]
    /\ slot \in [SlotPaths -> Procs \union {Nobody}]

Init ==
    /\ pc = [p \in Procs |-> IF p \in Roots THEN "outside" ELSE "unborn"]
    /\ mode = [p \in Procs |-> "exclusive"]
    /\ at = [p \in Procs |-> 0]
    /\ marker = [p \in Procs |-> Nobody]
    /\ wq = Nobody
    /\ rw = [p \in Procs |-> "UN"]
    /\ slot = [i \in SlotPaths |-> Nobody]

Goto(p, label) == pc' = [pc EXCEPT ![p] = label]

\* flock(2): a shared lock is granted beside shared locks, an exclusive one
\* beside none.
Grantable(p, type) ==
    \A q \in Procs \ {p} : rw[q] = "UN" \/ (type = "SH" /\ rw[q] = "SH")

HoldsSlot(p) == \E i \in SlotPaths : slot[i] = p

-----------------------------------------------------------------------------
(* The call.  A marker in the environment makes it a no-op context.        *)

Call(p, m) ==
    /\ pc[p] = "outside"
    /\ mode' = [mode EXCEPT ![p] = m]
    /\ Goto(p, IF marker[p] # Nobody THEN "nested" ELSE "flock_wq")
    /\ UNCHANGED <<at, marker, wq, rw, slot>>

EndNested(p) ==
    /\ pc[p] = "nested"
    /\ Goto(p, "outside")
    /\ UNCHANGED <<mode, at, marker, wq, rw, slot>>

(* Admission: wq, then rw, then wq is let go in a finally.                 *)

LockWqWritersOnly(p) ==
    /\ pc[p] = "flock_wq"
    /\ mode[p] = "exclusive" => wq = Nobody
    /\ wq' = IF mode[p] = "exclusive" THEN p ELSE wq
    /\ Goto(p, "flock_rw")
    /\ UNCHANGED <<mode, at, marker, rw, slot>>

LockWq(p) ==
    /\ pc[p] = "flock_wq"
    /\ wq = Nobody
    /\ wq' = p
    /\ Goto(p, "flock_rw")
    /\ UNCHANGED <<mode, at, marker, rw, slot>>

LockRw(p) ==
    /\ pc[p] = "flock_rw"
    /\ Grantable(p, FlockOf(mode[p]))
    /\ rw' = [rw EXCEPT ![p] = FlockOf(mode[p])]
    /\ Goto(p, "unlock_wq")
    /\ UNCHANGED <<mode, at, marker, wq, slot>>

\* Where the finally that lets wq go leads: a shared holder still needs a slot.
AfterAdmission(p) ==
    IF rw[p] = "UN" THEN "outside" ELSE IF rw[p] = "SH" THEN "sweep" ELSE "mark"

\* Reached with rw held, or with nothing when the wait for rw was interrupted.
UnlockWq(p) ==
    /\ pc[p] = "unlock_wq"
    /\ wq' = Nobody
    /\ at' = [at EXCEPT ![p] = 0]
    /\ Goto(p, AfterAdmission(p))
    /\ UNCHANGED <<mode, marker, rw, slot>>

(* The shared holder's slot: one sweep, then sweeps 10 ms apart, until one *)
(* try succeeds.                                                           *)

TakeSlotUnasked(p) ==
    /\ pc[p] = "sweep"
    /\ at[p] \in SlotPaths
    /\ slot' = [slot EXCEPT ![at[p]] = p]
    /\ Goto(p, "mark")
    /\ UNCHANGED <<mode, at, marker, wq, rw>>

TakeSlot(p) ==
    /\ pc[p] = "sweep"
    /\ at[p] \in SlotPaths
    /\ slot[at[p]] = Nobody
    /\ slot' = [slot EXCEPT ![at[p]] = p]
    /\ Goto(p, "mark")
    /\ UNCHANGED <<mode, at, marker, wq, rw>>

MissSlotPinned(p) ==
    /\ pc[p] = "sweep"
    /\ at[p] \in SlotPaths
    /\ slot[at[p]] # Nobody
    /\ UNCHANGED vars

MissSlot(p) ==
    /\ pc[p] = "sweep"
    /\ at[p] \in SlotPaths
    /\ slot[at[p]] # Nobody
    /\ at' = [at EXCEPT ![p] = @ + 1]
    /\ UNCHANGED <<pc, mode, marker, wq, rw, slot>>

SweepAgain(p) ==
    /\ pc[p] = "sweep"
    /\ at[p] = Slots
    /\ at' = [at EXCEPT ![p] = 0]
    /\ UNCHANGED <<pc, mode, marker, wq, rw, slot>>

(* The block itself, and the way out: rw first, then the slot.  The marker *)
(* is set, and the priority lowered (a subprocess), before the try that    *)
(* clears the marker.                                                      *)

Mark(p) ==
    /\ pc[p] = "mark"
    /\ marker' = [marker EXCEPT ![p] = p]
    /\ Goto(p, "lower_priority")
    /\ UNCHANGED <<mode, at, wq, rw, slot>>

EnterBlock(p) ==
    /\ pc[p] = "lower_priority"
    /\ Goto(p, "yield")
    /\ UNCHANGED <<mode, at, marker, wq, rw, slot>>

EndBlock(p) ==
    /\ pc[p] = "yield"
    /\ marker' = [marker EXCEPT ![p] = Nobody]
    /\ Goto(p, "unlock_rw")
    /\ UNCHANGED <<mode, at, wq, rw, slot>>

UnlockRwAlone(p) ==
    /\ pc[p] = "unlock_rw"
    /\ rw' = [rw EXCEPT ![p] = "UN"]
    /\ Goto(p, "outside")
    /\ UNCHANGED <<mode, at, marker, wq, slot>>

UnlockRw(p) ==
    /\ pc[p] = "unlock_rw"
    /\ rw' = [rw EXCEPT ![p] = "UN"]
    /\ Goto(p, IF HoldsSlot(p) THEN "unlock_slot" ELSE "outside")
    /\ UNCHANGED <<mode, at, marker, wq, slot>>

UnlockSlot(p) ==
    /\ pc[p] = "unlock_slot"
    /\ slot' = [i \in SlotPaths |-> IF slot[i] = p THEN Nobody ELSE slot[i]]
    /\ Goto(p, "outside")
    /\ UNCHANGED <<mode, at, marker, wq, rw>>

-----------------------------------------------------------------------------
(* What happens to a process from outside.                                 *)

\* An exception (a KeyboardInterrupt, an ionice that cannot start) where the
\* call waits or runs a subprocess: the finally clauses run.
Interrupt(p) ==
    /\ \/ pc[p] = "flock_wq" /\ Goto(p, "outside")
       \/ pc[p] = "flock_rw" /\ Goto(p, "unlock_wq")
       \/ pc[p] \in {"sweep", "lower_priority"} /\ Goto(p, "unlock_rw")
    /\ UNCHANGED <<mode, at, marker, wq, rw, slot>>

\* SIGKILL at any point: the kernel closes its descriptors.
Die(p) ==
    /\ pc[p] \notin {"unborn", "dead"}
    /\ wq' = IF wq = p THEN Nobody ELSE wq
    /\ rw' = [rw EXCEPT ![p] = "UN"]
    /\ slot' = [i \in SlotPaths |-> IF slot[i] = p THEN Nobody ELSE slot[i]]
    /\ marker' = [marker EXCEPT ![p] = Nobody]
    /\ Goto(p, "dead")
    /\ UNCHANGED <<mode, at>>

\* A process starts another, which inherits its environment, marker included.
Fork(p, c) ==
    /\ pc[p] \in {"outside", "yield", "nested"}
    /\ pc[c] = "unborn"
    /\ marker' = [marker EXCEPT ![c] = marker[p]]
    /\ Goto(c, "outside")
    /\ UNCHANGED <<mode, at, wq, rw, slot>>

-----------------------------------------------------------------------------

\* The steps of the lock's own code, which a running process keeps taking.
LockStep(p) ==
    \/ LockWq(p) \/ LockRw(p) \/ UnlockWq(p)
    \/ TakeSlot(p) \/ MissSlot(p) \/ SweepAgain(p)
    \/ Mark(p) \/ EnterBlock(p) \/ UnlockRw(p) \/ UnlockSlot(p)

Next ==
    \E p \in Procs :
        \/ \E m \in Modes : Call(p, m)
        \/ LockStep(p)
        \/ EndBlock(p)
        \/ EndNested(p)
        \/ Interrupt(p)
        \/ Die(p)
        \/ \E c \in Procs : Fork(p, c)

Spec == Init /\ [][Next]_vars

\* A process inside gpu_lock keeps running; a block may hold for ever.
LockFairness == \A p \in Procs : WF_vars(LockStep(p))

\* Blocks end as well.
BlockFairness == \A p \in Procs : WF_vars(EndBlock(p))

LiveSpec == Spec /\ LockFairness

-----------------------------------------------------------------------------
(* Safety.                                                                 *)

Inside(p) == pc[p] \in {"lower_priority", "yield"}

\* A measurement has the device to itself: while a process is in an exclusive
\* block it entered through the lock files, no other process is in a block it
\* entered through them, in either mode (gpu.py:25-30).
MeasurementAlone ==
    \A p, q \in Procs :
        Inside(p) /\ mode[p] = "exclusive" /\ Inside(q) => p = q

\* No more than gpu_shared_slots correctness runs are in their blocks at once.
SharedWithinSlots ==
    Cardinality({p \in Procs : Inside(p) /\ mode[p] = "shared"}) <= Slots

\* Whatever way a process left gpu_lock (block ended, interrupted while it
\* waited, killed), it left no file locked behind it.
NothingLeftLocked ==
    \A p \in Procs : pc[p] \in {"outside", "flock_wq", "nested", "dead"} =>
        wq # p /\ rw[p] = "UN" /\ ~HoldsSlot(p)

\* While an exclusive request waits for rw, no shared acquirer walks past it
\* and joins rw: the starvation gap of plain flock() that wq closes.
NoOvertaking ==
    [][ \A p, q \in Procs :
          pc[p] = "flock_rw" /\ mode[p] = "exclusive"
            => ~(rw[q] = "UN" /\ rw'[q] = "SH") ]_vars

\* The lock implements what DeviceUse promises: a process uses the device from
\* the moment it holds its last file until it lets go of rw.
UseOf(p) ==
    IF rw[p] = "EX" THEN "exclusive"
    ELSE IF rw[p] = "SH" /\ HoldsSlot(p) THEN "shared" ELSE "none"

Device == INSTANCE DeviceUse WITH
    Capacity <- Slots,
    use <- [p \in Procs |-> UseOf(p)]

ImplementsDeviceUse == Device!Spec

(* Why the lock is safe: the files agree with where each process is.       *)

\* wq is held from its flock to the end of its finally, and then only.
WqMatchesProgram ==
    \A p \in Procs : wq = p <=> pc[p] \in {"flock_rw", "unlock_wq"}

\* rw is held, in the mode asked for, from its flock to its release; between
\* the wait and wq's finally it may be held or (interrupted) not.
RwMatchesProgram ==
    \A p \in Procs :
        /\ rw[p] \in {"UN", FlockOf(mode[p])}
        /\ pc[p] \in {"sweep", "mark", "lower_priority", "yield", "unlock_rw"}
              => rw[p] # "UN"
        /\ pc[p] \in {"unborn", "outside", "flock_wq", "flock_rw", "unlock_slot",
                       "nested", "dead"}
              => rw[p] = "UN"

\* The kernel's side: an exclusive flock is held alone.
ExclusiveFlockAlone ==
    \A p, q \in Procs : rw[p] = "EX" /\ rw[q] # "UN" => p = q

\* Slots belong to shared holders, from their sweep to their release, and no
\* shared holder gets past its sweep without one.
SlotsMatchProgram ==
    /\ \A i \in SlotPaths : slot[i] # Nobody =>
          /\ mode[slot[i]] = "shared"
          /\ pc[slot[i]] \in {"mark", "lower_priority", "yield", "unlock_rw",
                              "unlock_slot"}
    /\ \A p \in Procs :
          /\ pc[p] = "sweep" => mode[p] = "shared"
          /\ pc[p] \in {"mark", "lower_priority", "yield"} /\ mode[p] = "shared"
                => HoldsSlot(p)

FilesMatchProgram ==
    /\ WqMatchesProgram
    /\ RwMatchesProgram
    /\ ExclusiveFlockAlone
    /\ SlotsMatchProgram

(* Liveness.                                                               *)

\* Where blocks end, an exclusive request that reached the head of the queue is
\* granted rw (or gives up): the holders it waits for drain, pollers without a
\* slot included, and nobody new joins.
QueuedWriterAdmitted ==
    BlockFairness =>
        \A p \in Procs :
            pc[p] = "flock_rw" /\ mode[p] = "exclusive" ~> pc[p] # "flock_rw"

\* Even where no block ends, a shared acquirer does not poll for ever beside a slot
\* that stays free, whichever slots the holders that never leave sit on.
NoPollBesideFreeSlot ==
    \A p \in Procs, i \in SlotPaths :
        ~<>[](pc[p] = "sweep" /\ slot[i] = Nobody)
=============================================================================
