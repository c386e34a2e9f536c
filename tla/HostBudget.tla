----------------------------- MODULE HostBudget -----------------------------
(***************************************************************************)
(* acquire() of rola_devtools/locks/host.py: a pool of slot files, each    *)
(* flock'd exclusively by the process that draws it.                       *)
(*                                                                         *)
(* A plain draw of n sweeps the pool without waiting and takes up to n; if *)
(* it got none it polls until one slot comes free, then sweeps once more.  *)
(* An exclusive draw waits for every slot in turn, under an admission      *)
(* mutex only exclusive draws take.                                        *)
(*                                                                         *)
(* at[p] is the loop variable i of whichever loop p is in, 0 outside one;  *)
(* held[p] is the list `held`, released in its order.                      *)
(***************************************************************************)
EXTENDS Naturals, Sequences

CONSTANTS
    Procs,      \* every process that draws
    Total,      \* budget_slots()
    Asks,       \* the values of n callers pass
    Nobody      \* no process

ASSUME TotalAssumption  == Total \in Nat \ {0}
ASSUME AsksAssumption   == Asks \subseteq Nat
ASSUME NobodyAssumption == Nobody \notin Procs

VARIABLES
    pc,         \* pc[p]: where in acquire process p is
    exclusive,  \* exclusive[p]: the flag of p's call
    want,       \* want[p]: n, clamped
    at,         \* at[p]: the slot p's loop is at
    held,       \* held[p]: the slots p has locked, in the order it got them
    yielded,    \* yielded[p]: what the innermost acquire gave p's block
    admission,  \* the process holding rola_host_budget_exclusive.lock
    slot        \* slot[i]: the process holding slot file i

vars == <<pc, exclusive, want, at, held, yielded, admission, slot>>

Slots == 0 .. Total - 1

Sweeps == {"sweep", "poll", "top_up"}

Labels == Sweeps \union
    {"outside", "flock_admission", "collect", "unlock_admission",
     "yield", "nested", "release", "dead"}

TypeOK ==
    /\ pc \in [Procs -> Labels]
    /\ exclusive \in [Procs -> BOOLEAN]
    /\ want \in [Procs -> 1 .. Total]
    /\ at \in [Procs -> 0 .. Total]
    /\ held \in [Procs -> Seq(Slots)]
    /\ yielded \in [Procs -> Nat]
    /\ admission \in Procs \union {Nobody}
    /\ slot \in [Slots -> Procs \union {Nobody}]

Init ==
    /\ pc = [p \in Procs |-> "outside"]
    /\ exclusive = [p \in Procs |-> FALSE]
    /\ want = [p \in Procs |-> 1]
    /\ at = [p \in Procs |-> 0]
    /\ held = [p \in Procs |-> <<>>]
    /\ yielded = [p \in Procs |-> 0]
    /\ admission = Nobody
    /\ slot = [i \in Slots |-> Nobody]

Goto(p, label) == pc' = [pc EXCEPT ![p] = label]

AtLeastOne(n) == IF n < 1 THEN 1 ELSE n

AtMostTotal(n) == IF n > Total THEN Total ELSE n

\* n = total if exclusive else max(1, min(n, total))
Clamp(n, x) == IF x THEN Total ELSE AtLeastOne(AtMostTotal(n))

Enough(p) == Len(held[p]) >= want[p]

LockSlotAtUnasked(p) ==
    /\ at[p] \in Slots
    /\ slot' = [slot EXCEPT ![at[p]] = p]
    /\ held' = [held EXCEPT ![p] = Append(@, at[p])]

\* flock(2) grants process p the slot its loop is at.
LockSlotAt(p) ==
    /\ at[p] \in Slots
    /\ slot[at[p]] = Nobody
    /\ slot' = [slot EXCEPT ![at[p]] = p]
    /\ held' = [held EXCEPT ![p] = Append(@, at[p])]

-----------------------------------------------------------------------------

Call(p, n, x) ==
    /\ pc[p] = "outside"
    /\ exclusive' = [exclusive EXCEPT ![p] = x]
    /\ want' = [want EXCEPT ![p] = Clamp(n, x)]
    /\ at' = [at EXCEPT ![p] = 0]
    /\ Goto(p, IF x THEN "flock_admission" ELSE "sweep")
    /\ UNCHANGED <<held, yielded, admission, slot>>

\* Under the marker acquire is a no-op that yields what it was asked for.
CallNested(p, n, x) ==
    /\ pc[p] = "yield"
    /\ yielded' = [yielded EXCEPT ![p] = IF x THEN Total ELSE AtLeastOne(n)]
    /\ Goto(p, "nested")
    /\ UNCHANGED <<exclusive, want, at, held, admission, slot>>

EndNested(p) ==
    /\ pc[p] = "nested"
    /\ yielded' = [yielded EXCEPT ![p] = Len(held[p])]
    /\ Goto(p, "yield")
    /\ UNCHANGED <<exclusive, want, at, held, admission, slot>>

(* The exclusive draw: admission, every slot in order, admission let go.   *)

LockAdmissionFromOne(p) ==
    /\ pc[p] = "flock_admission"
    /\ admission = Nobody
    /\ admission' = p
    /\ at' = [at EXCEPT ![p] = 1]
    /\ Goto(p, "collect")
    /\ UNCHANGED <<exclusive, want, held, yielded, slot>>

LockAdmission(p) ==
    /\ pc[p] = "flock_admission"
    /\ admission = Nobody
    /\ admission' = p
    /\ Goto(p, "collect")
    /\ UNCHANGED <<exclusive, want, at, held, yielded, slot>>

LockSlot(p) ==
    /\ pc[p] = "collect"
    /\ LockSlotAt(p)
    /\ at' = [at EXCEPT ![p] = @ + 1]
    /\ Goto(p, IF at[p] + 1 = Total THEN "unlock_admission" ELSE "collect")
    /\ UNCHANGED <<exclusive, want, yielded, admission>>

UnlockAdmissionOnSuccess(p) ==
    /\ pc[p] = "unlock_admission"
    /\ IF at[p] = Total
       THEN /\ admission' = Nobody
            /\ yielded' = [yielded EXCEPT ![p] = Len(held[p])]
            /\ Goto(p, "yield")
       ELSE /\ Goto(p, "release")
            /\ UNCHANGED <<yielded, admission>>
    /\ at' = [at EXCEPT ![p] = 0]
    /\ UNCHANGED <<exclusive, want, held, slot>>

\* Reached with every slot, or with some when the collection was interrupted.
UnlockAdmission(p) ==
    /\ pc[p] = "unlock_admission"
    /\ admission' = Nobody
    /\ IF at[p] = Total
       THEN /\ yielded' = [yielded EXCEPT ![p] = Len(held[p])]
            /\ Goto(p, "yield")
       ELSE /\ Goto(p, "release")
            /\ UNCHANGED yielded
    /\ at' = [at EXCEPT ![p] = 0]
    /\ UNCHANGED <<exclusive, want, held, slot>>

(* The plain draw: LOCK_NB tries, one slot file after another.  The poll    *)
(* stops at its first slot and leaves the rest to the top-up sweep, whose   *)
(* try of the slot already held fails like any other.                       *)

TryFree(p) ==
    /\ pc[p] \in Sweeps
    /\ ~Enough(p)
    /\ LockSlotAt(p)
    /\ IF pc[p] = "poll"
       THEN at' = [at EXCEPT ![p] = 0] /\ Goto(p, "top_up")
       ELSE at' = [at EXCEPT ![p] = @ + 1] /\ UNCHANGED pc
    /\ UNCHANGED <<exclusive, want, yielded, admission>>

TryBusyPinned(p) ==
    /\ pc[p] \in Sweeps
    /\ ~Enough(p)
    /\ at[p] \in Slots
    /\ slot[at[p]] # Nobody
    /\ at' = [at EXCEPT ![p] = IF pc[p] = "poll" THEN 0 ELSE @ + 1]
    /\ UNCHANGED <<pc, exclusive, want, held, yielded, admission, slot>>

TryBusy(p) ==
    /\ pc[p] \in Sweeps
    /\ ~Enough(p)
    /\ at[p] \in Slots
    /\ slot[at[p]] # Nobody
    /\ at' = [at EXCEPT ![p] = @ + 1]
    /\ UNCHANGED <<pc, exclusive, want, held, yielded, admission, slot>>

SweptInVainGoesOn(p) ==
    /\ pc[p] \in {"sweep", "poll"}
    /\ at[p] = Total
    /\ held[p] = <<>>
    /\ Goto(p, "yield")
    /\ UNCHANGED <<exclusive, want, at, held, yielded, admission, slot>>

\* A sweep that found nothing is followed by polling, 10 ms apart.
SweptInVain(p) ==
    /\ pc[p] \in {"sweep", "poll"}
    /\ at[p] = Total
    /\ held[p] = <<>>
    /\ at' = [at EXCEPT ![p] = 0]
    /\ Goto(p, "poll")
    /\ UNCHANGED <<exclusive, want, held, yielded, admission, slot>>

SweptEnough(p) ==
    /\ pc[p] \in Sweeps
    /\ Enough(p) \/ at[p] = Total
    /\ held[p] # <<>>
    /\ yielded' = [yielded EXCEPT ![p] = Len(held[p])]
    /\ at' = [at EXCEPT ![p] = 0]
    /\ Goto(p, "yield")
    /\ UNCHANGED <<exclusive, want, held, admission, slot>>

(* The way out.                                                            *)

EndBlock(p) ==
    /\ pc[p] = "yield"
    /\ yielded' = [yielded EXCEPT ![p] = 0]
    /\ Goto(p, "release")
    /\ UNCHANGED <<exclusive, want, at, held, admission, slot>>

ReleaseOne(p) ==
    /\ pc[p] = "release"
    /\ held[p] # <<>>
    /\ slot' = [slot EXCEPT ![Head(held[p])] = Nobody]
    /\ held' = [held EXCEPT ![p] = Tail(@)]
    /\ UNCHANGED <<pc, exclusive, want, at, yielded, admission>>

Released(p) ==
    /\ pc[p] = "release"
    /\ held[p] = <<>>
    /\ Goto(p, "outside")
    /\ UNCHANGED <<exclusive, want, at, held, yielded, admission, slot>>

-----------------------------------------------------------------------------
(* What happens to a process from outside.                                 *)

\* An exception where acquire waits: the finally clauses release what it got.
Interrupt(p) ==
    /\ \/ pc[p] = "collect" /\ Goto(p, "unlock_admission")
       \/ pc[p] \in Sweeps \union {"flock_admission"} /\ Goto(p, "release")
    /\ UNCHANGED <<exclusive, want, at, held, yielded, admission, slot>>

\* SIGKILL at any point: the kernel closes its descriptors.
Die(p) ==
    /\ pc[p] # "dead"
    /\ slot' = [i \in Slots |-> IF slot[i] = p THEN Nobody ELSE slot[i]]
    /\ admission' = IF admission = p THEN Nobody ELSE admission
    /\ held' = [held EXCEPT ![p] = <<>>]
    /\ yielded' = [yielded EXCEPT ![p] = 0]
    /\ Goto(p, "dead")
    /\ UNCHANGED <<exclusive, want, at>>

-----------------------------------------------------------------------------

\* The steps of acquire's own code, which a running process keeps taking.
LockStep(p) ==
    \/ LockAdmission(p) \/ LockSlot(p) \/ UnlockAdmission(p)
    \/ TryFree(p) \/ TryBusy(p) \/ SweptInVain(p) \/ SweptEnough(p)
    \/ ReleaseOne(p) \/ Released(p)

Next ==
    \E p \in Procs :
        \/ \E n \in Asks, x \in BOOLEAN : Call(p, n, x) \/ CallNested(p, n, x)
        \/ LockStep(p)
        \/ EndNested(p)
        \/ EndBlock(p)
        \/ Interrupt(p)
        \/ Die(p)

Spec == Init /\ [][Next]_vars

\* A process inside acquire keeps running; a block may hold for ever.
LockFairness == \A p \in Procs : WF_vars(LockStep(p))

\* Blocks end as well, after as many nested draws as they make.
BlockFairness == \A p \in Procs : WF_vars(EndNested(p)) /\ SF_vars(EndBlock(p))

LiveSpec == Spec /\ LockFairness

-----------------------------------------------------------------------------
(* Safety.                                                                 *)

InBlock(p) == pc[p] \in {"yield", "nested"}

\* An exclusive draw has the host to itself: while its block runs no other
\* process's block does.
DrawAlone ==
    \A p, q \in Procs : InBlock(p) /\ exclusive[p] /\ InBlock(q) => p = q

\* A block never runs with zero slots nor with more than were asked for, and
\* every slot it counts is a different file that it has locked.
BlockHasItsSlots ==
    \A p \in Procs : InBlock(p) =>
        /\ Len(held[p]) \in 1 .. want[p]
        /\ \A j, k \in DOMAIN held[p] : held[p][j] = held[p][k] => j = k
        /\ \A k \in DOMAIN held[p] : slot[held[p][k]] = p

\* Whatever way a process left acquire, it left no slot and no admission mutex
\* locked behind it.
NothingLeftLocked ==
    \A p \in Procs : pc[p] \in {"outside", "flock_admission", "dead"} =>
        admission # p /\ \A i \in Slots : slot[i] # p

\* The pool implements the counting semaphore: however the slot-by-slot draws
\* interleave, a block starts as one grant of what is left.
Budget == INSTANCE CountingBudget WITH
    drawn <- [p \in Procs |-> IF InBlock(p) THEN Len(held[p]) ELSE 0]

ImplementsCountingBudget == Budget!Spec

(* Why the budget is safe: the files agree with each process's `held`.     *)

\* The admission mutex is held from its flock to its finally, and then only.
AdmissionMatchesProgram ==
    \A p \in Procs : admission = p <=> pc[p] \in {"collect", "unlock_admission"}

\* A slot file is locked by p exactly while it is in `held` of p, which names it
\* once.
HeldIsLocked ==
    \A p \in Procs :
        /\ \A k \in DOMAIN held[p] : slot[held[p][k]] = p
        /\ \A j, k \in DOMAIN held[p] : held[p][j] = held[p][k] => j = k
        /\ \A i \in Slots : slot[i] = p => \E k \in DOMAIN held[p] : held[p][k] = i

\* How many slots `held` has at each point: none outside, none while polling, as
\* many as the loop has passed while an exclusive draw collects.
HeldMatchesProgram ==
    \A p \in Procs :
        /\ pc[p] \in {"outside", "flock_admission", "poll", "dead"} => held[p] = <<>>
        /\ pc[p] \in {"top_up", "yield", "nested"} => held[p] # <<>>
        /\ pc[p] \in {"collect", "unlock_admission"} => at[p] = Len(held[p])
        /\ pc[p] \in {"flock_admission", "collect"} => at[p] < Total
        /\ pc[p] = "flock_admission" => at[p] = 0
        /\ pc[p] \in Sweeps => ~exclusive[p]
        /\ pc[p] \in {"flock_admission", "collect", "unlock_admission"} => exclusive[p]
        /\ exclusive[p] => want[p] = Total
        /\ exclusive[p] /\ pc[p] \in {"yield", "nested"} => Len(held[p]) = Total
        /\ Len(held[p]) <= want[p]

\* What an exclusive draw has collected is every slot file up to its loop's.
CollectsInOrder ==
    \A p \in Procs :
        /\ pc[p] \in {"collect", "unlock_admission"} =>
              \A i \in Slots : i < at[p] => slot[i] = p
        /\ exclusive[p] /\ pc[p] \in {"yield", "nested"} =>
              \A i \in Slots : slot[i] = p

FilesMatchProgram ==
    /\ AdmissionMatchesProgram
    /\ HeldIsLocked
    /\ HeldMatchesProgram
    /\ CollectsInOrder

(* Liveness.                                                               *)

\* No plain draw is trying for slots or holding them.
NoPlainDraw ==
    \A p \in Procs : ~exclusive[p] => pc[p] \in {"outside", "dead"}

\* Where blocks end, and once plain draws stop coming, an exclusive draw that was
\* admitted is served or gives up, and admission passes to the next; exclusive
\* draws alone never wait on one another in a circle.  (While plain draws keep
\* coming they can take every slot an exclusive draw is woken for.)
ExclusiveDrawServed ==
    BlockFairness /\ <>[]NoPlainDraw =>
        \A p \in Procs : pc[p] = "collect" ~> admission # p

\* Even where no block ends, a plain draw does not poll for ever beside a slot that
\* stays free.
NoPollBesideFreeSlot ==
    \A p \in Procs, i \in Slots :
        ~<>[](pc[p] = "poll" /\ slot[i] = Nobody)
=============================================================================
