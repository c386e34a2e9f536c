---------------------------- MODULE BuildWorkers ----------------------------
(***************************************************************************)
(* Builds that share a machine: each holds its target's claims             *)
(* (rola_devtools/build/resources.py), asks the worker of the target's     *)
(* environment to run it (runtime.py, worker.py), and lets go.  The GPU    *)
(* lock and the host budget are what they promise: DeviceUse and           *)
(* CountingBudget.                                                         *)
(*                                                                         *)
(* A build here starts outside every lock.  The environment of a process   *)
(* is modelled by the lock-held markers in it.                             *)
(***************************************************************************)
EXTENDS Naturals

CONSTANTS
    Builds,     \* the build processes
    Envs,       \* the environments targets declare
    Holds,      \* the claims a target may declare
    GpuSlots, BudgetSlots,
    MaxTargets, \* bound: targets of one build
    MaxStarts   \* bound: starts of the worker of one environment

ASSUME SlotsAssumption == GpuSlots \in Nat /\ BudgetSlots \in Nat \ {0}
ASSUME BoundsAssumption == MaxTargets \in Nat /\ MaxStarts \in Nat
ASSUME HoldsAssumption ==
    Holds \subseteq [clock : {"none", "all"}, gpu : {"none", "shared", "all"},
                     host_cpu : {"none", "some", "all", "too many"}]

VARIABLES
    pc,         \* pc[b]: what build b is doing
    job,        \* job[b]: the target under way: its environment and claims
    todo,       \* todo[b]: the names of the claims still to take
    ran,        \* ran[b]: targets begun
    interrupted,\* interrupted[b]: by a signal that unwinds
    use,        \* use[b]: how b holds the device
    drawn,      \* drawn[b]: the slots b holds
    clock,      \* the host's clock is on its lock
    engaged,    \* engaged[b]: b has locked it
    worker,     \* worker[b][e]: "none", "idle", "busy" or "dead"
    base,       \* base[b][e]: the markers the worker was started with
    seen,       \* seen[b][e]: the markers in its environment now
    starts      \* starts[b][e]: how often it was started

locks == <<use, drawn, clock, engaged>>
workers == <<worker, base, seen, starts>>
vars == <<pc, job, todo, ran, interrupted, locks, workers>>

Device == INSTANCE DeviceUse WITH Procs <- Builds, Capacity <- GpuSlots
Budget == INSTANCE CountingBudget WITH Procs <- Builds, Total <- BudgetSlots

Nothing == [env |-> "none", holds |-> [clock |-> "none", gpu |-> "none", host_cpu |-> "none"]]

Each(x) == [b \in Builds |-> x]
PerEnv(x) == [b \in Builds |-> [e \in Envs |-> x]]

Init ==
    /\ pc = Each("idle") /\ job = Each(Nothing) /\ todo = Each({}) /\ ran = Each(0)
    /\ interrupted = Each(FALSE)
    /\ Device!Init /\ Budget!Init
    /\ clock = FALSE /\ engaged = Each(FALSE)
    /\ worker = PerEnv("none") /\ base = PerEnv({}) /\ seen = PerEnv({}) /\ starts = PerEnv(0)

Goto(b, label) == pc' = [pc EXCEPT ![b] = label]

\* The markers in b's own environment: set on acquire, cleared on release.
Markers(b) == (IF use[b] # "none" THEN {"gpu"} ELSE {}) \union (IF drawn[b] > 0 THEN {"host_cpu"} ELSE {})

-----------------------------------------------------------------------------
(* Claims, taken in name order.                                            *)

Names == {"clock", "gpu", "host_cpu"}

Position == [clock |-> 1, gpu |-> 2, host_cpu |-> 3]

\* A verify of a cached output is a request that claims nothing.
Begin(b, e, h) ==
    /\ pc[b] = "idle" /\ ran[b] < MaxTargets
    /\ ran' = [ran EXCEPT ![b] = @ + 1]
    /\ job' = [job EXCEPT ![b] = [env |-> e, holds |-> h]]
    /\ todo' = [todo EXCEPT ![b] = {name \in Names : h[name] # "none"}]
    /\ Goto(b, "hold")
    /\ UNCHANGED <<interrupted, locks, workers>>

Claim(b, name) == job[b].holds[name]

InAnyOrder(b, name) == name \in todo[b]

InNameOrder(b, name) == name \in todo[b] /\ \A other \in todo[b] : Position[name] <= Position[other]

Taking(b, name) == pc[b] = "hold" /\ InNameOrder(b, name)

Took(b, name) ==
    /\ todo' = [todo EXCEPT ![b] = @ \ {name}]
    /\ UNCHANGED <<pc, job, ran, interrupted, workers>>

\* Once a process; a later claim finds it engaged.
TakeClock(b) ==
    /\ Taking(b, "clock")
    /\ clock' = (clock \/ ~engaged[b])
    /\ engaged' = [engaged EXCEPT ![b] = TRUE]
    /\ Took(b, "clock")
    /\ UNCHANGED <<use, drawn>>

TakeGpuShared(b) ==
    /\ Taking(b, "gpu")
    /\ Device!EnterShared(b)
    /\ Took(b, "gpu")
    /\ UNCHANGED <<drawn, clock, engaged>>

TakeGpu(b) ==
    /\ Taking(b, "gpu")
    /\ IF Claim(b, "gpu") = "all" THEN Device!EnterExclusive(b) ELSE Device!EnterShared(b)
    /\ Took(b, "gpu")
    /\ UNCHANGED <<drawn, clock, engaged>>

TakeHostCpu(b) ==
    /\ Taking(b, "host_cpu")
    /\ Claim(b, "host_cpu") # "too many"
    /\ \E k \in IF Claim(b, "host_cpu") = "all" THEN {BudgetSlots} ELSE 1 .. BudgetSlots :
          Budget!Grant(b, k)
    /\ Took(b, "host_cpu")
    /\ UNCHANGED <<use, clock, engaged>>

FailsHolding(b) == Goto(b, "idle")

\* The target fails: what was claimed is released, and the build goes on to
\* the targets that always run.
Fails(b) == Goto(b, "release")

ClaimRefused(b) ==
    /\ Taking(b, "host_cpu") /\ Claim(b, "host_cpu") = "too many"
    /\ Fails(b)
    /\ UNCHANGED <<job, todo, ran, interrupted, locks, workers>>

\* The command that locks the clock timed out, with or without an effect; b will
\* not unlock it.
ClockTimesOut(b) ==
    /\ Taking(b, "clock") /\ ~engaged[b]
    /\ clock' \in {clock, TRUE}
    /\ Fails(b)
    /\ UNCHANGED <<job, todo, ran, interrupted, use, drawn, engaged, workers>>

-----------------------------------------------------------------------------
(* The request, to the worker of the target's environment.                 *)

\* The worker is started if there is none or it is dead, with the markers of
\* this moment in its environment; the request sets them again for itself.
Fresh(b) == worker[b][job[b].env] # "idle"

AtStart(b) == IF Fresh(b) THEN Markers(b) ELSE base[b][job[b].env]

AskWith(b, markers) ==
    LET e == job[b].env IN
    /\ pc[b] = "hold" /\ todo[b] = {}
    /\ Fresh(b) => starts[b][e] < MaxStarts
    /\ starts' = [starts EXCEPT ![b][e] = IF Fresh(b) THEN @ + 1 ELSE @]
    /\ base' = [base EXCEPT ![b][e] = AtStart(b)]
    /\ seen' = [seen EXCEPT ![b][e] = AtStart(b) \union markers]
    /\ worker' = [worker EXCEPT ![b][e] = "busy"]
    /\ Goto(b, "asked")
    /\ UNCHANGED <<job, todo, ran, interrupted, locks>>

AskUnmarked(b) == AskWith(b, {})

Ask(b) == AskWith(b, Markers(b))

\* A new worker speaks another protocol, and is closed.
Refused(b) ==
    /\ pc[b] = "hold" /\ todo[b] = {}
    /\ Fresh(b)
    /\ Fails(b)
    /\ UNCHANGED <<job, todo, ran, interrupted, locks, workers>>

Gone(b) == pc[b] \in {"exited", "killed"}

\* The executor returned or raised: the reply, and the environment as it was.
\* A worker whose build is gone reads the end of its input next.
Serve(b, e) ==
    /\ worker[b][e] = "busy"
    /\ seen' = [seen EXCEPT ![b][e] = base[b][e]]
    /\ worker' = [worker EXCEPT ![b][e] = IF Gone(b) THEN "dead" ELSE "idle"]
    /\ UNCHANGED <<pc, job, todo, ran, interrupted, locks, base, starts>>

WorkerDies(b, e) ==
    /\ worker[b][e] \in {"idle", "busy"}
    /\ worker' = [worker EXCEPT ![b][e] = "dead"]
    /\ UNCHANGED <<pc, job, todo, ran, interrupted, locks, base, seen, starts>>

Answered(b) ==
    /\ pc[b] = "asked"
    /\ worker[b][job[b].env] \in {"idle", "dead"}
    /\ Goto(b, "release")
    /\ UNCHANGED <<job, todo, ran, interrupted, locks, workers>>

-----------------------------------------------------------------------------
(* Letting go: the exit stack, last claim first.                           *)

ReleaseHostCpu(b) ==
    /\ pc[b] = "release"
    /\ Budget!Release(b)
    /\ UNCHANGED <<pc, job, todo, ran, interrupted, use, clock, engaged, workers>>

ReleaseGpu(b) ==
    /\ pc[b] = "release" /\ drawn[b] = 0
    /\ Device!Leave(b)
    /\ UNCHANGED <<pc, job, todo, ran, interrupted, drawn, clock, engaged, workers>>

ReleasedWithClock(b) ==
    /\ pc[b] = "release" /\ Markers(b) = {}
    /\ Goto(b, IF interrupted[b] THEN "closing" ELSE "idle")
    /\ todo' = [todo EXCEPT ![b] = {}]
    /\ clock' = (clock /\ ~engaged[b])
    /\ engaged' = [engaged EXCEPT ![b] = FALSE]
    /\ UNCHANGED <<job, ran, interrupted, use, drawn, workers>>

\* The clock stays locked until the process exits.
Released(b) ==
    /\ pc[b] = "release" /\ Markers(b) = {}
    /\ Goto(b, IF interrupted[b] THEN "closing" ELSE "idle")
    /\ todo' = [todo EXCEPT ![b] = {}]
    /\ UNCHANGED <<job, ran, interrupted, locks, workers>>

\* The build is over; Runtime.close asks every worker to exit.
Finish(b) ==
    /\ pc[b] = "idle"
    /\ Goto(b, "closing")
    /\ UNCHANGED <<job, todo, ran, interrupted, locks, workers>>

\* A busy worker is waited for (Serve), or stopped with its tree.
Close(b, e) ==
    /\ pc[b] = "closing"
    /\ worker[b][e] \in {"idle", "busy"}
    /\ worker' = [worker EXCEPT ![b][e] = "dead"]
    /\ UNCHANGED <<pc, job, todo, ran, interrupted, locks, base, seen, starts>>

\* atexit: the clock is unlocked by a process that locked it.
Unlocks(b) ==
    /\ clock' = (clock /\ ~engaged[b])
    /\ engaged' = [engaged EXCEPT ![b] = FALSE]

Exit(b) ==
    /\ pc[b] = "closing"
    /\ \A e \in Envs : worker[b][e] \in {"none", "dead"}
    /\ Unlocks(b)
    /\ Goto(b, "exited")
    /\ UNCHANGED <<job, todo, ran, interrupted, use, drawn, workers>>

-----------------------------------------------------------------------------
(* What happens to a build from outside.                                   *)

\* Ctrl-C, SIGTERM (turned into SystemExit), a clock command that fails (a
\* SystemExit too): the build unwinds through the exit stack, then close.
Interrupt(b) ==
    /\ pc[b] \in {"hold", "asked", "release"}
    /\ interrupted' = [interrupted EXCEPT ![b] = TRUE]
    /\ Fails(b)
    /\ UNCHANGED <<job, todo, ran, locks, workers>>

\* b's workers when it is gone: an idle one reads the end of its input and
\* exits, a busy one runs on to the end of its request.
Orphaned(b) == [e \in Envs |-> IF worker[b][e] = "idle" THEN "dead" ELSE worker[b][e]]

\* A signal inside close: the process unwinds and exits.
InterruptClose(b) ==
    /\ pc[b] = "closing"
    /\ worker' = [worker EXCEPT ![b] = Orphaned(b)]
    /\ Unlocks(b)
    /\ Goto(b, "exited")
    /\ UNCHANGED <<job, todo, ran, interrupted, use, drawn, base, seen, starts>>

\* SIGKILL: the kernel drops its locks; nothing unlocks the clock.
Kill(b) ==
    /\ ~Gone(b)
    /\ Goto(b, "killed")
    /\ use' = [use EXCEPT ![b] = "none"]
    /\ drawn' = [drawn EXCEPT ![b] = 0]
    /\ worker' = [worker EXCEPT ![b] = Orphaned(b)]
    /\ UNCHANGED <<job, todo, ran, interrupted, clock, engaged, base, seen, starts>>

Next ==
    \E b \in Builds :
        \/ \E e \in Envs, h \in Holds : Begin(b, e, h)
        \/ TakeClock(b) \/ TakeGpu(b) \/ TakeHostCpu(b)
        \/ ClaimRefused(b) \/ ClockTimesOut(b)
        \/ Ask(b) \/ Refused(b) \/ Answered(b)
        \/ \E e \in Envs : Serve(b, e) \/ WorkerDies(b, e) \/ Close(b, e)
        \/ ReleaseHostCpu(b) \/ ReleaseGpu(b) \/ Released(b)
        \/ Finish(b) \/ Exit(b)
        \/ Interrupt(b) \/ InterruptClose(b) \/ Kill(b)

Spec == Init /\ [][Next]_vars

TypeOK ==
    /\ pc \in [Builds -> {"idle", "hold", "asked", "release", "closing", "exited", "killed"}]
    /\ job \in [Builds -> {Nothing} \union [env : Envs, holds : Holds]]
    /\ todo \in [Builds -> SUBSET Names]
    /\ ran \in [Builds -> 0 .. MaxTargets]
    /\ interrupted \in [Builds -> BOOLEAN]
    /\ use \in [Builds -> {"none", "shared", "exclusive"}]
    /\ drawn \in [Builds -> 0 .. BudgetSlots]
    /\ clock \in BOOLEAN /\ engaged \in [Builds -> BOOLEAN]
    /\ worker \in [Builds -> [Envs -> {"none", "idle", "busy", "dead"}]]
    /\ base \in [Builds -> [Envs -> SUBSET {"gpu", "host_cpu"}]]
    /\ seen \in [Builds -> [Envs -> SUBSET {"gpu", "host_cpu"}]]
    /\ starts \in [Builds -> [Envs -> 0 .. MaxStarts]]

-----------------------------------------------------------------------------
(* Safety.                                                                 *)

\* The executor of b's target runs.
Executes(b) == \E e \in Envs : worker[b][e] = "busy"

Waits(b) == pc[b] = "hold" /\ todo[b] # {}

\* b's next claim is of something that a build of S holds a part of.
WaitsFor(b, S) ==
    \/ Taking(b, "gpu") /\ \E h \in S : use[h] # "none"
    \/ Taking(b, "host_cpu") /\ \E h \in S : drawn[h] > 0

\* No builds wait for one another's claims in a circle: some member of any set
\* of waiting builds waits for nothing that a member holds.  This is what the
\* name order is for (resources.py:12).
NoCircularWait ==
    \A S \in (SUBSET Builds) \ {{}} :
        (\A b \in S : Waits(b)) => \E b \in S : ~WaitsFor(b, S)

\* However a target ended (refused claim, dead worker, error, signal), its build
\* goes on to the next one, or to its close, holding nothing.
NothingHeldBetweenTargets ==
    \A b \in Builds : pc[b] \in {"idle", "closing", "exited", "killed"} =>
        use[b] = "none" /\ drawn[b] = 0

\* A measurement is alone from the request to the reply: while a build waits for
\* the executor of a target that claims the whole device, no other build waits
\* for one that claims a part of it.
MeasurementAlone ==
    \A b, c \in Builds :
        /\ b # c /\ Executes(b) /\ Executes(c)
        /\ pc[b] = "asked" /\ pc[c] = "asked"
        /\ job[b].holds.gpu = "all"
        => job[c].holds.gpu = "none"

\* The clock is on its lock whenever the executor of a target that claims it
\* runs, whichever target of whichever build locked it, until a process that
\* locked it exits.
ClockOnUntilAnExit ==
    (\A b \in Builds : pc[b] # "exited") =>
        \A b \in Builds : Executes(b) /\ job[b].holds.clock = "all" => clock

\* A tool that the executor starts is told every lock its build holds, whether
\* the worker is new or was started under other locks: it would wait for its own
\* build otherwise.
ExecutorIsToldItsLocks ==
    \A b \in Builds, e \in Envs :
        worker[b][e] = "busy" /\ pc[b] = "asked" => Markers(b) \subseteq seen[b][e]

(* What the docs say of the code, where the code does otherwise.           *)

\* "what a target holds while it runs" (resources.py:1): the executor of a
\* target that claims the device runs only while its build holds it.
HeldWhileItRuns ==
    \A b \in Builds :
        Executes(b) /\ job[b].holds.gpu # "none" /\ pc[b] # "killed" => use[b] # "none"
=============================================================================
