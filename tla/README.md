# rola_devtools in TLA+

TLA+ modules, TLC configurations and TLAPS proofs for `rola_devtools`, the development tools the RoLA
repositories share: a declared build system, a timing system that runs as targets of it, the gates a change is
judged by (a drawn cell, a diff of two sides, a verdict over its timings), and the machine-wide locks they all take.
Line numbers below are of `src/rola_devtools/`.

## The system

| Component | State it keeps | Operations | What makes it correct |
|---|---|---|---|
| GPU lock (`locks/gpu.py`) | three kinds of `flock`ed files (`.wq`, `.rw`, `.slot<i>`), a marker in the environment | `gpu_lock(mode)` | a measurement is alone; correctness runs fit the slots; an exclusive request is not overtaken; nothing stays locked behind a process |
| Host budget (`locks/host.py`) | `Total` slot files, one admission mutex, a marker, the list `held` | `acquire(n, exclusive)` | every block has the slots it counts; an exclusive draw is alone; exclusive draws never wait on one another |
| File locks, priorities, CLI (`locks/host.py`) | one file a name | `file_lock`, `lower_priority`, `main` | one holder a name |
| Clock lock (`locks/clock.py`) | the host's clock, `_ENGAGED` | `lock`, `engage`, `within` | a measurement runs on the declared clock |
| Scheduler (`build/scheduler.py`, `build/__main__.py`) | `results`, `stopped` | `order`, `select`, `build` | a served entry is what a run would give; a failure stops and is reported; cleanup runs |
| Build cache (`build/cache.py`) | `keys/<key>` directories, `runs/<id>` workspaces | `get`, `put`, `workspace`, `sweep` | a hit is whole; eviction only costs work |
| Requirements (`build/resources.py`) | what the process holds | `hold(claims)` | claims in name order, released together, markers handed on |
| Runtime and workers (`build/runtime.py`, `build/worker.py`, `build/context.py`) | one worker an environment | `hello`, `run`, `verify`, `exit` | a request's variables are its own; a dead worker fails its target and is replaced |
| Timing (`timing/`) | the pool of entry workers, a session's members and samples | start/stop server, `measure`, `null_gate`, `memory` | interleaved, complete, nothing else on the device |
| Process trees (`process.py`) | none | `run`, `stop_tree` | nothing that was found is left running unkilled, nothing is killed unasked |
| Verdict (`verdict.py`) | the sessions stored | `session`, `paired_verdict`, `persistence`, `classify` | a regression is called for what persists and is significant, never for the stopwatch |
| Diff (`diff/`) | none | `produce`, `compare`, three strategies | a claim that held compared something, and what it compared is as its rule says |
| Carry draws and regimes (`cells/carry.py`, `cells/regimes.py`) | none | `carry_cell`, the draws, `prove` | a cell that is seen is in the regime it declares |
| Cell registry, other cells (`cells/__init__.py`, `cells/layer.py`, ...) | none | records derived from records, tensor draws | |
| Declarations, identities, store, config, mirror | none that changes | | |

How they meet: `build` runs targets one at a time; for each it computes a key from the job, the digest of its code
and its dependencies' keys and outputs, asks the cache, and otherwise holds the target's claims (the GPU lock, the
host budget, the clock) and sends a request to the worker of the target's environment. The timing targets run in
the build system's own worker and keep a pool of entry workers there between targets. Cells are drawn inside the
workers of both sides of a diff or a session; the diff targets compare what two side targets made of them, and the
verdict reads the sessions stored. Commands, and workers that do not exit when asked, are stopped as process trees.
Several builds, and tools outside any build, share one machine: they meet only in lock files and in the cache directory.

What is hard: every lock is a sequence of `flock` calls that other processes interleave with, that a signal may
interrupt and a kill end anywhere; two builds write one cache; entries, workers and targets fail part-way and the
rest goes on; a cached result must stay what a run would give through any sequence of edits and builds; `/proc` is
read one file at a time while what it lists forks and exits; and the gates decide by comparisons whose corner
cases (nothing compared, a slot that is no number, a stopwatch of coarse ticks, a row with no live digit) pass
silently when they are wrong.

## Modules

| Module | Models | Kind |
|---|---|---|
| `DeviceUse` | what the GPU lock promises: one exclusive user or at most `Capacity` shared ones | abstract |
| `GpuLock` | `gpu_lock`, one label of `pc` a point at which another process can see or change a lock file | implements `DeviceUse` |
| `CountingBudget` | what the host budget promises: a counting semaphore, each block one grant | abstract |
| `HostBudget` | `acquire`, slot by slot | implements `CountingBudget` |
| `BuildScheduler` | `build` over a sequence of builds and edits that share one cache | detailed |
| `BuildCache` | `get`, `put` and `sweep` of one key by concurrent builds, one file-system step at a time | detailed |
| `TimingSession` | the timing targets of one build over workers that may die | detailed |
| `BuildWorkers` | builds that share a machine: claims, requests to workers, the clock | composes `DeviceUse` and `CountingBudget` |
| `StopTree` | `run`, `descendants` and `stop_tree` over processes that fork, exit and change groups meanwhile | detailed |
| `CarryCell` | the declaration of a carry cell, every draw, and the proof of its regime | detailed |
| `Strategies` | the three comparison rules over slots that may be zero, signed zero, infinite or NaN | operators |
| `Diff` | a declared claim, its two sides over their cells, the comparison and its verdict | detailed |
| `Verdict` | a session's limit and paired test, persistence over sessions, the classification | detailed |
| `Gates` | composes `CarryCell`, `Diff` and `Verdict`, which share no state: each behaviour exercises one | composition |
| `MCGates`, `MCGpuLock`, `MCHostBudget`, `MCBuildScheduler`, `MCTimingSession`, `MCBuildWorkers` | constants for TLC | instances |
| `GpuLock_proofs`, `HostBudget_proofs`, `BuildScheduler_proofs`, `BuildCache_proofs`, `TimingSession_proofs`, `BuildWorkers_proofs`, `StopTree_proofs`, `Gates_proofs` | the theorems | proofs |

How state and actions correspond to the code:

- **GpuLock.** `wq`, `rw` and `slot` are the kernel's lock tables for the three files; `marker[p]` is the copy of
  `ROLA_GPU_LOCK_HELD` in the environment of process `p`. `LockWq`/`LockRw`/`UnlockWq` are the admission block
  (109-121), `TakeSlot`/`MissSlot`/`SweepAgain` the shared holder's polling (126-138), `Mark`..`UnlockSlot` the block
  and the two `finally`s. `Interrupt` is an exception where the call waits or runs a subprocess, `Die` a kill at any
  point, `Fork` a process started inside the lock, which inherits the marker, or outside it.
- **HostBudget.** `held[p]` is the list of slot files in the order they were locked; `want[p]` is `n` after
  clamping. Exclusive: `LockAdmission`, `LockSlot` for each file in order, `UnlockAdmission`. Plain: a sweep
  (`TryFree`, `TryBusy`), polling, a top-up sweep, `SweptEnough`. `CallNested` is a call under the marker, which is
  told the number it asked for whatever its process holds (123); nothing is stated about that number.
- **BuildScheduler.** `order` and `select` are operators over targets whose labels match; `Begin` applies them, as
  `main` does. One action for each way the loop body (136-193) ends for a target. An output is its provenance (job,
  version of its sources, outputs handed to it, a sample if uncached), so two outputs are equal exactly when a run could not
  tell them apart. `Begin` includes the sweep, `Escape` the exceptions outside the `try`.
- **BuildCache.** Directories are inodes with parts; `rmtree` works on the inode it opened, part by part. A crash
  leaves everything as it is. `keys/` lists an entry and the `.key.pid` directories beside it alike, so a sweep may
  evict either.
- **TimingSession.** One request to an entry worker is one step. `handle[m]` is the incarnation of the worker that
  member `m` was set up in; a worker started again in the same environment has set up nothing. `live[k]` is the
  `live` table of `serve` in `entry_worker.py`. `Wanted` and `Gated` are sequences, in the order entries were
  registered. Warm-up passes and reps are `pass`es; within a rep the order is any. `present` in a sample is history.
- **BuildWorkers.** `todo[b]` is the set of claim names `hold` still has to take, the first in name order next; `use`
  and `drawn` are what `DeviceUse` and `CountingBudget` grant, in place of the lock files. `base[b][e]` is the
  environment a worker was started with, `seen[b][e]` its environment during a request, both reduced to the lock-held
  markers. `Interrupt` is Ctrl-C, SIGTERM or a `SystemExit` of the clock command, which unwind; `Kill` is SIGKILL. A
  verify is a request that claims nothing. Whether an executor returned or raised is left out: the claims are
  released the same way.
- **StopTree.** `List` is the listing of `/proc`, `ReadStat` one stat file (which may be gone), `Walk` the closure
  over the parents read (40-53); `SignalGroup`, `SignalOne`, `AllSignalled` one round of a signal, `TreeGone` and
  `GraceOver` the wait after it, twice, then `Reap`. `Fork` and `Exit` are the command's processes at any time before
  the end, in the parent's group or a new one, orphans handed to the reaper. A pid is not reused.
- **CarryCell.** `DeclareCell` is `carry_cell` with its refusals. `DrawPlane` draws the read plane of a level and then the
  write plane, level by level; a plane is, of every token and head, the set of live digits, or `NaNRow` where there
  was nothing to normalise by. `Prove` is `regimes.prove`, axis by axis. What the amplitudes measure beyond their
  support (the coherence ratio, the concentration) is a band chosen freely within what the support allows.
- **Strategies, Diff.** A slot is a small integer, a negative zero, an infinity or NaN, with the comparisons of IEEE.
  `Declare` refuses what `diff()` refuses; `Produce(side)` makes a result of every cell (raised, nothing to compare,
  or named tensors), under the binding guard; `Compare` raises, or holds, or does not.
- **Verdict.** `Measure` reduces a session to its quantities, `Judge` classifies it as the last of those stored.
  Medians are kept doubled and ratios over `Scale`, so all comparisons are of integers; the signed ranks are
  enumerated exactly.

## Runs

| Run | Question | Bounds |
|---|---|---|
| `GpuLock_device` | safety of the files, the refinement of `DeviceUse`, no overtaking; the head of the queue moves, nobody polls beside a free slot | two processes and a child that has or has not inherited the marker, two slots: both modes against each other, a third beside them; 176,478 states |
| `HostBudget_draws` | safety of the pool, the refinement of `CountingBudget`; exclusive draws are served, nobody polls beside a free slot | two processes, three slots, asks of none, one and more than there are: plain against plain, against exclusive, two exclusive draws that each collect part of the pool; 18,415 states |
| `BuildScheduler_suite` | a build visits what was selected; the cache serves what a run would give; failure, cleanup, no needless run | seven targets (one job under two labels, a sampled one, a verified one, a group, a caching one over the group, an `always_run` one), whole, one report alone, or without its samples, three builds, one edit: run, edit, run and a plan or a forced build between; 290,286 states |
| `BuildScheduler_group` | violated: one tree reaches one key, where a caching target depends on a group | three targets that cache or are a group, two builds, no edit |
| `BuildCache_builds` | entries are whole unless an `rmtree` was at them; puts leave an entry | two builds, two puts each: put against put, get and sweep, either killed anywhere; 4,937,179 states |
| `BuildCache_killed` | violated: an entry is whole or absent once nobody is at work on the cache | as above |
| `TimingSession_build` | every ok member has a sample in every rep, was set up throughout, and measures alone | two targets, three entries in two environments, three passes, two deaths: enough for a death in one environment while the other is timed, and a second target after it; 467,316 states |
| `BuildWorkers_machine` | no circular wait, claims released however a target ends, a measurement alone, the clock, the markers | two builds of two targets in one environment, two starts of its worker, the builds interchangeable: a measurement, a correctness run, a refused claim and a verify against one another, and a second target in a worker started under the first one's locks; 573,899 states |
| `BuildWorkers_interrupted` | violated: a target holds its claims while its executor runs | as above |
| `StopTree_stop` | the tree is found, asked, killed and left; stopping ends | the command and three more processes: a child, a grandchild orphaned while it is read, and one forked after the listing; 1,044,089 states |
| `Gates_all` | a cell is in its regime; a claim that held is what it says; no violation by the stopwatch, no regression out of nowhere | 28 records (every draw, every axis, every kind of refusal, halves of a level of one digit), 34 claims over 13 results (one or two cells), up to four sessions of up to five rounds at a significance level of 3/16, which four rounds can reach and three cannot; 219,635 states |
| `Gates_minimum` | violated: `minimum` quantities were compared | one claim of "different" |

Deadlock is not checked: every process may have been killed, and builds, sessions and diffs end.

Bounds that appear in the modules: `MaxBuilds`, `MaxEdits` (BuildScheduler), `MaxPuts` (BuildCache), `MaxTargets`,
`MaxDeaths` (TimingSession), `MaxTargets`, `MaxStarts` (BuildWorkers), `MaxProcs` (StopTree), `MaxSessions` (Verdict).
The locks have none: their processes call for ever. The type invariants are theorems.

### Fairness

`LockFairness`: a process inside `gpu_lock` or `acquire` keeps executing its own code, because nothing there waits
for anything but a `flock` another process holds; the kernel wakes waiters, and a poller sleeps 10 ms and tries
again. It says nothing of blocks: `NoPollBesideFreeSlot` holds even where no block ends. `BlockFairness`, the
assumption of the properties about waiting for a holder, says that blocks end; for the host budget strongly, as a block
ends after finitely many nested draws. `WF(Stop)`: `stop_tree` waits for nothing without a deadline. Interrupts,
kills, forks and exits are never fair. An exclusive host draw can starve while plain draws keep coming (they may take
each slot it is woken for), so `ExclusiveDrawServed` is stated for the time after they stop.

### What the violated runs show

- `BuildScheduler_group`: a group has no key and its output is its members' statuses (`scheduler.py:140-145`), which
  enter the key of a caching target that depends on it (159). A member that ran in one build is served in the next, so
  the same tree reaches a second key and the target runs again; `scheduler.py:8-9` says that two checkouts of one tree
  reach one key. No result is wrong for it: the statuses are also what the executor is handed (171-175), so
  `CacheServesCurrent` and `NoSpuriousRerun` hold over groups too.
- `BuildCache_killed`: `put` (and a sweep) removes an entry with `rmtree`, which may remove `files/` before
  `output.json`; a kill between leaves an entry every later `get` takes for a hit.
- `BuildWorkers_interrupted`: an interrupt unwinds `resources.hold` before `Runtime.close` waits for the worker, which
  a signal to the build does not reach (`start_new_session`): for up to two minutes the executor measures while the
  GPU lock is free.
- `Gates_minimum`: `compare` counts every quantity of every usable cell, also those only one side produced, so two
  sides that share no quantity satisfy `minimum` and a claim of "different" is held.

## Proofs

Each theorem is of the specification the runs check, without its fairness, for every value of the constants.

| Module | Theorems | For every |
|---|---|---|
| `GpuLock_proofs` | `TypeCorrect`, `FilesCorrect`, `MeasurementIsAlone`, `SharedStaysWithinSlots`, `NothingIsLeftLocked`, `NeverOvertaken`, `LockImplementsDevice` | set of processes and roots, `Slots` in Nat |
| `HostBudget_proofs` | `TypeCorrect`, `FilesCorrect`, `ExclusiveDrawIsAlone`, `BlocksHaveTheirSlots`, `NothingIsLeftLocked`, `PoolImplementsBudget` | processes, `Total` in Nat \ {0}, asks in Nat |
| `BuildScheduler_proofs` | `TypeCorrect`, `BuildsVisitTheSelection`, `LoopCorrect`, `NothingIsBuiltOnFailure`, `FailuresAreReported`, `CleanupAlwaysRan`, `CacheIsTransparent`, `NothingIsRunTwice` | acyclic graph, selections, numbers of builds and edits |
| `BuildCache_proofs` | `TypeCorrect`, `CacheCorrect`, `EntriesAreNeverHalfWritten`, `PutsAlwaysLeaveAnEntry` | set of builds, number of puts |
| `TimingSession_proofs` | `TypeCorrect`, `SessionCorrect`, `EveryRepIsPaired`, `TheBarrierHolds`, `NothingIsLeftOnTheDevice` | environments, entries, passes, deaths |
| `BuildWorkers_proofs` | `TypeCorrect`, `HoldingsCorrect`, `NothingIsHeldBetweenTargets`, `ExecutorIsAlwaysTold`, `MeasurementIsAlone`, `ClockStaysOnUntilAnExit`, `BuildsNeverWaitInACircle`, `BuildsKeepToTheLocks`, `MachineIsNeverOvercommitted` | builds, environments, claims, slots |
| `StopTree_proofs` | `TypeCorrect`, `LineageIsAlwaysFound`, `TreeIsAlwaysStopped`, `TreeIsAskedFirst` | number of processes |
| `Gates_proofs`, the draw | `CellTypeCorrect`, `RegimesHoldAtTheLeaves`, `DrawsAreAlwaysWhereTheySay` | records: widths, tokens, heads, groups, counts, supports |
| the comparison | `DiffTypeCorrect`, `HeldIsAlwaysCompared`, `HeldSameIsAlwaysWithinTheRule`, `HeldDifferentIsAlwaysADifference` | claims, cells, results, rules |
| the timing | `VerdictTypeCorrect`, `ViolationsAreSlower`, `OneTickIsNeverAViolation`, `UndecidableIsAlwaysSaid`, `NoRegressionIsSudden` | sessions of any rounds of any samples, `Scale`, `AlphaNum`/`AlphaDen`, number of sessions |
| together | `GatesAreThree` | all of these |

The constants are assumed to be what their modules' `ASSUME`s say, which TLC evaluates on each instance; what else a
theorem assumes is named with it below. Every invariant and every action property a passing run checks is a theorem.

**The GPU lock.** None of the safety properties is inductive: that two processes are not both inside says nothing
of the files that keep them out. `FilesMatchProgram` strengthens them with what the files hold at each point of each
process: `wq` is held from its `flock` to its `finally` and then only (`WqMatchesProgram`), `rw` in the mode asked
for from its `flock` to its release (`RwMatchesProgram`), an exclusive flock beside no other
(`ExclusiveFlockAlone`), a slot by a shared holder from its sweep to its release (`SlotsMatchProgram`). Each action
preserves the four; the safety properties follow from them. That shared blocks fit the slots is a counting
argument: each shared holder has a slot of its own, an injection into `0 .. Slots - 1`. That the lock implements
`DeviceUse` shows each step to be a grant (`LockRw` of an exclusive request, `TakeSlot` of a shared one), a return
(`UnlockRw`, `Die`) or a stutter; a grant is legal because of the two invariants and the count.

**The host budget.** `FilesMatchProgram` says that a slot file is locked by a process exactly while it is in its
`held`, which names it once (`HeldIsLocked`); how many slots `held` has at each point (`HeldMatchesProgram`); that
an exclusive draw has collected every file before its position (`CollectsInOrder`), hence all of them in its block;
and that the admission mutex is held for the collection and then only (`AdmissionMatchesProgram`). An exclusive
block then has every slot, and any other block at least one. Small lemmas about appending to, taking the head of,
and searching a list without repetitions carry the steps that change `held`. The semaphore's count is not a sum over
processes but the size of the set of pairs of a process and a position in its list; what each pair names maps
the set into the slot files, injectively (`ListedFitSlots`), so a block never starts as more than is left.

**The scheduler.** `order()`, `select()` and the walk they share recur over the graph and along sequences, so
`Needs`, `Along` and `OrderFrom` are recursive functions. No induction is used: that such a function exists is shown
once (`RecursionExists`, for any well-founded set and any step that reads what is below only), and each fact about what
it computes from the least place where it would fail: a smallest index of a sequence, or, as `AcyclicAssumption` says
that among any targets one needs none of the others, a target whose own dependencies are right. Ordering a target then
appends what it needs and itself, once (`AppendOrdered`, `VisitAdds`, `OrderIsRight`); what is dropped is what was
skipped and all that needs it (`DroppedIsRight`), and `SelectIsRight` puts the two together into
`BuildsVisitTheSelection`. `LoopMatchesProgram` ties results and statuses to the place in `order`: what the loop has
visited has a status and nothing else has, the executor that runs is the one of the target the loop is at, and an
unstopped build has only usable results. `CacheMatchesKeys` (an entry holds what its key says) then makes the cache
transparent. `NothingIsRunTwice` needs that two different keys never stand for one output, through every build
and edit: `KeysMatchOutputs` keeps a history of pairs of a key and an output, closed under what each was made from, that
holds the cache and the results of an unstopped build. A pair is a group's, without a key, or a run's (`Lineage`), and
no group's output is a run's (`GroupsAreNotRuns`). Both theorems hold of every graph, groups under caching targets
included.

**The cache.** That an entry lacks a part only if an `rmtree` has been at it rests on where each build is: what a put
has written is there or was opened by a removal (`WrittenOrOpened`), a removal in a put takes all that is left before
the rename (`RemovalMatchesProgram`), and a put's own inode is not the entry before its rename
(`OwnMatchesProgram`). `PutsMatchEntry` adds that undisturbed there is a whole entry, or a put to come.

**The session.** `SamplesMatchPass`: each live member has its samples of every pass it is through with.
`PresenceMatchesPass`: a member absent when a sample was taken is absent since and has not been called since, so the
next pass over it fails the session; this is why only the last rep is left out. `CallablesMatchSession`: what is set
up in a worker's current incarnation is what the `finally` will drop.

**The builds on one machine.** `HoldingsMatchProgram`: the device and the budget are held exactly by the builds that
have taken those claims, claims are taken in name order with `host_cpu` last, a worker is busy only for the build that
waits for it or one that was interrupted, and whoever claims the clock has locked it. No circle of waiting builds
follows: a build that holds part of the budget has taken every claim, so it waits for nothing; where no waiting build
holds a part, whoever waits for the device waits for none that waits for the budget. `BuildsKeepToTheLocks` ties the
builds to the lock modules: every step of a build on the device or the budget, a kill included, is one that `DeviceUse`
and `CountingBudget` allow, the specifications `GpuLock` and `HostBudget` implement with files. What the two keep, of
builds of any number, is `MachineIsNeverOvercommitted`: shared users within the slots, counted one by one, and the
budget's pairs of a build and a slot, of which a grant adds as many as it draws (`GrantedGrows`).

**The process tree.** `Found` is the heart: of the processes listed that still have their parent, the parent was
listed too, what the stat file said is that parent, and the tree that holds the parent holds the child. The walk is
the least set closed under parents, and the lineage the kernel has, restricted to the listing, together with what the
walk never saw, is a closed set below it. `Asked` and `Killed` follow the two rounds over the same tree.

**The diff.** `HeldIsFound` carries the verdict back to what `compare` computed, and what remains is a statement
about one comparison: slot by slot, each strategy's verdict on numbers, infinities and NaN is put in terms of whole
numbers. `HeldIsAlwaysCompared` assumes `ResultsAreResults` (a side's function raises, gives nothing, or gives
tensors); the other two `ResultsHoldFloats` and `ClaimsTolerate` (slots are floats, tolerances natural numbers). The
instances of `Gates_all` meet all three.

**The draw.** `CellInv` says of every plane drawn so far that it fits its record: a row is within its level's digits,
has a live one, has as many as its count, and sits in the half, the head or the window its draw names (`RowFits`); and of
a seen cell that its planes are whole and that some bands within what they allow meet every axis declared. Each draw has a
lemma that its planes fit (`SimplexPlane`, `ClusteredPlane`, `CornerPlane`; a cohort's rows have exactly `k_tok` digits
because a labelling is one to one and less than a full turn meets no digit twice). From levels to leaves there are two
constructions: where each level has a common digit the digits make a common leaf, and one digit at one level extends to
a leaf as no row is empty; query heads meet write heads by division, which consecutive groups undo (`QueryHeads`). Both
regime theorems need no assumption but the records' own (`RecordsAssumption`: widths and tokens are positive, counts not
negative, the support a share in eighths). `DrawsAreAlwaysWhereTheySay` would be
false of a seen cell that halves a level of one digit (the halves are `{}` and `{0}`), but there is none: the
concentration of such a cell is no number, so it could only be seen as a cold read, and every digit of it is written
(`SeenHalves`); two records of `Gates_all` try it.

**The verdict.** `VerdictInv` carries a session measured to its judgement (`LatestIsMeasured`) and says that the last
session judged over its limit was judged so (`JudgementMatchesFlags`, from which `NoRegressionIsSudden` follows); what
remains is about one session, of rounds with at least one sample each, whole numbers (`SessionsAssumption`). An order statistic is what counting says (`OrderedCounts`). A median over one plus three
sigmas of the spread forces the lower quartile of the ratios over one (`QuartileIsAbove`: 6000 is more than four times
1349), so three rounds in four are slower; and where `p` differences are up and `f` down with `p >= 3 * f`, even the
least ranks `p` can have outweigh the rest (`SlowerByRanks`, by counting pairs of rounds). Against the tick: where no
round is slower by more than one tick, those same rounds have references too short for a tick to be over the limit, and
half of all references are as short, so the median is. `UndecidableIsAlwaysSaid` shows that the ramp of `n` positive
differences is matched by exactly two sign patterns of `2 ^ n` (`OnlyOneWay`), where the number of subsets is counted
by the library's theorem, and that powers of two grow, so the least `n` that decides exists within `MinRounds`'s range.

**The three gates together.** `GatesAreThree`: the composition the runs check implements each gate's own specification,
by the identity on its variables, so the theorems about a gate hold of `GatesSpec`.

**Only model-checked.** All liveness, which needs fairness and ENABLED: `QueuedWriterAdmitted`, both
`NoPollBesideFreeSlot`, `ExclusiveDrawServed` and `StopEnds`. The four properties the violated runs refute are
refuted by TLC's counterexamples.

## Not modelled, and why

The list with reasons is `components` in `PROJECT.json`. In short: the layer and attention cells and the values of a
draw are floating-point tensor code; config, mirror, store and identities read and write and keep no state; the cell
registry and the declarations are built in sequence before anything runs. Within the modelled parts, left out on
purpose:

- Edits while a build runs. A target is keyed before it waits for its resources; sources edited in between are
  cached under the older digest. `Edit` is therefore allowed between builds only, and `CacheServesCurrent` is
  stated under that assumption.
- A dependent of a group is handed the statuses of the members, never their outputs or directories, and is keyed by
  the statuses alone. What it may read of a member by other means (a path in its parameters) is outside its key and
  outside the model, as anything a target reads undeclared is.
- A target dropped by `--skip` drops the `always_run` targets that depend on it: skipping one session drops the stop
  of the timing server. `CleanupRan` is stated of the targets selected.
- After an exception outside the `try` of `build` (`Escape`) the build is aborted and its `always_run` targets do
  not run; `CleanupRan` is stated of builds that reach their end.
- What a `get` returns while another build works on the same entry (it may raise, or return a directory whose files
  are gone): modelled as outcomes, promised nowhere. The choice of what a sweep evicts is any.
- A worker that dies after its last call of a session's last rep is not noticed (`timing/executors.py:132`);
  `OkMembersAreAlwaysPresent` leaves the last rep out.
- `EntryWorker.ask` waits without a timeout (`timing/pool.py:41`): an entry that never returns holds its session.
- Locks an executor takes itself (a `gpu_lock` inside a target that holds `host_cpu` would reverse the name order), and
  the module state it leaves in its worker. `MeasurementAlone` is stated of executors whose build waits for them;
  `ClockOnUntilAnExit` ends at the first exit of a build, which unlocks the clock under any other that measures.
- Processes of the command's group that are not in its tree (orphans) are sent both signals only if the tree does not
  go at once: `TreeIsStopped` is of the tree, `process.py:7-8` speaks of descendants found.
- `gpu_shared_slots = 0` makes a shared acquirer poll for ever. The theorems hold for it.
- The exact test above twenty rounds, where `verdict.py` uses the normal approximation.

Where a comment or docstring and the code differ without a run that shows it:

- A worker started while locks are held keeps their markers: `serve` restores the environment it was started with, so
  a later target that claims nothing is told that its build holds the GPU, and a `gpu_lock` in a tool it starts is a
  no-op (`build/runtime.py:25-26`). `build/worker.py:15` says the markers are set for one request.
- `locks/host.py:131-133` motivates the admission mutex by a deadlock of two collections; collecting in one order
  excludes it too. The properties hold of the code as it is, with both.
- A finite candidate beside an infinite reference, or an infinite bound, is within a relative term
  (`diff/strategies.py:14-15`); `HeldSameIsWithinTheRule` is of the slots the reference and its bound are finite at.
  `bit_identical` takes a zero of either sign for the same (`diff/strategies.py:8,46`).
- `cells/carry.py`: a draw with `k_tok` of at least a level's width is dense there and declared sparse (85-92); a cold
  read accepts rows that are NaN because the live count was truncated to none (3, 138, 153-155); a cohort that does
  not divide the tokens raises in a reshape (167-169); half of a level of width one is no digit
  (255-259), which the proof of the regime refuses for another reason (`SeenHalves`). The records
  of `Gates_all` include the cohort that raises.
- `paired_verdict` takes its direction from the sum of the differences and its significance from their ranks
  (`verdict.py:117`), which may disagree; `ViolationIsSlower` is of sessions over their limit.
- `mirror.py`: an empty `ships` archives everything (95), the export directory is not cleared (94), and HEAD is read
  twice (89, 95). `config.py` caches the machine's file for the life of a process.

## What is left

1. The choice of what a sweep evicts: the byte budget over entries and `KEEP_RUNS` over workspaces.
2. The clock's `engage` for tools outside a build, beside builds that lock it.
3. An edit between the digest and the `put` of a running build, with an invariant that says which entries it spoils.
