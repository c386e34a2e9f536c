------------------------- MODULE BuildWorkers_proofs -------------------------
(* Proofs about BuildWorkers, for every set of builds, environments and       *)
(* claims: what a build holds follows its claims, so a measurement is alone,  *)
(* nothing stays held between targets, and no builds wait in a circle.        *)
EXTENDS BuildWorkers, FiniteSetTheorems, TLAPS

\* Updating one environment of one build.
LEMMA NestedExcept ==
  ASSUME NEW A, NEW B, NEW S, NEW f \in [A -> [B -> S]], NEW a, NEW b, NEW v \in S
  PROVE  [f EXCEPT ![a][b] = v] \in [A -> [B -> S]]
OBVIOUS

LEMMA InitType == Init => TypeOK
<1> SUFFICES ASSUME Init PROVE TypeOK
  OBVIOUS
<1>1. pc \in [Builds -> {"idle", "hold", "asked", "release", "closing", "exited", "killed"}] /\ interrupted \in [Builds -> BOOLEAN]
  BY DEF Init, Each
<1>2. job \in [Builds -> {Nothing} \union [env : Envs, holds : Holds]]
  BY DEF Init, Each
<1>3. todo \in [Builds -> SUBSET Names] /\ ran \in [Builds -> 0 .. MaxTargets]
  BY BoundsAssumption DEF Init, Each
<1>4. use \in [Builds -> {"none", "shared", "exclusive"}] /\ drawn \in [Builds -> 0 .. BudgetSlots]
  BY SlotsAssumption DEF Init, Device!Init, Budget!Init
<1>5. clock \in BOOLEAN /\ engaged \in [Builds -> BOOLEAN]
  BY DEF Init, Each
<1>6. worker \in [Builds -> [Envs -> {"none", "idle", "busy", "dead"}]]
  BY DEF Init, PerEnv
<1>7. starts \in [Builds -> [Envs -> 0 .. MaxStarts]]
  BY BoundsAssumption DEF Init, PerEnv
<1>8. base \in [Builds -> [Envs -> SUBSET {"gpu", "host_cpu"}]] /\ seen \in [Builds -> [Envs -> SUBSET {"gpu", "host_cpu"}]]
  BY DEF Init, PerEnv
<1> QED
  BY <1>1, <1>2, <1>3, <1>4, <1>5, <1>6, <1>7, <1>8 DEF TypeOK

\* A draw of the budget, without the budget's own counting.
LEMMA HostCpuTaken ==
  ASSUME NEW b \in Builds, TakeHostCpu(b)
  PROVE  /\ \E k \in 1 .. BudgetSlots : drawn' = [drawn EXCEPT ![b] = k]
         /\ pc[b] = "hold" /\ InNameOrder(b, "host_cpu")
         /\ todo' = [todo EXCEPT ![b] = @ \ {"host_cpu"}]
         /\ UNCHANGED <<pc, job, ran, interrupted, use, clock, engaged, workers>>
<1> BudgetSlots \in Nat /\ BudgetSlots > 0
  BY SlotsAssumption
<1>1. PICK k \in IF Claim(b, "host_cpu") = "all" THEN {BudgetSlots} ELSE 1 .. BudgetSlots : Budget!Grant(b, k)
  BY DEF TakeHostCpu
<1>2. k \in 1 .. BudgetSlots
  BY <1>1
<1>3. \E n \in 1 .. BudgetSlots : drawn' = [drawn EXCEPT ![b] = n]
  BY <1>1, <1>2 DEF Budget!Grant
<1> QED
  BY <1>3 DEF TakeHostCpu, Took, Taking

LEMMA StepType == TypeOK /\ [Next]_vars => TypeOK'
<1> SUFFICES ASSUME TypeOK, [Next]_vars PROVE TypeOK'
  OBVIOUS
<1>1. ASSUME NEW b \in Builds, NEW e \in Envs, NEW h \in Holds, Begin(b, e, h) PROVE TypeOK'
  <2>1. ran' \in [Builds -> 0 .. MaxTargets]
    BY <1>1, BoundsAssumption DEF Begin, TypeOK
  <2>2. job' \in [Builds -> {Nothing} \union [env : Envs, holds : Holds]]
    BY <1>1 DEF Begin, TypeOK
  <2>3. todo' \in [Builds -> SUBSET Names]
    BY <1>1 DEF Begin, TypeOK
  <2> QED
    BY <1>1, <2>1, <2>2, <2>3 DEF Begin, TypeOK, Goto, locks, workers
<1>2. ASSUME NEW b \in Builds, TakeClock(b) PROVE TypeOK'
  BY <1>2 DEF TakeClock, Took, TypeOK, workers
<1>3. ASSUME NEW b \in Builds, TakeGpu(b) PROVE TypeOK'
  BY <1>3 DEF TakeGpu, Took, TypeOK, workers, Device!EnterExclusive, Device!EnterShared
<1>4. ASSUME NEW b \in Builds, TakeHostCpu(b) PROVE TypeOK'
  <2>1. PICK k \in 1 .. BudgetSlots : drawn' = [drawn EXCEPT ![b] = k]
    BY <1>4, HostCpuTaken
  <2>2. drawn' \in [Builds -> 0 .. BudgetSlots]
    BY <2>1, SlotsAssumption DEF TypeOK
  <2> QED
    <3>1. todo' = [todo EXCEPT ![b] = @ \ {"host_cpu"}]
      BY <1>4, HostCpuTaken
    <3>2. todo' \in [Builds -> SUBSET Names]
      BY <3>1 DEF TypeOK
    <3> QED
      BY <1>4, <2>2, <3>2, HostCpuTaken DEF TypeOK, workers
<1>5. ASSUME NEW b \in Builds, ClaimRefused(b) PROVE TypeOK'
  BY <1>5 DEF ClaimRefused, Taking, Fails, TypeOK, Goto, locks, workers
<1>6. ASSUME NEW b \in Builds, ClockTimesOut(b) PROVE TypeOK'
  BY <1>6 DEF ClockTimesOut, Taking, Fails, TypeOK, Goto, workers
<1>7. ASSUME NEW b \in Builds, Ask(b) PROVE TypeOK'
  <2> DEFINE env == job[b].env
  <2>1. Markers(b) \subseteq {"gpu", "host_cpu"}
    BY DEF Markers
  <2>2. worker' \in [Builds -> [Envs -> {"none", "idle", "busy", "dead"}]]
    BY <1>7, NestedExcept DEF Ask, AskWith, TypeOK
  <2>3. starts' \in [Builds -> [Envs -> 0 .. MaxStarts]]
    <3>1. env \in Envs => (IF Fresh(b) THEN starts[b][env] + 1 ELSE starts[b][env]) \in 0 .. MaxStarts
      BY <1>7, BoundsAssumption DEF Ask, AskWith, TypeOK
    <3>2. starts' = [starts EXCEPT ![b][env] = IF Fresh(b) THEN starts[b][env] + 1 ELSE starts[b][env]]
      BY <1>7 DEF Ask, AskWith
    <3> QED
      BY <3>1, <3>2 DEF TypeOK
  <2>4. env \in Envs => AtStart(b) \subseteq {"gpu", "host_cpu"}
    BY <2>1 DEF AtStart, TypeOK
  <2>5. base' \in [Builds -> [Envs -> SUBSET {"gpu", "host_cpu"}]]
    <3> DEFINE first == AtStart(b)
    <3>1. env \in Envs => first \in SUBSET {"gpu", "host_cpu"}
      BY <2>4
    <3>2. base' = [base EXCEPT ![b][env] = first]
      BY <1>7 DEF Ask, AskWith
    <3> HIDE DEF first, env
    <3> QED
      BY <3>1, <3>2 DEF TypeOK
  <2>6. seen' \in [Builds -> [Envs -> SUBSET {"gpu", "host_cpu"}]]
    <3> DEFINE told == AtStart(b) \union Markers(b)
    <3>1. env \in Envs => told \in SUBSET {"gpu", "host_cpu"}
      BY <2>1, <2>4
    <3>2. seen' = [seen EXCEPT ![b][env] = told]
      BY <1>7 DEF Ask, AskWith
    <3> HIDE DEF told, env
    <3> QED
      BY <3>1, <3>2 DEF TypeOK
  <2> QED
    BY <1>7, <2>2, <2>3, <2>5, <2>6 DEF Ask, AskWith, TypeOK, Goto, locks
<1>8. ASSUME NEW b \in Builds, Refused(b) PROVE TypeOK'
  BY <1>8 DEF Refused, Fails, TypeOK, Goto, locks, workers
<1>9. ASSUME NEW b \in Builds, Answered(b) PROVE TypeOK'
  BY <1>9 DEF Answered, TypeOK, Goto, locks, workers
<1>10. ASSUME NEW b \in Builds, NEW e \in Envs, Serve(b, e) \/ WorkerDies(b, e) \/ Close(b, e) PROVE TypeOK'
  <2>1. PICK state \in {"idle", "dead"} : worker' = [worker EXCEPT ![b][e] = state]
    BY <1>10 DEF Serve, WorkerDies, Close
  <2>2. worker' \in [Builds -> [Envs -> {"none", "idle", "busy", "dead"}]]
    BY <2>1, NestedExcept DEF TypeOK
  <2>3. seen' = seen \/ seen' = [seen EXCEPT ![b][e] = base[b][e]]
    BY <1>10 DEF Serve, WorkerDies, Close
  <2>4. seen' \in [Builds -> [Envs -> SUBSET {"gpu", "host_cpu"}]]
    <3>1. seen \in [Builds -> [Envs -> SUBSET {"gpu", "host_cpu"}]] /\ base[b][e] \in SUBSET {"gpu", "host_cpu"}
      BY DEF TypeOK
    <3> QED
      BY <2>3, <3>1, NestedExcept
  <2> QED
    BY <1>10, <2>2, <2>4 DEF Serve, WorkerDies, Close, TypeOK, locks
<1>11. ASSUME NEW b \in Builds, ReleaseHostCpu(b) \/ ReleaseGpu(b) PROVE TypeOK'
  <2>1. drawn' = drawn \/ drawn' = [drawn EXCEPT ![b] = 0]
    BY <1>11 DEF ReleaseHostCpu, ReleaseGpu, Budget!Release
  <2> drawn' \in [Builds -> 0 .. BudgetSlots]
    <3>1. 0 \in 0 .. BudgetSlots
      BY SlotsAssumption
    <3> QED
      BY <2>1, <3>1 DEF TypeOK
  <2>2. use' \in [Builds -> {"none", "shared", "exclusive"}]
    BY <1>11 DEF ReleaseHostCpu, ReleaseGpu, Device!Leave, TypeOK
  <2> QED
    BY <1>11, <2>1, <2>2 DEF ReleaseHostCpu, ReleaseGpu, TypeOK, workers
<1>12. ASSUME NEW b \in Builds, Released(b) \/ Finish(b) PROVE TypeOK'
  BY <1>12 DEF Released, Finish, TypeOK, Goto, locks, workers
<1>13. ASSUME NEW b \in Builds, Exit(b) PROVE TypeOK'
  BY <1>13 DEF Exit, Unlocks, TypeOK, Goto, workers
<1>14. ASSUME NEW b \in Builds, Interrupt(b) PROVE TypeOK'
  BY <1>14 DEF Interrupt, Fails, TypeOK, Goto, locks, workers
<1>15. ASSUME NEW b \in Builds, InterruptClose(b) PROVE TypeOK'
  BY <1>15 DEF InterruptClose, Orphaned, Unlocks, TypeOK, Goto
<1>16. ASSUME NEW b \in Builds, Kill(b) PROVE TypeOK'
  BY <1>16, SlotsAssumption DEF Kill, Orphaned, TypeOK, Goto
<1>17. CASE UNCHANGED vars
  BY <1>17 DEF vars, locks, workers, TypeOK
<1> QED
  BY <1>1, <1>2, <1>3, <1>4, <1>5, <1>6, <1>7, <1>8, <1>9, <1>10, <1>11, <1>12, <1>13, <1>14, <1>15, <1>16, <1>17
  DEF Next

\* BuildWorkers starts each variable, and each step keeps it, in its type.
THEOREM TypeCorrect == Spec => []TypeOK
BY InitType, StepType, PTL DEF Spec

-----------------------------------------------------------------------------
(* What a build holds, and what its workers do, at each point of it.         *)

UnderWay(b) == pc[b] \in {"hold", "asked"}

Taken(b, name) == Claim(b, name) # "none" /\ name \notin todo[b]

\* The device and the budget are held exactly by the targets that have claimed
\* them, and a measurement holds the whole device.
HeldMatchesClaims ==
    \A b \in Builds : UnderWay(b) =>
        /\ use[b] # "none" <=> Taken(b, "gpu")
        /\ use[b] # "none" /\ Claim(b, "gpu") = "all" => use[b] = "exclusive"
        /\ drawn[b] > 0 <=> Taken(b, "host_cpu")

\* Only what was claimed is still to take, host_cpu last; a request is sent when
\* nothing is.
ClaimsInNameOrder ==
    \A b \in Builds :
        /\ pc[b] = "hold" => \A name \in todo[b] : Claim(b, name) # "none"
        /\ pc[b] = "hold" /\ Taken(b, "host_cpu") => todo[b] = {}
        /\ pc[b] = "asked" => todo[b] = {}

ExclusiveUseAlone == \A b, c \in Builds : use[b] = "exclusive" /\ b # c => use[c] = "none"

\* A worker is busy while its build waits for it; otherwise only after an
\* interrupt, or the end, of its build.
BusyMatchesBuilds ==
    \A b \in Builds :
        /\ pc[b] \in {"idle", "hold", "asked"} => ~interrupted[b]
        /\ pc[b] \in {"idle", "hold"} => ~Executes(b)
        /\ pc[b] = "asked" => \A e \in Envs : worker[b][e] = "busy" => e = job[b].env
        /\ pc[b] = "release" /\ Executes(b) => interrupted[b]

\* A build whose executor claimed the clock has locked it, and it stays locked
\* until a build exits.
ClockMatchesBuilds ==
    /\ \A b \in Builds : UnderWay(b) /\ Taken(b, "clock") => engaged[b]
    /\ \A b \in Builds : Executes(b) /\ Claim(b, "clock") = "all" /\ pc[b] # "exited" => engaged[b]
    /\ (\A b \in Builds : pc[b] # "exited") => \A b \in Builds : engaged[b] => clock

HoldingsMatchProgram ==
    /\ TypeOK
    /\ HeldMatchesClaims
    /\ ClaimsInNameOrder
    /\ ExclusiveUseAlone
    /\ BusyMatchesBuilds
    /\ ClockMatchesBuilds
    /\ NothingHeldBetweenTargets
    /\ ExecutorIsToldItsLocks

\* Only a request makes a worker busy, and nothing else changes the environment
\* of one that is.
LEMMA BusyOnlyByRequest ==
  ASSUME TypeOK, NEW b \in Builds,
         \/ \E e \in Envs : Serve(b, e) \/ WorkerDies(b, e) \/ Close(b, e)
         \/ UNCHANGED <<worker, seen>>
         \/ InterruptClose(b) \/ Kill(b)
  PROVE  \A c \in Builds, f \in Envs :
            worker'[c][f] = "busy" => worker[c][f] = "busy" /\ seen'[c][f] = seen[c][f]
<1> SUFFICES ASSUME NEW c \in Builds, NEW f \in Envs, worker'[c][f] = "busy"
             PROVE  worker[c][f] = "busy" /\ seen'[c][f] = seen[c][f]
  OBVIOUS
<1> USE DEF TypeOK
<1>1. ASSUME NEW e \in Envs, Serve(b, e) PROVE worker[c][f] = "busy" /\ seen'[c][f] = seen[c][f]
  BY <1>1 DEF Serve
<1>2. ASSUME NEW e \in Envs, WorkerDies(b, e) PROVE worker[c][f] = "busy" /\ seen'[c][f] = seen[c][f]
  BY <1>2 DEF WorkerDies
<1>3. ASSUME NEW e \in Envs, Close(b, e) PROVE worker[c][f] = "busy" /\ seen'[c][f] = seen[c][f]
  BY <1>3 DEF Close
<1>4. CASE UNCHANGED <<worker, seen>>
  BY <1>4
<1>5. CASE InterruptClose(b)
  BY <1>5 DEF InterruptClose, Orphaned
<1>6. CASE Kill(b)
  BY <1>6 DEF Kill, Orphaned
<1> QED
  BY <1>1, <1>2, <1>3, <1>4, <1>5, <1>6

LEMMA InitHoldings == Init => HoldingsMatchProgram
<1> SUFFICES ASSUME Init PROVE HoldingsMatchProgram
  OBVIOUS
<1>1. TypeOK
  BY InitType
<1>2. HeldMatchesClaims /\ ClaimsInNameOrder
  BY DEF Init, Each, HeldMatchesClaims, ClaimsInNameOrder, UnderWay
<1>3. ExclusiveUseAlone /\ NothingHeldBetweenTargets
  BY DEF Init, ExclusiveUseAlone, NothingHeldBetweenTargets, Device!Init, Budget!Init
<1>4. BusyMatchesBuilds
  BY DEF Init, Each, PerEnv, BusyMatchesBuilds, Executes
<1>5. ClockMatchesBuilds
  BY DEF Init, Each, PerEnv, ClockMatchesBuilds, UnderWay, Executes
<1>6. ExecutorIsToldItsLocks
  BY DEF Init, Each, PerEnv, ExecutorIsToldItsLocks
<1> QED
  BY <1>1, <1>2, <1>3, <1>4, <1>5, <1>6 DEF HoldingsMatchProgram

LEMMA StepHeld ==
  ASSUME HoldingsMatchProgram, [Next]_vars PROVE HeldMatchesClaims'
<1> USE DEF HeldMatchesClaims, UnderWay, Taken, Claim, Goto
<1> TypeOK /\ HeldMatchesClaims /\ ClaimsInNameOrder /\ NothingHeldBetweenTargets
  BY DEF HoldingsMatchProgram
<1>1. ASSUME NEW b \in Builds, NEW e \in Envs, NEW h \in Holds, Begin(b, e, h) PROVE HeldMatchesClaims'
  BY <1>1 DEF Begin, TypeOK, NothingHeldBetweenTargets, Names, locks
<1>2. ASSUME NEW b \in Builds, TakeClock(b) PROVE HeldMatchesClaims'
  BY <1>2 DEF TakeClock, Took, TypeOK
<1>3. ASSUME NEW b \in Builds, TakeGpu(b) PROVE HeldMatchesClaims'
  BY <1>3 DEF TakeGpu, Took, Taking, InNameOrder, TypeOK, ClaimsInNameOrder, Device!EnterExclusive, Device!EnterShared
<1>4. ASSUME NEW b \in Builds, TakeHostCpu(b) PROVE HeldMatchesClaims'
  <2>1. PICK k \in 1 .. BudgetSlots : drawn' = [drawn EXCEPT ![b] = k]
    BY <1>4, HostCpuTaken
  <2>2. /\ pc[b] = "hold" /\ "host_cpu" \in todo[b]
        /\ todo' = [todo EXCEPT ![b] = @ \ {"host_cpu"}]
        /\ UNCHANGED <<pc, job, use>>
    BY <1>4, HostCpuTaken DEF InNameOrder
  <2>3. drawn'[b] > 0 /\ Claim(b, "host_cpu") # "none"
    BY <2>1, <2>2 DEF TypeOK, ClaimsInNameOrder
  <2> QED
    BY <2>1, <2>2, <2>3 DEF TypeOK
<1>5. ASSUME NEW b \in Builds, ClaimRefused(b) \/ ClockTimesOut(b) \/ Refused(b) \/ Answered(b) \/ Interrupt(b) PROVE HeldMatchesClaims'
  BY <1>5 DEF ClaimRefused, ClockTimesOut, Refused, Answered, Interrupt, Fails, TypeOK, locks
<1>6. ASSUME NEW b \in Builds, Released(b) \/ Finish(b) \/ Exit(b) \/ InterruptClose(b) \/ Kill(b) PROVE HeldMatchesClaims'
  BY <1>6 DEF Released, Finish, Exit, InterruptClose, Kill, TypeOK, locks
<1>7. ASSUME NEW b \in Builds, ReleaseHostCpu(b) \/ ReleaseGpu(b) PROVE HeldMatchesClaims'
  BY <1>7 DEF ReleaseHostCpu, ReleaseGpu, Budget!Release, Device!Leave, TypeOK
<1>8. ASSUME NEW b \in Builds, Ask(b) PROVE HeldMatchesClaims'
  BY <1>8 DEF Ask, AskWith, TypeOK, locks
<1>9. ASSUME NEW b \in Builds, NEW e \in Envs, Serve(b, e) \/ WorkerDies(b, e) \/ Close(b, e) PROVE HeldMatchesClaims'
  BY <1>9 DEF Serve, WorkerDies, Close, locks
<1>10. CASE UNCHANGED vars
  BY <1>10 DEF vars, locks
<1> QED
  BY <1>1, <1>2, <1>3, <1>4, <1>5, <1>6, <1>7, <1>8, <1>9, <1>10 DEF Next

LEMMA StepClaims ==
  ASSUME HoldingsMatchProgram, [Next]_vars PROVE ClaimsInNameOrder'
<1> USE DEF ClaimsInNameOrder, Taken, Claim, Goto
<1> TypeOK /\ ClaimsInNameOrder
  BY DEF HoldingsMatchProgram
<1>1. ASSUME NEW b \in Builds, NEW e \in Envs, NEW h \in Holds, Begin(b, e, h) PROVE ClaimsInNameOrder'
  BY <1>1 DEF Begin, TypeOK, locks, workers, Names
<1>2. ASSUME NEW b \in Builds, TakeClock(b) PROVE ClaimsInNameOrder'
  BY <1>2 DEF TakeClock, Took, TypeOK, locks, workers, Taking, InNameOrder, Names, Position
<1>3. ASSUME NEW b \in Builds, TakeGpu(b) PROVE ClaimsInNameOrder'
  BY <1>3 DEF TakeGpu, Took, TypeOK, locks, workers, Taking, InNameOrder, Names, Position
<1>4. ASSUME NEW b \in Builds, TakeHostCpu(b) PROVE ClaimsInNameOrder'
  <2>1. todo[b] \subseteq {"host_cpu"}
    <3>1. todo[b] \subseteq Names /\ \A other \in todo[b] : Position["host_cpu"] <= Position[other]
      BY <1>4, HostCpuTaken DEF TypeOK, InNameOrder
    <3>2. Position["host_cpu"] = 3 /\ Position["gpu"] = 2 /\ Position["clock"] = 1
      BY DEF Position
    <3> QED
      BY <3>1, <3>2 DEF Names
  <2>2. /\ pc[b] = "hold" /\ todo' = [todo EXCEPT ![b] = @ \ {"host_cpu"}]
        /\ UNCHANGED <<pc, job>>
    BY <1>4, HostCpuTaken
  <2> QED
    BY <2>1, <2>2 DEF TypeOK
<1>5. ASSUME NEW b \in Builds, ClaimRefused(b) \/ ClockTimesOut(b) \/ Refused(b) \/ Answered(b) \/ Interrupt(b) PROVE ClaimsInNameOrder'
  BY <1>5 DEF ClaimRefused, ClockTimesOut, Refused, Answered, Interrupt, Fails, TypeOK, locks, workers
<1>6. ASSUME NEW b \in Builds, Released(b) \/ Finish(b) \/ Exit(b) \/ InterruptClose(b) \/ Kill(b) PROVE ClaimsInNameOrder'
  BY <1>6 DEF Released, Finish, Exit, InterruptClose, Kill, TypeOK, locks, workers
<1>7. ASSUME NEW b \in Builds, ReleaseHostCpu(b) \/ ReleaseGpu(b) PROVE ClaimsInNameOrder'
  BY <1>7 DEF ReleaseHostCpu, ReleaseGpu, TypeOK, locks, workers
<1>8. ASSUME NEW b \in Builds, Ask(b) PROVE ClaimsInNameOrder'
  BY <1>8 DEF Ask, AskWith, TypeOK, locks, workers
<1>9. ASSUME NEW b \in Builds, NEW e \in Envs, Serve(b, e) \/ WorkerDies(b, e) \/ Close(b, e) PROVE ClaimsInNameOrder'
  BY <1>9 DEF Serve, WorkerDies, Close, TypeOK, locks, workers
<1>10. CASE UNCHANGED vars
  BY <1>10 DEF vars, TypeOK, locks, workers
<1> QED
  BY <1>1, <1>2, <1>3, <1>4, <1>5, <1>6, <1>7, <1>8, <1>9, <1>10 DEF Next

LEMMA StepAlone ==
  ASSUME HoldingsMatchProgram, [Next]_vars PROVE ExclusiveUseAlone'
<1> USE DEF ExclusiveUseAlone
<1> TypeOK /\ ExclusiveUseAlone
  BY DEF HoldingsMatchProgram
<1>1. ASSUME NEW b \in Builds, NEW e \in Envs, NEW h \in Holds, Begin(b, e, h) PROVE ExclusiveUseAlone'
  BY <1>1 DEF Begin, TypeOK, locks
<1>2. ASSUME NEW b \in Builds, TakeClock(b) PROVE ExclusiveUseAlone'
  BY <1>2 DEF TakeClock, Took, TypeOK, locks
<1>3. ASSUME NEW b \in Builds, TakeGpu(b) PROVE ExclusiveUseAlone'
  BY <1>3 DEF TakeGpu, Took, TypeOK, locks, Device!EnterExclusive, Device!EnterShared, Device!Users
<1>4. ASSUME NEW b \in Builds, TakeHostCpu(b) PROVE ExclusiveUseAlone'
  BY <1>4 DEF TakeHostCpu, Took, TypeOK, locks
<1>5. ASSUME NEW b \in Builds, ClaimRefused(b) \/ ClockTimesOut(b) \/ Refused(b) \/ Answered(b) \/ Interrupt(b) PROVE ExclusiveUseAlone'
  BY <1>5 DEF ClaimRefused, ClockTimesOut, Refused, Answered, Interrupt, Fails, TypeOK, locks
<1>6. ASSUME NEW b \in Builds, Released(b) \/ Finish(b) \/ Exit(b) \/ InterruptClose(b) \/ Kill(b) PROVE ExclusiveUseAlone'
  BY <1>6 DEF Released, Finish, Exit, InterruptClose, Kill, TypeOK, locks
<1>7. ASSUME NEW b \in Builds, ReleaseHostCpu(b) \/ ReleaseGpu(b) PROVE ExclusiveUseAlone'
  BY <1>7 DEF ReleaseHostCpu, ReleaseGpu, TypeOK, locks, Device!Leave
<1>8. ASSUME NEW b \in Builds, Ask(b) PROVE ExclusiveUseAlone'
  BY <1>8 DEF Ask, AskWith, TypeOK, locks
<1>9. ASSUME NEW b \in Builds, NEW e \in Envs, Serve(b, e) \/ WorkerDies(b, e) \/ Close(b, e) PROVE ExclusiveUseAlone'
  BY <1>9 DEF Serve, WorkerDies, Close, TypeOK, locks
<1>10. CASE UNCHANGED vars
  BY <1>10 DEF vars, TypeOK, locks
<1> QED
  BY <1>1, <1>2, <1>3, <1>4, <1>5, <1>6, <1>7, <1>8, <1>9, <1>10 DEF Next

LEMMA StepBusy ==
  ASSUME HoldingsMatchProgram, [Next]_vars PROVE BusyMatchesBuilds'
<1> USE DEF BusyMatchesBuilds, Executes, Goto
<1> TypeOK /\ BusyMatchesBuilds
  BY DEF HoldingsMatchProgram
<1>1. ASSUME NEW b \in Builds, NEW e \in Envs, NEW h \in Holds, Begin(b, e, h) PROVE BusyMatchesBuilds'
  BY <1>1 DEF Begin, TypeOK, locks, workers
<1>2. ASSUME NEW b \in Builds, TakeClock(b) PROVE BusyMatchesBuilds'
  BY <1>2 DEF TakeClock, Took, TypeOK, locks, workers
<1>3. ASSUME NEW b \in Builds, TakeGpu(b) PROVE BusyMatchesBuilds'
  BY <1>3 DEF TakeGpu, Took, TypeOK, locks, workers
<1>4. ASSUME NEW b \in Builds, TakeHostCpu(b) PROVE BusyMatchesBuilds'
  BY <1>4 DEF TakeHostCpu, Took, TypeOK, locks, workers
<1>5. ASSUME NEW b \in Builds, ClaimRefused(b) \/ ClockTimesOut(b) \/ Refused(b) \/ Answered(b) \/ Interrupt(b) PROVE BusyMatchesBuilds'
  <2>1. \A c \in Builds, f \in Envs : worker'[c][f] = "busy" => worker[c][f] = "busy" /\ seen'[c][f] = seen[c][f]
    BY <1>5, BusyOnlyByRequest DEF ClaimRefused, ClockTimesOut, Refused, Answered, Interrupt, Fails, locks, workers
  <2>2. CASE ClaimRefused(b)
    <3>1. /\ pc[b] = "hold" /\ pc' = [pc EXCEPT ![b] = "release"]
          /\ UNCHANGED <<job, todo, interrupted, engaged, clock>>
      BY <2>2 DEF ClaimRefused, Taking, Fails, locks
    <3> QED
      BY <3>1, <2>1 DEF TypeOK
  <2>3. CASE ClockTimesOut(b)
    BY <2>3, <2>1 DEF ClockTimesOut, Taking, Fails, TypeOK, locks, workers
  <2>4. CASE Refused(b)
    BY <2>4, <2>1 DEF Refused, Fails, TypeOK, locks, workers
  <2>5. CASE Answered(b)
    BY <2>5, <2>1 DEF Answered, TypeOK, locks, workers
  <2>6. CASE Interrupt(b)
    BY <2>6, <2>1 DEF Interrupt, Fails, TypeOK, locks, workers
  <2> QED
    BY <1>5, <2>2, <2>3, <2>4, <2>5, <2>6
<1>6. ASSUME NEW b \in Builds, Released(b) \/ Finish(b) \/ Exit(b) \/ InterruptClose(b) \/ Kill(b) PROVE BusyMatchesBuilds'
  <2>1. \A c \in Builds, f \in Envs : worker'[c][f] = "busy" => worker[c][f] = "busy" /\ seen'[c][f] = seen[c][f]
    BY <1>6, BusyOnlyByRequest DEF Released, Finish, Exit, InterruptClose, Kill, locks, workers
  <2>2. CASE Released(b)
    BY <2>2, <2>1 DEF Released, TypeOK, locks, workers
  <2>3. CASE Finish(b)
    BY <2>3, <2>1 DEF Finish, TypeOK, locks, workers
  <2>4. CASE Exit(b)
    BY <2>4, <2>1 DEF Exit, Unlocks, TypeOK, locks, workers
  <2>5. CASE InterruptClose(b)
    BY <2>5, <2>1 DEF InterruptClose, Unlocks, TypeOK, locks, workers
  <2>6. CASE Kill(b)
    BY <2>6, <2>1 DEF Kill, TypeOK, locks, workers
  <2> QED
    BY <1>6, <2>2, <2>3, <2>4, <2>5, <2>6
<1>7. ASSUME NEW b \in Builds, ReleaseHostCpu(b) \/ ReleaseGpu(b) PROVE BusyMatchesBuilds'
  BY <1>7 DEF ReleaseHostCpu, ReleaseGpu, TypeOK, locks, workers
<1>8. ASSUME NEW b \in Builds, Ask(b) PROVE BusyMatchesBuilds'
  BY <1>8 DEF Ask, AskWith, TypeOK, locks, workers
<1>9. ASSUME NEW b \in Builds, NEW e \in Envs, Serve(b, e) \/ WorkerDies(b, e) \/ Close(b, e) PROVE BusyMatchesBuilds'
  <2>1. \A c \in Builds, f \in Envs : worker'[c][f] = "busy" => worker[c][f] = "busy" /\ seen'[c][f] = seen[c][f]
    BY <1>9, BusyOnlyByRequest DEF Serve, WorkerDies, Close, locks, workers
  <2> QED
    BY <1>9, <2>1 DEF Serve, WorkerDies, Close, TypeOK, locks, workers
<1>10. CASE UNCHANGED vars
  BY <1>10 DEF vars, TypeOK, locks, workers
<1> QED
  BY <1>1, <1>2, <1>3, <1>4, <1>5, <1>6, <1>7, <1>8, <1>9, <1>10 DEF Next

LEMMA StepClock ==
  ASSUME HoldingsMatchProgram, [Next]_vars PROVE ClockMatchesBuilds'
<1> USE DEF ClockMatchesBuilds, Executes, UnderWay, Taken, Claim, Goto
<1> TypeOK /\ ClockMatchesBuilds /\ ClaimsInNameOrder /\ BusyMatchesBuilds
  BY DEF HoldingsMatchProgram
<1>1. ASSUME NEW b \in Builds, NEW e \in Envs, NEW h \in Holds, Begin(b, e, h) PROVE ClockMatchesBuilds'
  <2>1. /\ pc[b] = "idle" /\ pc' = [pc EXCEPT ![b] = "hold"]
        /\ job' = [job EXCEPT ![b] = [env |-> e, holds |-> h]]
        /\ todo' = [todo EXCEPT ![b] = {name \in Names : h[name] # "none"}]
        /\ UNCHANGED <<engaged, clock, worker>>
    BY <1>1 DEF Begin, locks, workers
  <2>2. ~Taken(b, "clock")'
    BY <2>1 DEF TypeOK, Names
  <2>3. ~Executes(b)
    BY <2>1 DEF BusyMatchesBuilds
  <2> QED
    BY <2>1, <2>2, <2>3 DEF TypeOK
<1>2. ASSUME NEW b \in Builds, TakeClock(b) PROVE ClockMatchesBuilds'
  BY <1>2 DEF TakeClock, Took, TypeOK, locks, workers
<1>3. ASSUME NEW b \in Builds, TakeGpu(b) PROVE ClockMatchesBuilds'
  BY <1>3 DEF TakeGpu, Took, TypeOK, locks, workers
<1>4. ASSUME NEW b \in Builds, TakeHostCpu(b) PROVE ClockMatchesBuilds'
  BY <1>4 DEF TakeHostCpu, Took, TypeOK, locks, workers
<1>5. ASSUME NEW b \in Builds, ClaimRefused(b) \/ ClockTimesOut(b) \/ Refused(b) \/ Answered(b) \/ Interrupt(b) PROVE ClockMatchesBuilds'
  <2>1. \A c \in Builds, f \in Envs : worker'[c][f] = "busy" => worker[c][f] = "busy" /\ seen'[c][f] = seen[c][f]
    BY <1>5, BusyOnlyByRequest DEF ClaimRefused, ClockTimesOut, Refused, Answered, Interrupt, Fails, locks, workers
  <2>2. CASE ClaimRefused(b)
    <3>1. /\ pc[b] = "hold" /\ pc' = [pc EXCEPT ![b] = "release"]
          /\ UNCHANGED <<job, todo, interrupted, engaged, clock>>
      BY <2>2 DEF ClaimRefused, Taking, Fails, locks
    <3> QED
      BY <3>1, <2>1 DEF TypeOK
  <2>3. CASE ClockTimesOut(b)
    <3>1. /\ pc[b] = "hold" /\ pc' = [pc EXCEPT ![b] = "release"]
          /\ UNCHANGED <<job, todo, engaged>>
      BY <2>3 DEF ClockTimesOut, Taking, Fails
    <3>2. clock => clock'
      BY <2>3 DEF ClockTimesOut
    <3> QED
      BY <3>1, <3>2, <2>1 DEF TypeOK
  <2>4. CASE Refused(b)
    BY <2>4, <2>1 DEF Refused, Fails, TypeOK, locks, workers
  <2>5. CASE Answered(b)
    BY <2>5, <2>1 DEF Answered, TypeOK, locks, workers
  <2>6. CASE Interrupt(b)
    BY <2>6, <2>1 DEF Interrupt, Fails, TypeOK, locks, workers
  <2> QED
    BY <1>5, <2>2, <2>3, <2>4, <2>5, <2>6
<1>6. ASSUME NEW b \in Builds, Released(b) \/ Finish(b) \/ Exit(b) \/ InterruptClose(b) \/ Kill(b) PROVE ClockMatchesBuilds'
  <2>1. \A c \in Builds, f \in Envs : worker'[c][f] = "busy" => worker[c][f] = "busy" /\ seen'[c][f] = seen[c][f]
    BY <1>6, BusyOnlyByRequest DEF Released, Finish, Exit, InterruptClose, Kill, locks, workers, Unlocks, Gone
  <2>2. CASE Released(b)
    BY <2>2, <2>1 DEF Released, TypeOK, locks, workers
  <2>3. CASE Finish(b)
    BY <2>3, <2>1 DEF Finish, TypeOK, locks, workers
  <2>4. CASE Exit(b)
    BY <2>4, <2>1 DEF Exit, Unlocks, TypeOK, locks, workers
  <2>5. CASE InterruptClose(b)
    BY <2>5, <2>1 DEF InterruptClose, Unlocks, TypeOK, locks, workers
  <2>6. CASE Kill(b)
    BY <2>6, <2>1 DEF Kill, Gone, TypeOK, locks, workers
  <2> QED
    BY <1>6, <2>2, <2>3, <2>4, <2>5, <2>6
<1>7. ASSUME NEW b \in Builds, ReleaseHostCpu(b) \/ ReleaseGpu(b) PROVE ClockMatchesBuilds'
  BY <1>7 DEF ReleaseHostCpu, ReleaseGpu, TypeOK, locks, workers
<1>8. ASSUME NEW b \in Builds, Ask(b) PROVE ClockMatchesBuilds'
  BY <1>8 DEF Ask, AskWith, TypeOK, locks, workers
<1>9. ASSUME NEW b \in Builds, NEW e \in Envs, Serve(b, e) \/ WorkerDies(b, e) \/ Close(b, e) PROVE ClockMatchesBuilds'
  <2>1. \A c \in Builds, f \in Envs : worker'[c][f] = "busy" => worker[c][f] = "busy" /\ seen'[c][f] = seen[c][f]
    BY <1>9, BusyOnlyByRequest DEF Serve, WorkerDies, Close, locks, workers
  <2> QED
    BY <1>9, <2>1 DEF Serve, WorkerDies, Close, TypeOK, locks, workers
<1>10. CASE UNCHANGED vars
  BY <1>10 DEF vars, TypeOK, locks, workers
<1> QED
  BY <1>1, <1>2, <1>3, <1>4, <1>5, <1>6, <1>7, <1>8, <1>9, <1>10 DEF Next

LEMMA StepNothingHeld ==
  ASSUME HoldingsMatchProgram, [Next]_vars PROVE NothingHeldBetweenTargets'
<1> USE DEF NothingHeldBetweenTargets, Goto
<1> TypeOK /\ NothingHeldBetweenTargets
  BY DEF HoldingsMatchProgram
<1>1. ASSUME NEW b \in Builds, NEW e \in Envs, NEW h \in Holds, Begin(b, e, h) PROVE NothingHeldBetweenTargets'
  BY <1>1 DEF Begin, TypeOK, locks, workers
<1>2. ASSUME NEW b \in Builds, TakeClock(b) PROVE NothingHeldBetweenTargets'
  BY <1>2 DEF TakeClock, Took, TypeOK, locks, workers
<1>3. ASSUME NEW b \in Builds, TakeGpu(b) PROVE NothingHeldBetweenTargets'
  BY <1>3 DEF TakeGpu, Took, TypeOK, locks, workers, Taking, Device!EnterExclusive, Device!EnterShared
<1>4. ASSUME NEW b \in Builds, TakeHostCpu(b) PROVE NothingHeldBetweenTargets'
  BY <1>4, HostCpuTaken DEF TypeOK, workers
<1>5. ASSUME NEW b \in Builds, ClaimRefused(b) \/ ClockTimesOut(b) \/ Refused(b) \/ Answered(b) \/ Interrupt(b) PROVE NothingHeldBetweenTargets'
  BY <1>5 DEF ClaimRefused, ClockTimesOut, Refused, Answered, Interrupt, Fails, TypeOK, locks, workers
<1>6. ASSUME NEW b \in Builds, Released(b) \/ Finish(b) \/ Exit(b) \/ InterruptClose(b) \/ Kill(b) PROVE NothingHeldBetweenTargets'
  BY <1>6 DEF Released, Finish, Exit, InterruptClose, Kill, TypeOK, locks, workers, Markers, Unlocks
<1>7. ASSUME NEW b \in Builds, ReleaseHostCpu(b) \/ ReleaseGpu(b) PROVE NothingHeldBetweenTargets'
  BY <1>7 DEF ReleaseHostCpu, ReleaseGpu, TypeOK, locks, workers, Budget!Release, Device!Leave
<1>8. ASSUME NEW b \in Builds, Ask(b) PROVE NothingHeldBetweenTargets'
  BY <1>8 DEF Ask, AskWith, TypeOK, locks, workers
<1>9. ASSUME NEW b \in Builds, NEW e \in Envs, Serve(b, e) \/ WorkerDies(b, e) \/ Close(b, e) PROVE NothingHeldBetweenTargets'
  BY <1>9 DEF Serve, WorkerDies, Close, TypeOK, locks, workers
<1>10. CASE UNCHANGED vars
  BY <1>10 DEF vars, TypeOK, locks, workers
<1> QED
  BY <1>1, <1>2, <1>3, <1>4, <1>5, <1>6, <1>7, <1>8, <1>9, <1>10 DEF Next

LEMMA StepTold ==
  ASSUME HoldingsMatchProgram, [Next]_vars PROVE ExecutorIsToldItsLocks'
<1> USE DEF ExecutorIsToldItsLocks, Markers, Goto
<1> TypeOK /\ ExecutorIsToldItsLocks /\ BusyMatchesBuilds
  BY DEF HoldingsMatchProgram
<1>1. ASSUME NEW b \in Builds, NEW e \in Envs, NEW h \in Holds, Begin(b, e, h) PROVE ExecutorIsToldItsLocks'
  BY <1>1 DEF Begin, TypeOK, locks, workers
<1>2. ASSUME NEW b \in Builds, TakeClock(b) PROVE ExecutorIsToldItsLocks'
  BY <1>2 DEF TakeClock, Took, TypeOK, locks, workers
<1>3. ASSUME NEW b \in Builds, TakeGpu(b) PROVE ExecutorIsToldItsLocks'
  BY <1>3 DEF TakeGpu, Took, TypeOK, locks, workers, Taking, Device!EnterExclusive, Device!EnterShared
<1>4. ASSUME NEW b \in Builds, TakeHostCpu(b) PROVE ExecutorIsToldItsLocks'
  <2>1. pc[b] = "hold" /\ UNCHANGED <<pc, job, use, worker, seen>>
    BY <1>4, HostCpuTaken DEF workers
  <2>2. \A c \in Builds : c # b => drawn'[c] = drawn[c]
    <3>1. PICK k \in 1 .. BudgetSlots : drawn' = [drawn EXCEPT ![b] = k]
      BY <1>4, HostCpuTaken
    <3> QED
      BY <3>1 DEF TypeOK
  <2> QED
    BY <2>1, <2>2
<1>5. ASSUME NEW b \in Builds, ClaimRefused(b) \/ ClockTimesOut(b) \/ Refused(b) \/ Answered(b) \/ Interrupt(b) PROVE ExecutorIsToldItsLocks'
  <2>1. \A c \in Builds, f \in Envs : worker'[c][f] = "busy" => worker[c][f] = "busy" /\ seen'[c][f] = seen[c][f]
    BY <1>5, BusyOnlyByRequest DEF ClaimRefused, ClockTimesOut, Refused, Answered, Interrupt, Fails, locks, workers
  <2>2. CASE ClaimRefused(b)
    BY <2>2, <2>1 DEF ClaimRefused, Taking, Fails, TypeOK, locks, workers
  <2>3. CASE ClockTimesOut(b)
    BY <2>3, <2>1 DEF ClockTimesOut, Taking, Fails, TypeOK, locks, workers
  <2>4. CASE Refused(b)
    BY <2>4, <2>1 DEF Refused, Fails, TypeOK, locks, workers
  <2>5. CASE Answered(b)
    BY <2>5, <2>1 DEF Answered, TypeOK, locks, workers
  <2>6. CASE Interrupt(b)
    BY <2>6, <2>1 DEF Interrupt, Fails, TypeOK, locks, workers
  <2> QED
    BY <1>5, <2>2, <2>3, <2>4, <2>5, <2>6
<1>6. ASSUME NEW b \in Builds, Released(b) \/ Finish(b) \/ Exit(b) \/ InterruptClose(b) \/ Kill(b) PROVE ExecutorIsToldItsLocks'
  <2>1. \A c \in Builds, f \in Envs : worker'[c][f] = "busy" => worker[c][f] = "busy" /\ seen'[c][f] = seen[c][f]
    BY <1>6, BusyOnlyByRequest DEF Released, Finish, Exit, InterruptClose, Kill, locks, workers
  <2>2. CASE Released(b)
    BY <2>2, <2>1 DEF Released, TypeOK, locks, workers
  <2>3. CASE Finish(b)
    BY <2>3, <2>1 DEF Finish, TypeOK, locks, workers
  <2>4. CASE Exit(b)
    BY <2>4, <2>1 DEF Exit, Unlocks, TypeOK, locks, workers
  <2>5. CASE InterruptClose(b)
    BY <2>5, <2>1 DEF InterruptClose, Unlocks, TypeOK, locks, workers
  <2>6. CASE Kill(b)
    BY <2>6, <2>1 DEF Kill, TypeOK, locks, workers
  <2> QED
    BY <1>6, <2>2, <2>3, <2>4, <2>5, <2>6
<1>7. ASSUME NEW b \in Builds, ReleaseHostCpu(b) \/ ReleaseGpu(b) PROVE ExecutorIsToldItsLocks'
  BY <1>7, ZenonT(30) DEF ReleaseHostCpu, ReleaseGpu, TypeOK, locks, workers, Budget!Release, Device!Leave
<1>8. ASSUME NEW b \in Builds, Ask(b) PROVE ExecutorIsToldItsLocks'
  BY <1>8 DEF Ask, AskWith, TypeOK, locks, workers, BusyMatchesBuilds, Executes
<1>9. ASSUME NEW b \in Builds, NEW e \in Envs, Serve(b, e) \/ WorkerDies(b, e) \/ Close(b, e) PROVE ExecutorIsToldItsLocks'
  <2>1. \A c \in Builds, f \in Envs : worker'[c][f] = "busy" => worker[c][f] = "busy" /\ seen'[c][f] = seen[c][f]
    BY <1>9, BusyOnlyByRequest DEF Serve, WorkerDies, Close, locks, workers
  <2> QED
    BY <1>9, <2>1 DEF Serve, WorkerDies, Close, TypeOK, locks, workers
<1>10. CASE UNCHANGED vars
  BY <1>10 DEF vars, TypeOK, locks, workers
<1> QED
  BY <1>1, <1>2, <1>3, <1>4, <1>5, <1>6, <1>7, <1>8, <1>9, <1>10 DEF Next

\* What a build holds, and what its workers do, match where it is, in every
\* reachable state.
THEOREM HoldingsCorrect == Spec => []HoldingsMatchProgram
<1>1. HoldingsMatchProgram /\ [Next]_vars => HoldingsMatchProgram'
  BY StepType, StepHeld, StepClaims, StepAlone, StepBusy, StepClock, StepNothingHeld, StepTold
  DEF HoldingsMatchProgram
<1> QED
  BY InitHoldings, <1>1, PTL DEF Spec

\* However a target ends, its build goes on holding nothing (resources.py:75).
THEOREM NothingIsHeldBetweenTargets == Spec => []NothingHeldBetweenTargets
<1>1. HoldingsMatchProgram => NothingHeldBetweenTargets
  BY DEF HoldingsMatchProgram
<1> QED
  BY HoldingsCorrect, <1>1, PTL

\* An executor is told every lock its build holds (runtime.py:43, worker.py:61).
THEOREM ExecutorIsAlwaysTold == Spec => []ExecutorIsToldItsLocks
<1>1. HoldingsMatchProgram => ExecutorIsToldItsLocks
  BY DEF HoldingsMatchProgram
<1> QED
  BY HoldingsCorrect, <1>1, PTL

\* Targets that claim the whole device run beside none that claims a part of it.
THEOREM MeasurementIsAlone == Spec => []MeasurementAlone
<1>1. HoldingsMatchProgram => MeasurementAlone
  <2> SUFFICES ASSUME HoldingsMatchProgram, NEW b \in Builds, NEW c \in Builds, b # c,
                      pc[b] = "asked", pc[c] = "asked", job[b].holds.gpu = "all"
               PROVE  job[c].holds.gpu = "none"
    BY DEF MeasurementAlone
  <2>1. use[b] = "exclusive"
    BY DEF HoldingsMatchProgram, HeldMatchesClaims, ClaimsInNameOrder, UnderWay, Taken, Claim
  <2>2. use[c] = "none"
    BY <2>1 DEF HoldingsMatchProgram, ExclusiveUseAlone
  <2> QED
    BY <2>2 DEF HoldingsMatchProgram, HeldMatchesClaims, ClaimsInNameOrder, UnderWay, Taken, Claim
<1> QED
  BY HoldingsCorrect, <1>1, PTL

\* The clock is on while an executor that claims it runs, until a build exits.
THEOREM ClockStaysOnUntilAnExit == Spec => []ClockOnUntilAnExit
<1>1. HoldingsMatchProgram => ClockOnUntilAnExit
  BY DEF HoldingsMatchProgram, ClockMatchesBuilds, ClockOnUntilAnExit, Claim
<1> QED
  BY HoldingsCorrect, <1>1, PTL

\* The name order of claims excludes a circle of waiting builds (resources.py:12).
\* Among waiting builds none holds slots, as host_cpu is claimed last; so one
\* that holds the device waits for nothing the others hold, and if none holds
\* it nobody waits for it.
THEOREM BuildsNeverWaitInACircle == Spec => []NoCircularWait
<1>1. HoldingsMatchProgram => NoCircularWait
  <2> SUFFICES ASSUME HoldingsMatchProgram, NEW S \in (SUBSET Builds) \ {{}}, \A b \in S : Waits(b)
               PROVE  \E b \in S : ~WaitsFor(b, S)
    BY DEF NoCircularWait
  <2> S \in SUBSET Builds /\ S # {}
    OBVIOUS
  <2>1. \A b \in S : pc[b] = "hold" /\ todo[b] # {} /\ UnderWay(b)
    BY DEF Waits, UnderWay
  <2>2. \A h \in S : ~(drawn[h] > 0)
    BY <2>1 DEF HoldingsMatchProgram, HeldMatchesClaims, ClaimsInNameOrder
  <2>3. \A h \in S : use[h] # "none" => ~Taking(h, "gpu")
    BY <2>1 DEF HoldingsMatchProgram, HeldMatchesClaims, Taken, Taking, InNameOrder
  <2>4. CASE \E h \in S : use[h] # "none"
    BY <2>2, <2>3, <2>4 DEF WaitsFor
  <2>5. CASE \A h \in S : use[h] = "none"
    BY <2>2, <2>5 DEF WaitsFor
  <2> QED
    BY <2>4, <2>5
<1> QED
  BY HoldingsCorrect, <1>1, PTL

-----------------------------------------------------------------------------
(* The locks the builds claim.                                               *)

\* A build at work on what another build holds changes nothing else of it; a kill
\* gives back what the kernel held for the build.
LEMMA StepKeepsToTheLocks ==
    ASSUME TypeOK, [Next]_vars
    PROVE  [Device!Next]_use /\ [Budget!Next]_drawn
<1>1. CASE UNCHANGED <<use, drawn>>
  BY <1>1
<1>2. ASSUME NEW b \in Builds, TakeGpu(b) PROVE Device!Next /\ drawn' = drawn
  BY <1>2 DEF TakeGpu, Device!Next
<1>3. ASSUME NEW b \in Builds, TakeHostCpu(b) PROVE Budget!Next /\ use' = use
  <2>1. PICK k \in IF Claim(b, "host_cpu") = "all" THEN {BudgetSlots} ELSE 1 .. BudgetSlots : Budget!Grant(b, k)
    BY <1>3 DEF TakeHostCpu
  <2>2. k \in 1 .. BudgetSlots
    BY SlotsAssumption
  <2> QED
    BY <1>3, <2>1, <2>2 DEF TakeHostCpu, Budget!Next
<1>4. ASSUME NEW b \in Builds, ReleaseHostCpu(b) PROVE Budget!Next /\ use' = use
  BY <1>4 DEF ReleaseHostCpu, Budget!Next
<1>5. ASSUME NEW b \in Builds, ReleaseGpu(b) PROVE Device!Next /\ drawn' = drawn
  BY <1>5 DEF ReleaseGpu, Device!Next
<1>6. ASSUME NEW b \in Builds, Kill(b) PROVE [Device!Next]_use /\ [Budget!Next]_drawn
  <2>1. use[b] = "none" => use' = use
    BY <1>6 DEF Kill, TypeOK
  <2>2. use[b] # "none" => Device!Leave(b)
    BY <1>6 DEF Kill, Device!Leave
  <2>3. drawn[b] = 0 => drawn' = drawn
    BY <1>6 DEF Kill, TypeOK
  <2>4. drawn[b] # 0 => Budget!Release(b)
    BY <1>6, SlotsAssumption DEF Kill, Budget!Release, TypeOK
  <2> QED
    BY <2>1, <2>2, <2>3, <2>4 DEF Device!Next, Budget!Next
<1>7. ASSUME NEW b \in Builds,
             \/ \E e \in Envs, h \in Holds : Begin(b, e, h)
             \/ TakeClock(b) \/ ClaimRefused(b) \/ ClockTimesOut(b)
             \/ Ask(b) \/ Refused(b) \/ Answered(b)
             \/ \E e \in Envs : Serve(b, e) \/ WorkerDies(b, e) \/ Close(b, e)
             \/ Released(b) \/ Finish(b) \/ Exit(b) \/ Interrupt(b) \/ InterruptClose(b)
      PROVE  UNCHANGED <<use, drawn>>
  BY <1>7 DEF Begin, TakeClock, ClaimRefused, ClockTimesOut, Ask, AskWith, Refused, Answered, Serve, WorkerDies, Close,
              Released, Finish, Exit, Interrupt, InterruptClose, locks
<1> QED
  BY <1>1, <1>2, <1>3, <1>4, <1>5, <1>6, <1>7 DEF Next, vars, locks

\* Whatever targets ask, however they end, and whichever builds are interrupted or
\* killed, the builds take the device and the budget as the lock files grant them
\* (GpuLock and HostBudget implement the same two specifications).
THEOREM BuildsKeepToTheLocks == Spec => Device!Spec /\ Budget!Spec
<1>1. Init => Device!Init /\ Budget!Init
  BY DEF Init
<1> QED
  BY <1>1, TypeCorrect, StepKeepsToTheLocks, PTL DEF Spec, Device!Spec, Budget!Spec

\* As many builds share the device as there are slots, none beside a measurement,
\* and the slots drawn are no more than the budget has.
NotOvercommitted ==
    /\ Cardinality(Device!Users("shared")) <= GpuSlots
    /\ \A b \in Builds : use[b] = "exclusive" => \A c \in Builds \ {b} : use[c] = "none"
    /\ Cardinality(Budget!Granted) <= BudgetSlots

DeviceFits ==
    /\ use \in [Builds -> {"none", "shared", "exclusive"}]
    /\ IsFiniteSet(Device!Users("shared")) /\ Cardinality(Device!Users("shared")) <= GpuSlots
    /\ \A b \in Builds : use[b] = "exclusive" => \A c \in Builds \ {b} : use[c] = "none"

BudgetFits ==
    /\ drawn \in [Builds -> 0 .. BudgetSlots]
    /\ IsFiniteSet(Budget!Granted) /\ Cardinality(Budget!Granted) <= BudgetSlots

LEMMA SameCardinality == \A S : Device!Cardinality(S) = Cardinality(S) /\ Budget!Cardinality(S) = Cardinality(S)
BY DEF Device!Cardinality, Budget!Cardinality, Cardinality

LEMMA DeviceInitFits == Device!Init => DeviceFits
<1> SUFFICES ASSUME Device!Init PROVE DeviceFits
  OBVIOUS
<1>1. Device!Users("shared") = {}
  BY DEF Device!Init, Device!Users
<1> QED
  BY <1>1, FS_EmptySet, SlotsAssumption DEF Device!Init, DeviceFits

LEMMA DeviceStepFits == DeviceFits /\ [Device!Next]_use => DeviceFits'
<1> SUFFICES ASSUME DeviceFits, [Device!Next]_use PROVE DeviceFits'
  OBVIOUS
<1>1. ASSUME NEW b \in Builds, Device!EnterShared(b) PROVE DeviceFits'
  <2>1. Device!Users("shared")' = Device!Users("shared") \union {b} /\ b \notin Device!Users("shared")
    BY <1>1 DEF DeviceFits, Device!EnterShared, Device!Users
  <2>2. IsFiniteSet(Device!Users("shared")') /\ Cardinality(Device!Users("shared")') = Cardinality(Device!Users("shared")) + 1
    BY <2>1, FS_AddElement DEF DeviceFits
  <2>3. Cardinality(Device!Users("shared")) \in Nat
    BY FS_CardinalityType DEF DeviceFits
  <2>4. Cardinality(Device!Users("shared")) < GpuSlots
    BY <1>1, SameCardinality DEF Device!EnterShared
  <2>5. Cardinality(Device!Users("shared")') <= GpuSlots
    BY <2>2, <2>3, <2>4, SlotsAssumption
  <2>6. \A c \in Builds : use'[c] # "exclusive"
    BY <1>1 DEF DeviceFits, Device!EnterShared, Device!Users
  <2>7. use' \in [Builds -> {"none", "shared", "exclusive"}]
    BY <1>1 DEF DeviceFits, Device!EnterShared
  <2> QED
    BY <2>2, <2>5, <2>6, <2>7 DEF DeviceFits
<1>2. ASSUME NEW b \in Builds, Device!EnterExclusive(b) PROVE DeviceFits'
  <2>1. \A c \in Builds : use[c] = "none"
    BY <1>2 DEF DeviceFits, Device!EnterExclusive, Device!Users
  <2>2. Device!Users("shared")' = {}
    BY <1>2, <2>1 DEF DeviceFits, Device!EnterExclusive, Device!Users
  <2>3. use' \in [Builds -> {"none", "shared", "exclusive"}] /\ \A c \in Builds \ {b} : use'[c] = "none"
    BY <1>2, <2>1 DEF DeviceFits, Device!EnterExclusive
  <2> QED
    BY <2>2, <2>3, FS_EmptySet, SlotsAssumption DEF DeviceFits
<1>3. ASSUME NEW b \in Builds, Device!Leave(b) PROVE DeviceFits'
  <2>1. use' \in [Builds -> {"none", "shared", "exclusive"}] /\ \A c \in Builds : use'[c] # "none" => use'[c] = use[c]
    BY <1>3 DEF DeviceFits, Device!Leave
  <2>2. Device!Users("shared")' \in SUBSET Device!Users("shared")
    BY <2>1 DEF Device!Users
  <2>3. /\ IsFiniteSet(Device!Users("shared")')
        /\ Cardinality(Device!Users("shared")') <= Cardinality(Device!Users("shared"))
    BY <2>2, FS_Subset DEF DeviceFits
  <2>4. Cardinality(Device!Users("shared")') \in Nat /\ Cardinality(Device!Users("shared")) \in Nat
    BY <2>3, FS_CardinalityType DEF DeviceFits
  <2>5. Cardinality(Device!Users("shared")') <= GpuSlots
    BY <2>3, <2>4, SlotsAssumption DEF DeviceFits
  <2> QED
    BY <2>1, <2>3, <2>5 DEF DeviceFits
<1>4. CASE use' = use
  BY <1>4 DEF DeviceFits, Device!Users
<1> QED
  BY <1>1, <1>2, <1>3, <1>4 DEF Device!Next

LEMMA BudgetInitFits == Budget!Init => BudgetFits
<1> SUFFICES ASSUME Budget!Init PROVE BudgetFits
  OBVIOUS
<1>1. Budget!Granted = {}
  BY DEF Budget!Init, Budget!Granted
<1> QED
  BY <1>1, FS_EmptySet, SlotsAssumption DEF Budget!Init, BudgetFits

\* A grant adds as many pairs as slots, to the pairs of a build that had none.
LEMMA GrantedGrows ==
    ASSUME BudgetFits, NEW b \in Builds, NEW k \in 1 .. BudgetSlots, Budget!Grant(b, k)
    PROVE  IsFiniteSet(Budget!Granted') /\ Cardinality(Budget!Granted') = Cardinality(Budget!Granted) + k
<1> DEFINE own == {b} \X (1 .. k)
<1>1. drawn' = [drawn EXCEPT ![b] = k] /\ drawn[b] = 0 /\ drawn \in [Builds -> 0 .. BudgetSlots]
  BY DEF BudgetFits, Budget!Grant
<1>2. Budget!Granted' = Budget!Granted \union own
  <2>1. ASSUME NEW g \in Builds \X (1 .. BudgetSlots)
        PROVE  g[2] <= drawn'[g[1]] <=> g[2] <= drawn[g[1]] \/ g \in own
    <3>1. g[1] \in Builds /\ g[2] \in 1 .. BudgetSlots /\ g = <<g[1], g[2]>>
      OBVIOUS
    <3>2. g \in own <=> g[1] = b /\ g[2] \in 1 .. k
      BY <3>1
    <3> HIDE DEF own
    <3>3. CASE g[1] = b
      BY <1>1, <3>1, <3>2, <3>3, SlotsAssumption
    <3>4. CASE g[1] # b
      BY <1>1, <3>1, <3>2, <3>4
    <3> QED
      BY <3>3, <3>4
  <2>2. own \subseteq Builds \X (1 .. BudgetSlots)
    BY SlotsAssumption
  <2> HIDE DEF own
  <2> QED
    BY <2>1, <2>2 DEF Budget!Granted
<1>3. Budget!Granted \intersect own = {}
  BY <1>1 DEF Budget!Granted
<1>4. IsFiniteSet(own) /\ Cardinality(own) = k
  <2> DEFINE pair == [i \in 1 .. k |-> <<b, i>>]
  <2>1. pair \in Bijection(1 .. k, own)
    <3>1. pair \in [1 .. k -> own] /\ \A i, j \in 1 .. k : pair[i] = pair[j] => i = j
      OBVIOUS
    <3>2. \A g \in own : \E i \in 1 .. k : pair[i] = g
      OBVIOUS
    <3> HIDE DEF pair, own
    <3> QED
      BY <3>1, <3>2 DEF Bijection, Injection, Surjection, IsInjective
  <2>2. IsFiniteSet(1 .. k) /\ Cardinality(1 .. k) = k
    BY FS_Interval, SlotsAssumption
  <2> QED
    BY <2>1, <2>2, FS_Bijection DEF ExistsBijection
<1> HIDE DEF own
<1>5. IsFiniteSet(Budget!Granted) /\ Cardinality(Budget!Granted) \in Nat
  BY FS_CardinalityType DEF BudgetFits
<1>6. /\ IsFiniteSet(Budget!Granted \union own)
      /\ Cardinality(Budget!Granted \union own)
           = Cardinality(Budget!Granted) + Cardinality(own) - Cardinality(Budget!Granted \intersect own)
  BY <1>4, <1>5, FS_Union
<1>7. Cardinality(Budget!Granted \intersect own) = 0
  BY <1>3, FS_EmptySet
<1> QED
  BY <1>2, <1>4, <1>5, <1>6, <1>7

LEMMA BudgetStepFits == BudgetFits /\ [Budget!Next]_drawn => BudgetFits'
<1> SUFFICES ASSUME BudgetFits, [Budget!Next]_drawn PROVE BudgetFits'
  OBVIOUS
<1>1. ASSUME NEW b \in Builds, NEW k \in 1 .. BudgetSlots, Budget!Grant(b, k) PROVE BudgetFits'
  <2>1. IsFiniteSet(Budget!Granted') /\ Cardinality(Budget!Granted') = Cardinality(Budget!Granted) + k
    BY <1>1, GrantedGrows
  <2>2. k <= BudgetSlots - Cardinality(Budget!Granted)
    BY <1>1, SameCardinality DEF Budget!Grant, Budget!Left
  <2>3. Cardinality(Budget!Granted) \in Nat
    BY FS_CardinalityType DEF BudgetFits
  <2>4. Cardinality(Budget!Granted') <= BudgetSlots
    BY <2>1, <2>2, <2>3, SlotsAssumption
  <2>5. drawn' \in [Builds -> 0 .. BudgetSlots]
    BY <1>1, SlotsAssumption DEF BudgetFits, Budget!Grant
  <2> QED
    BY <2>1, <2>4, <2>5 DEF BudgetFits
<1>2. ASSUME NEW b \in Builds, Budget!Release(b) PROVE BudgetFits'
  <2>1. drawn' \in [Builds -> 0 .. BudgetSlots] /\ \A c \in Builds : drawn'[c] <= drawn[c]
    BY <1>2, SlotsAssumption DEF BudgetFits, Budget!Release
  <2>2. Budget!Granted' \in SUBSET Budget!Granted
    <3>1. ASSUME NEW g \in Builds \X (1 .. BudgetSlots), g[2] <= drawn'[g[1]] PROVE g[2] <= drawn[g[1]]
      BY <2>1, <3>1, SlotsAssumption DEF BudgetFits
    <3> QED
      BY <3>1 DEF Budget!Granted
  <2>3. IsFiniteSet(Budget!Granted') /\ Cardinality(Budget!Granted') <= Cardinality(Budget!Granted)
    BY <2>2, FS_Subset DEF BudgetFits
  <2>4. Cardinality(Budget!Granted') \in Nat /\ Cardinality(Budget!Granted) \in Nat
    BY <2>3, FS_CardinalityType DEF BudgetFits
  <2>5. Cardinality(Budget!Granted') <= BudgetSlots
    BY <2>3, <2>4, SlotsAssumption DEF BudgetFits
  <2> QED
    BY <2>1, <2>3, <2>5 DEF BudgetFits
<1>3. CASE drawn' = drawn
  BY <1>3 DEF BudgetFits, Budget!Granted
<1> QED
  BY <1>1, <1>2, <1>3 DEF Budget!Next

\* Builds never put more on the machine than it has, however many of them share it
\* and however they end.
THEOREM MachineIsNeverOvercommitted == Spec => []NotOvercommitted
<1>1. DeviceFits /\ BudgetFits => NotOvercommitted
  BY DEF DeviceFits, BudgetFits, NotOvercommitted
<1>2. Device!Spec => []DeviceFits
  BY DeviceInitFits, DeviceStepFits, PTL DEF Device!Spec
<1>3. Budget!Spec => []BudgetFits
  BY BudgetInitFits, BudgetStepFits, PTL DEF Budget!Spec
<1> QED
  BY <1>1, <1>2, <1>3, BuildsKeepToTheLocks, PTL
=============================================================================
