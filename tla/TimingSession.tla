--------------------------- MODULE TimingSession ---------------------------
(***************************************************************************)
(* The timing targets of one build: rola_devtools/timing/executors.py in   *)
(* the build system's worker, over the pool of entry workers (pool.py),    *)
(* each serving one environment (entry_worker.py).                         *)
(*                                                                         *)
(* Every request to an entry worker is one step.  A worker may die between *)
(* any two steps; a request to a dead one raises.  A worker started again  *)
(* in the same environment is another incarnation: it has set up nothing.  *)
(***************************************************************************)
EXTENDS Naturals, Sequences, FiniteSets, FiniteSetsExt

CONSTANTS
    EnvOf,      \* EnvOf[e]: the environment entry e was registered in
    Wanted,     \* the entries `cells` may leave a target, in the order registered
    Gated,      \* and those a null gate may
    Reader,     \* the environment of the clock reader
    Warmup, Rounds, Reps,
    MaxTargets, \* bound: measuring targets in the build
    MaxDeaths   \* bound: workers that die before the server is stopped

ASSUME SessionAssumption == Warmup \in Nat /\ Rounds \in Nat \ {0} /\ Reps \in Nat \ {0}
ASSUME WantedAssumption == Wanted \union Gated \subseteq Seq(DOMAIN EnvOf)
ASSUME BoundsAssumption == MaxTargets \in Nat /\ MaxDeaths \in Nat

VARIABLES
    pc,         \* where the target under way is
    gen,        \* gen[k]: incarnations of worker k started so far
    alive,      \* alive[k]: the latest one runs
    live,       \* live[k]: the callables it has set up, as <<target, member>>
    target,     \* measuring targets begun
    outcome,    \* what the last of them came to
    plan,       \* plan[m]: the worker of member m
    status, handle, instrument, \* of each member; a handle is an incarnation
    at,         \* the member that setup, or a memory pass, is at
    pass, todo, \* the pass over the members, and who is left in it
    raised,     \* an exception is on its way through the finally
    samples     \* [member, pass, present]; `present` is history

workers == <<gen, alive, live>>
members == <<plan, status, handle, instrument>>
vars == <<pc, workers, target, outcome, members, at, pass, todo, raised, samples>>

\* One worker an environment, and one more for each copy a null gate makes.
Keys   == ({EnvOf[e] : e \in DOMAIN EnvOf} \union {Reader}) \X {"", "a", "b"}
Passes == Warmup + Rounds * Reps
Instruments == {"device", "host"}

Init ==
    /\ pc = "new"
    /\ gen = [k \in Keys |-> 0]
    /\ alive = [k \in Keys |-> FALSE]
    /\ live = [k \in Keys |-> {}]
    /\ target = 0 /\ outcome = "none"
    /\ plan = <<>> /\ status = <<>> /\ handle = <<>> /\ instrument = <<>>
    /\ at = 1 /\ pass = 0 /\ todo = {}
    /\ raised = FALSE
    /\ samples = {}

Members == DOMAIN plan

\* The members still timed, and those a finally has to drop.
Live  == {m \in Members : status[m] = "ok"}
SetUp == {m \in Members : handle[m] # 0}

Holds(m)   == alive[plan[m]] /\ gen[plan[m]] = handle[m]
Present(m) == Holds(m) /\ <<target, m>> \in live[plan[m]]

-----------------------------------------------------------------------------
(* The pool.                                                               *)

\* srv.worker(env): the worker of k, started if there is none or it is dead.
Reach(k) ==
    /\ gen' = IF alive[k] THEN gen ELSE [gen EXCEPT ![k] = @ + 1]
    /\ alive' = [alive EXCEPT ![k] = TRUE]

CloseAll ==
    /\ alive' = [k \in Keys |-> FALSE]
    /\ live' = [k \in Keys |-> {}]
    /\ UNCHANGED gen

StartServer ==
    /\ pc = "new"
    /\ pc' = "idle"
    /\ UNCHANGED <<workers, target, outcome, members, at, pass, todo, raised, samples>>

\* always_run: whatever the targets before it came to.
StopServer ==
    /\ pc = "idle"
    /\ pc' = "stopped"
    /\ CloseAll
    /\ UNCHANGED <<target, outcome, members, at, pass, todo, raised, samples>>

Deaths == MapThenSumSet(LAMBDA k : IF alive[k] THEN gen[k] - 1 ELSE gen[k], Keys)

Die(k) ==
    /\ alive[k]
    /\ Deaths < MaxDeaths
    /\ alive' = [alive EXCEPT ![k] = FALSE]
    /\ live' = [live EXCEPT ![k] = {}]
    /\ UNCHANGED <<pc, gen, target, outcome, members, at, pass, todo, raised, samples>>

-----------------------------------------------------------------------------
(* A measuring target begins and ends.  A failed one stops the build.      *)

Begin(what, workersOf) ==
    /\ pc = "idle"
    /\ outcome # "failed"
    /\ target < MaxTargets
    /\ target' = target + 1
    /\ pc' = what
    /\ plan' = workersOf
    /\ status' = [m \in DOMAIN workersOf |-> "new"]
    /\ handle' = [m \in DOMAIN workersOf |-> 0]
    /\ instrument' = [m \in DOMAIN workersOf |-> "none"]
    /\ at' = 1 /\ pass' = 0 /\ todo' = {}
    /\ raised' = FALSE
    /\ samples' = {}
    /\ UNCHANGED <<workers, outcome>>

BeginMeasure(entries) ==
    Begin("clock_before", [m \in DOMAIN entries |-> <<EnvOf[entries[m]], "">>])

\* Each entry twice, in two workers of its environment.
BeginNullGate(entries) ==
    Begin("clock_before", [m \in 1 .. 2 * Len(entries) |->
        <<EnvOf[entries[(m + 1) \div 2]], IF m % 2 = 1 THEN "a" ELSE "b">>])

BeginMemory(entries) ==
    Begin("memory", [m \in DOMAIN entries |-> <<EnvOf[entries[m]], "">>])

End(what) ==
    /\ pc' = "idle"
    /\ outcome' = what

\* The clock reader answers: before the session setup follows, after it the
\* session returns.  Off the lock, or no answer, fails the target.
ReadClock ==
    /\ pc \in {"clock_before", "clock_after"}
    /\ Reach(<<Reader, "">>)
    /\ \/ IF pc = "clock_before" THEN pc' = "setup" /\ UNCHANGED outcome ELSE End("session")
       \/ End("failed")
    /\ UNCHANGED <<live, target, members, at, pass, todo, raised, samples>>

-----------------------------------------------------------------------------
(* Setup, every member before any call.                                    *)

Raise ==
    /\ pc' = "drop"
    /\ raised' = TRUE
    /\ todo' = SetUp

\* The callable is there; another checkout's draw digest fails the member.
SetUpReady(m, clock, drawn) ==
    /\ pc = "setup" /\ m = at /\ m \in Members
    /\ Reach(plan[m])
    /\ live' = [live EXCEPT ![plan[m]] = @ \union {<<target, m>>}]
    /\ handle' = [handle EXCEPT ![m] = gen'[plan[m]]]
    /\ status' = [status EXCEPT ![m] = IF drawn THEN "ok" ELSE "failed"]
    /\ instrument' = [instrument EXCEPT ![m] = IF drawn THEN clock ELSE "none"]
    /\ at' = at + 1
    /\ UNCHANGED <<pc, target, outcome, plan, pass, todo, raised, samples>>

\* The executor raised: the entry's own failure.
SetUpFailed(m) ==
    /\ pc = "setup" /\ m = at /\ m \in Members
    /\ Reach(plan[m])
    /\ status' = [status EXCEPT ![m] = "failed"]
    /\ at' = at + 1
    /\ UNCHANGED <<pc, live, target, outcome, plan, handle, instrument, pass, todo, raised, samples>>

\* No answer, or an exception around the executor, before or after the callable
\* was kept: the session's failure.
SetUpRaises(m) ==
    /\ pc = "setup" /\ m = at /\ m \in Members
    /\ Reach(plan[m])
    /\ \E kept \in {{}, {<<target, m>>}} : live' = [live EXCEPT ![plan[m]] = @ \union kept]
    /\ Raise
    /\ UNCHANGED <<target, outcome, members, at, pass, samples>>

\* The barrier: one session, one stopwatch.
Barrier ==
    /\ pc = "setup" /\ at \notin Members
    /\ IF Cardinality({instrument[m] : m \in Live}) > 1
       THEN Raise /\ UNCHANGED pass
       ELSE pc' = "call" /\ pass' = 1 /\ todo' = Live /\ UNCHANGED raised
    /\ UNCHANGED <<workers, target, outcome, members, at, samples>>

-----------------------------------------------------------------------------
(* Calls: the warm-up passes in order, then one pass a rep in any order.   *)

InTurn(m) == m \in todo /\ (pass <= Warmup => m = Min(todo))

CallTimed(m) ==
    /\ pc = "call" /\ InTurn(m)
    /\ Present(m)
    /\ todo' = todo \ {m}
    /\ samples' = IF pass <= Warmup THEN samples
                  ELSE samples \union {[member |-> m, pass |-> pass,
                                        present |-> {n \in Members : Present(n)}]}
    /\ UNCHANGED <<pc, workers, target, outcome, members, at, pass, raised>>

CallFailedUnnoticed(m) ==
    /\ pc = "call" /\ InTurn(m)
    /\ Present(m)
    /\ todo' = todo \ {m}
    /\ UNCHANGED <<pc, workers, target, outcome, members, at, pass, raised, samples>>

\* The call raised: the member is out of the session, the rest go on.
CallFailed(m) ==
    /\ pc = "call" /\ InTurn(m)
    /\ Present(m)
    /\ todo' = todo \ {m}
    /\ status' = [status EXCEPT ![m] = "failed"]
    /\ UNCHANGED <<pc, workers, target, outcome, plan, handle, instrument, at, pass, raised, samples>>

CallLostSetUpAgain(m) ==
    /\ pc = "call" /\ InTurn(m)
    /\ ~Present(m)
    /\ Reach(plan[m])
    /\ live' = [live EXCEPT ![plan[m]] = @ \union {<<target, m>>}]
    /\ handle' = [handle EXCEPT ![m] = gen'[plan[m]]]
    /\ UNCHANGED <<pc, target, outcome, plan, status, instrument, at, pass, todo, raised, samples>>

\* The worker is gone, or has never heard of the callable.
CallLost(m) ==
    /\ pc = "call" /\ InTurn(m)
    /\ ~Present(m)
    /\ Raise
    /\ UNCHANGED <<workers, target, outcome, members, at, pass, samples>>

NextPassThenDropTimed ==
    /\ pc = "call" /\ todo = {}
    /\ IF pass < Passes THEN pass' = pass + 1 /\ todo' = Live /\ UNCHANGED pc
                        ELSE pc' = "drop" /\ todo' = Live /\ UNCHANGED pass
    /\ UNCHANGED <<workers, target, outcome, members, at, raised, samples>>

NextPass ==
    /\ pc = "call" /\ todo = {}
    /\ IF pass < Passes THEN pass' = pass + 1 /\ todo' = Live /\ UNCHANGED pc
                        ELSE pc' = "drop" /\ todo' = SetUp /\ UNCHANGED pass
    /\ UNCHANGED <<workers, target, outcome, members, at, raised, samples>>

-----------------------------------------------------------------------------
(* The finally: every member that was set up is dropped, if its worker     *)
(* runs.  The request may still raise: the worker dies after the test, or  *)
(* answers, with the callable dropped, that releasing the memory failed.   *)

DropTest ==
    /\ pc = "drop" /\ todo # {}
    /\ IF Holds(Min(todo)) THEN pc' = "dropping" /\ UNCHANGED todo
                           ELSE todo' = todo \ {Min(todo)} /\ UNCHANGED pc
    /\ UNCHANGED <<workers, target, outcome, members, at, pass, raised, samples>>

DropAsk ==
    /\ pc = "dropping"
    /\ LET m == Min(todo) IN
       /\ live' = IF Holds(m) THEN [live EXCEPT ![plan[m]] = @ \ {<<target, m>>}] ELSE live
       /\ \/ Holds(m) /\ pc' = "drop" /\ todo' = todo \ {m} /\ UNCHANGED outcome
          \/ End("failed") /\ UNCHANGED todo
    /\ UNCHANGED <<gen, alive, target, members, at, pass, raised, samples>>

DropsDone ==
    /\ pc = "drop" /\ todo = {}
    /\ IF raised THEN End("failed") ELSE pc' = "clock_after" /\ UNCHANGED outcome
    /\ UNCHANGED <<workers, target, members, at, pass, todo, raised, samples>>

-----------------------------------------------------------------------------
(* The memory pass: each entry built, called and let go in one request.    *)

MeasureMemory(m) ==
    /\ pc = "memory" /\ m = at /\ m \in Members
    /\ Reach(plan[m])
    /\ \/ /\ \E s \in {"ok", "failed"} : status' = [status EXCEPT ![m] = s]
          /\ at' = at + 1
          /\ UNCHANGED <<pc, outcome>>
       \/ End("failed") /\ UNCHANGED <<status, at>>
    /\ UNCHANGED <<live, target, plan, handle, instrument, pass, todo, raised, samples>>

MemoryDone ==
    /\ pc = "memory" /\ at \notin Members
    /\ End("memory")
    /\ UNCHANGED <<workers, target, members, at, pass, todo, raised, samples>>

-----------------------------------------------------------------------------

Setup(m) ==
    \/ \E clock \in Instruments, drawn \in BOOLEAN : SetUpReady(m, clock, drawn)
    \/ SetUpFailed(m)
    \/ SetUpRaises(m)

Next ==
    \/ StartServer
    \/ StopServer
    \/ \E k \in Keys : Die(k)
    \/ \E w \in Wanted : BeginMeasure(w) \/ BeginMemory(w)
    \/ \E w \in Gated : BeginNullGate(w)
    \/ ReadClock
    \/ \E m \in Members : Setup(m) \/ CallTimed(m) \/ CallFailed(m) \/ CallLost(m)
    \/ Barrier \/ NextPass
    \/ DropTest \/ DropAsk \/ DropsDone
    \/ \E m \in Members : MeasureMemory(m)
    \/ MemoryDone

Spec == Init /\ [][Next]_vars

TypeOK ==
    /\ pc \in {"new", "idle", "clock_before", "setup", "call", "drop", "dropping", "clock_after",
               "memory", "stopped"}
    /\ gen \in [Keys -> Nat]
    /\ alive \in [Keys -> BOOLEAN]
    /\ live \in [Keys -> SUBSET (Nat \X Nat)]
    /\ target \in 0 .. MaxTargets
    /\ outcome \in {"none", "session", "memory", "failed"}
    /\ plan \in Seq(Keys)
    /\ status \in [Members -> {"new", "ok", "failed"}]
    /\ handle \in [Members -> Nat]
    /\ instrument \in [Members -> Instruments \union {"none"}]
    /\ at \in Nat
    /\ pass \in 0 .. Passes
    /\ todo \subseteq Members
    /\ raised \in BOOLEAN
    /\ samples \subseteq [member : Members, pass : Warmup + 1 .. Passes, present : SUBSET Members]

-----------------------------------------------------------------------------
(* Safety.                                                                 *)

Returned == pc = "idle" /\ outcome = "session"

\* A session that returns has one sample of every member it calls ok in every
\* round and rep, whichever other members failed and when: what null_gate looks
\* up for both copies, and a paired verdict per round, is there
\* (executors.py:177).
EveryRepHasItsPair ==
    Returned => \A m \in Live, p \in Warmup + 1 .. Passes :
        \E s \in samples : s.member = m /\ s.pass = p

\* The barrier holds for the whole session: while any sample of a session that
\* returns was taken, every member it calls ok was set up in its worker, in the
\* incarnation that was set up behind the barrier: a worker that dies fails the
\* build (timing/__init__.py:30).  Only in the last rep may a worker that has had
\* its last call die unnoticed.
OkMembersAreAlwaysPresent ==
    Returned => \A s \in samples : s.pass < Passes => Live \subseteq s.present

\* A measurement finds the device as the pool alone leaves it: whichever entries
\* failed in the sessions before, no entry of theirs is still set up in any
\* worker when a session or a memory pass runs (pool.py:8-9).
NothingLeftOnTheDevice ==
    pc \in {"clock_before", "setup", "call", "memory"} =>
        \A k \in Keys : \A c \in live[k] : c[1] = target
=============================================================================
