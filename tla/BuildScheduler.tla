--------------------------- MODULE BuildScheduler ---------------------------
(***************************************************************************)
(* select(), order() and build() of rola_devtools/build/scheduler.py over  *)
(* a sequence of builds that share one cache: each selected target, in     *)
(* dependency order, is keyed, taken from the cache or run, and reported   *)
(* with a status its dependents read.                                      *)
(*                                                                         *)
(* An output is modelled by its provenance: the job, the version of the    *)
(* job's code and parameters that ran, the outputs it was handed, and for  *)
(* a target that is not cached a sample, new at every run.  A group's      *)
(* output is the statuses of its members, all that its dependents are      *)
(* handed of it.  Two outputs are equal exactly when a run could not tell  *)
(* them apart.                                                             *)
(***************************************************************************)
EXTENDS Naturals, Sequences, SequencesExt

CONSTANTS
    Targets,    \* the declared targets
    Root,       \* the public target the builds are asked for
    Deps,       \* Deps[t]: the targets t names, deps then inputs
    Selections, \* [only, skip]: the targets whose labels match the patterns
    Groups,     \* the targets with no executor
    Job,        \* Job[t]: executor and parameters; labels may share one
    AlwaysRun, Caching, Verifying,  \* the targets declared so
    Versions,   \* what a job's declared code and parameters may be
    Samples,    \* what an uncached run may come out as
    Faults,     \* whether code outside build's try may raise
    MaxBuilds,  \* bound: builds in a behaviour
    MaxEdits    \* bound: edits in a behaviour

\* Needs[t]: t and what it depends on, directly or not.
Needs[t \in Targets] == {t} \union UNION {Needs[d] : d \in ToSet(Deps[t])}

ASSUME RootAssumption == Root \in Targets /\ Deps \in [Targets -> Seq(Targets)]
\* order() refuses a cycle: of any targets, one names none of them.
ASSUME AcyclicAssumption ==
    \A S \in SUBSET Targets : S # {} => \E t \in S : ToSet(Deps[t]) \intersect S = {}
ASSUME SelectionsAssumption == Selections \subseteq [only : SUBSET Targets, skip : SUBSET Targets]
ASSUME NodeAssumption ==
    /\ Caching \subseteq Targets
    /\ AlwaysRun \intersect Caching = {} /\ Groups \intersect (AlwaysRun \union Caching) = {}
ASSUME BoundsAssumption == 0 \in Versions /\ MaxBuilds \in Nat /\ MaxEdits \in Nat

VARIABLES
    version,    \* version[j]: job j's sources now
    cache,      \* the entries: [key, output]
    asked,      \* the selection of the build under way
    order,      \* the targets it visits
    dry, force, \* its flags
    phase,      \* "idle", "building", "ended" or "aborted" (an exception left build)
    at,         \* the position in order the loop is at
    running,    \* the key of the target whose executor was started, or NoKey
    results,    \* results[t]: its Result, status "none" before it has one
    stopped,    \* a target has failed
    builds, edits

vars == <<version, cache, asked, order, dry, force, phase, at, running, results, stopped, builds, edits>>

NoKey    == <<>>
NoOutput == <<>>
NoResult == [status |-> "none", key |-> NoKey, output |-> NoOutput]

OK == {"ran", "cached", "ok"}

Statuses == OK \union {"none", "blocked", "skipped", "pending", "failed"}

Init ==
    /\ version \in [{Job[t] : t \in Targets} -> {0}]
    /\ cache = {}
    /\ asked = [only |-> {}, skip |-> {}]
    /\ order = <<>>
    /\ dry = FALSE /\ force = FALSE
    /\ phase = "idle"
    /\ at = 1
    /\ running = NoKey
    /\ results = [t \in Targets |-> NoResult]
    /\ stopped = FALSE
    /\ builds = 0 /\ edits = 0

-----------------------------------------------------------------------------
(* What a build visits.                                                    *)

\* What the items of seq, from left to right, make of start: step[item][what there is].
Along(step, start, seq) ==
    LET after[i \in 0 .. Len(seq)] == IF i = 0 THEN start ELSE step[seq[i]][after[i - 1]]
    IN after[Len(seq)]

\* visit(t) of order(): what t makes of `out`, depth first, t after what it names.
OrderFrom[t \in Targets] ==
    [out \in Seq(Targets) |->
       IF t \in ToSet(out) THEN out ELSE Append(Along(OrderFrom, out, Deps[t]), t)]

OrderOf(roots) == Along(OrderFrom, <<>>, roots)

\* The targets of `reachable` that match, and those that name one dropped before.
DroppedDirectly(reachable, skip) ==
    skip \union {t \in ToSet(reachable) : ToSet(Deps[t]) \intersect skip # {}}

Dropped(reachable, skip) ==
    LET Drop == [t \in Targets |-> [dropped \in SUBSET Targets |->
                   IF ToSet(Deps[t]) \intersect dropped = {} THEN dropped ELSE dropped \union {t}]]
    IN Along(Drop, skip, reachable)

\* The items of seq that are in S, in their order.
Among(seq, S) ==
    LET Keep == [t \in Targets |-> [out \in Seq(Targets) |-> IF t \in S THEN Append(out, t) ELSE out]]
    IN Along(Keep, <<>>, seq)

\* What `only` leaves of what the root reaches: the targets that match become
\* the roots.  A selection without patterns matches everything.
Reachable(only) == OrderOf(Among(OrderOf(<<Root>>), only))

\* The roots that select returns: of what is kept, what nothing kept needs.
Select(s) ==
    LET reachable == Reachable(s.only)
        dropped == Dropped(reachable, s.skip)
        kept == Among(reachable, Targets \ dropped)
        needed == UNION {ToSet(Deps[t]) : t \in ToSet(kept)}
    IN IF s.skip = {} THEN reachable
       ELSE Among(kept, Targets \ needed)

-----------------------------------------------------------------------------
(* Dependencies, keys and outputs.                                         *)

DepStatuses(t) == {results[d].status : d \in ToSet(Deps[t])}

\* The output a run of t gives now: it is handed the outputs of what t names.
Produce(t, sample) ==
    <<Job[t], version[Job[t]], [i \in DOMAIN Deps[t] |-> results[Deps[t][i]].output], sample>>

MemberStatuses(g) == [statuses |-> [i \in DOMAIN Deps[g] |-> results[Deps[g][i]].status]]

Deterministic == 0

UsableRoles(t) == {i \in DOMAIN Deps[t] : results[Deps[t][i]].status \in OK}

KeyOfKeysAlone(t) ==
    <<Job[t], version[Job[t]], [i \in UsableRoles(t) |-> results[Deps[t][i]].key]>>

KeyOfLabelled(t) ==
    <<t, version[Job[t]],
      [i \in UsableRoles(t) |-> <<results[Deps[t][i]].key, results[Deps[t][i]].output>>]>>

KeyOf(t) ==
    <<Job[t], version[Job[t]],
      [i \in UsableRoles(t) |-> <<results[Deps[t][i]].key, results[Deps[t][i]].output>>]>>

Hit(k) == \E e \in cache : e.key = k

Entry(k) == CHOOSE e \in cache : e.key = k

-----------------------------------------------------------------------------
(* The loop body, one target at a time.                                    *)

Visiting(t) ==
    /\ phase = "building"
    /\ running = NoKey
    /\ at <= Len(order)
    /\ t = order[at]

Done(t, status, key, output) ==
    /\ results' = [results EXCEPT ![t] = [status |-> status, key |-> key, output |-> output]]
    /\ at' = at + 1
    /\ running' = NoKey
    /\ UNCHANGED <<version, asked, order, dry, force, phase, builds, edits>>

VisitGroupNoneFailed(t) ==
    /\ Visiting(t) /\ t \in Groups
    /\ Done(t,
            IF dry /\ "pending" \in DepStatuses(t) THEN "pending"
            ELSE IF "failed" \notin DepStatuses(t) THEN "ok" ELSE "blocked",
            NoKey, MemberStatuses(t))
    /\ UNCHANGED <<cache, stopped>>

\* A group has no key and no directory; its output is the statuses of its members.
VisitGroup(t) ==
    /\ Visiting(t) /\ t \in Groups
    /\ Done(t,
            IF dry /\ "pending" \in DepStatuses(t) THEN "pending"
            ELSE IF DepStatuses(t) \subseteq OK THEN "ok" ELSE "blocked",
            NoKey, MemberStatuses(t))
    /\ UNCHANGED <<cache, stopped>>

SkipEverything(t) ==
    /\ Visiting(t) /\ t \notin Groups
    /\ stopped
    /\ Done(t, "skipped", NoKey, NoOutput)
    /\ UNCHANGED <<cache, stopped>>

Skip(t) ==
    /\ Visiting(t) /\ t \notin Groups
    /\ stopped /\ t \notin AlwaysRun
    /\ Done(t, "skipped", NoKey, NoOutput)
    /\ UNCHANGED <<cache, stopped>>

\* Neither a group nor skipped.
Considered(t) == Visiting(t) /\ t \notin Groups /\ (stopped => t \in AlwaysRun)

Wait(t) ==
    /\ Considered(t)
    /\ "pending" \in DepStatuses(t)
    /\ Done(t, "pending", NoKey, NoOutput)
    /\ UNCHANGED <<cache, stopped>>

\* A dependency without a usable result blocks a target only in a build that has
\* stopped, where only always_run targets are considered: the branch of lines
\* 153-156 is never taken (FailureIsReported).
Keyed(t) ==
    /\ Considered(t)
    /\ "pending" \notin DepStatuses(t)
    /\ DepStatuses(t) \subseteq OK \/ t \in AlwaysRun

Servable(t) == t \in Caching /\ ~force /\ Hit(KeyOf(t))

\* A hit is served as it stands under a plan, or once verify has confirmed it.
Serve(t) ==
    /\ Keyed(t)
    /\ Servable(t)
    /\ Done(t, "cached", KeyOf(t), Entry(KeyOf(t)).output)
    /\ UNCHANGED <<cache, stopped>>

\* No hit to serve, or verify says that the hit no longer holds here.
MustRun(t) == Keyed(t) /\ (Servable(t) => t \in Verifying /\ ~dry)

Plan(t) ==
    /\ MustRun(t) /\ dry
    /\ Done(t, "pending", KeyOf(t), NoOutput)
    /\ UNCHANGED <<cache, stopped>>

\* The workspace is made and the wait for the target's resources begins.
Start(t) ==
    /\ MustRun(t) /\ ~dry
    /\ running' = KeyOf(t)
    /\ UNCHANGED <<version, cache, asked, order, dry, force, phase, at, results, stopped, builds, edits>>

Running(t) ==
    /\ phase = "building"
    /\ running # NoKey
    /\ t = order[at]

\* The executor returned: a caching target's output goes into the cache.
Ran(t, sample) ==
    /\ Running(t)
    /\ t \in Caching => sample = Deterministic
    /\ LET output == Produce(t, sample) IN
       /\ cache' = IF t \in Caching
                   THEN {e \in cache : e.key # running} \union {[key |-> running, output |-> output]}
                   ELSE cache
       /\ Done(t, "ran", running, output)
    /\ UNCHANGED stopped

FailBlocked(t) ==
    /\ Running(t)
    /\ stopped' = TRUE
    /\ Done(t, "blocked", running, NoOutput)
    /\ UNCHANGED cache

\* The executor raised, or a caching target's output carries `local` facts,
\* which no key covers.
Fail(t) ==
    /\ Running(t)
    /\ stopped' = TRUE
    /\ Done(t, "failed", running, NoOutput)
    /\ UNCHANGED cache

\* What the try of build() does not catch: an error of the code digest, the cache
\* read and the verify before the run or of the cache write after it, and,
\* anywhere, a signal or a clock command that fails (SystemExit).
Escape(t) ==
    /\ Faults
    /\ Visiting(t) \/ Running(t)
    /\ phase' = "aborted"
    /\ running' = NoKey
    /\ UNCHANGED <<version, cache, asked, order, dry, force, at, results, stopped, builds, edits>>

Finish ==
    /\ phase = "building"
    /\ at > Len(order)
    /\ phase' = "ended"
    /\ UNCHANGED <<version, cache, asked, order, dry, force, at, running, results, stopped, builds, edits>>

-----------------------------------------------------------------------------
(* Between the builds, and beside them.                                    *)

\* A build begins, of a selection that matches something; a run (not a plan)
\* sweeps the cache first, and may lose any entry to the byte budget.
Begin(d, f, s) ==
    /\ phase # "building"
    /\ builds < MaxBuilds
    /\ s.only \intersect Needs[Root] # {}
    /\ builds' = builds + 1
    /\ asked' = s
    /\ order' = OrderOf(Select(s))
    /\ dry' = d /\ force' = f
    /\ phase' = "building"
    /\ at' = 1
    /\ results' = [t \in Targets |-> NoResult]
    /\ stopped' = FALSE
    /\ \/ UNCHANGED cache
       \/ ~d /\ \E e \in cache : cache' = cache \ {e}
    /\ UNCHANGED <<version, running, edits>>

\* A developer changes what a job runs.  An edit while a build runs is outside
\* the model: it may land between a target's keying and its run.
Edit(j, v) ==
    /\ phase # "building"
    /\ edits < MaxEdits
    /\ version[j] # v
    /\ version' = [version EXCEPT ![j] = v]
    /\ edits' = edits + 1
    /\ UNCHANGED <<cache, asked, order, dry, force, phase, at, running, results, stopped, builds>>

Visit(t) ==
    \/ VisitGroup(t) \/ Skip(t) \/ Wait(t)
    \/ Serve(t) \/ Plan(t) \/ Start(t)
    \/ \E s \in Samples : Ran(t, s)
    \/ Fail(t)
    \/ Escape(t)

Next ==
    \/ \E t \in Targets : Visit(t)
    \/ Finish
    \/ \E d, f \in BOOLEAN, s \in Selections : Begin(d, f, s)
    \/ \E j \in DOMAIN version, v \in Versions : Edit(j, v)

Spec == Init /\ [][Next]_vars

TypeOK ==
    /\ version \in [{Job[t] : t \in Targets} -> Versions]
    /\ asked = [only |-> {}, skip |-> {}] \/ asked \in Selections
    /\ order \in Seq(Targets)
    /\ dry \in BOOLEAN /\ force \in BOOLEAN /\ stopped \in BOOLEAN
    /\ phase \in {"idle", "building", "ended", "aborted"}
    /\ at \in 1 .. Len(order) + 1
    /\ \A t \in Targets : results[t].status \in Statuses
    /\ builds \in 0 .. MaxBuilds /\ edits \in 0 .. MaxEdits

-----------------------------------------------------------------------------
(* Safety.                                                                 *)

EachOnceAfterItsDeps(seq) ==
    /\ seq \in Seq(Targets) /\ IsInjective(seq)
    /\ \A i \in DOMAIN seq : \A d \in ToSet(Deps[seq[i]]) : \E j \in 1 .. i - 1 : seq[j] = d

\* A build visits exactly what was asked for (__main__.py:9-11): what the chosen
\* targets need, less what matches a skip pattern and whatever needs that,
\* directly or not; each once, and after everything it needs.
VisitsTheSelection ==
    phase # "idle" =>
        LET chosen == asked.only \intersect Needs[Root] IN
        /\ ToSet(order) = {t \in UNION {Needs[c] : c \in chosen} : Needs[t] \intersect asked.skip = {}}
        /\ EachOnceAfterItsDeps(order)

\* What a caching target's result holds, run now or served, is what a run of
\* it would give now: its own sources as they are, over what its dependencies
\* hand it in this build.  A cache wiped before the build would change no result
\* (cache.py:4-6).
CacheServesCurrent ==
    phase = "building" =>
        \A t \in Caching : results[t].status \in {"ran", "cached"} =>
            results[t].output = Produce(t, Deterministic)

\* A caching target is not run again for what an entry already holds, whatever
\* its label was and whatever build made it (scheduler.py:8-9), unless the
\* build was forced or its verify refused the entry.
NoSpuriousRerun ==
    [][ \A t \in Caching \ Verifying :
          results[t].status = "none" /\ results'[t].status = "ran" /\ ~force
            => \A e \in cache : e.output # results'[t].output ]_vars

\* Nothing but the tree enters a key, so that two checkouts of one tree reach one
\* key (scheduler.py:8-9).  Stated before any edit, where every label has a job of
\* its own and nothing is sampled: a job then has one key.
OneTreeOneKey ==
    edits = 0 => \A e, f \in cache : e.key[1] = f.key[1] => e.key = f.key

\* Exit status 0 means every target has a usable result (__main__.py:65): none is
\* blocked or skipped but in a build that has stopped because one failed.
FailureIsReported ==
    (\E t \in Targets : results[t].status \in {"blocked", "skipped"})
        => stopped /\ \E t \in Targets : results[t].status = "failed"

\* A build that runs to its end has run every always_run target it selected,
\* whatever failed before it and whatever it depends on.
CleanupRan ==
    phase = "ended" /\ ~dry =>
        \A t \in AlwaysRun \intersect ToSet(order) : results[t].status \in {"ran", "failed"}

\* No usable result stands on a dependency, through groups or not, that has
\* none: what needs a failed, blocked or skipped target never counts as made.
NothingBuiltOnFailure ==
    \A t \in Targets \ AlwaysRun : results[t].status \in OK => DepStatuses(t) \subseteq OK

=============================================================================
