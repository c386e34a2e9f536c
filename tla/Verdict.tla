------------------------------ MODULE Verdict ------------------------------
(***************************************************************************)
(* rola_devtools/verdict.py: the sessions of one candidate against one     *)
(* reference arrive one by one, and each is judged as the last of those    *)
(* stored so far.                                                          *)
(*                                                                         *)
(* Arithmetic is exact.  A median is kept doubled, in units of half a      *)
(* millisecond; a ratio in units of 1/Scale, which every doubled reference *)
(* median divides.                                                         *)
(***************************************************************************)
EXTENDS Integers, Sequences, FiniteSets, FiniteSetsExt

CONSTANTS
    Measurements,       \* the sessions there may be: [candidate, reference], rounds of reps in milliseconds
    Scale,              \* denominator of the ratios
    AlphaNum, AlphaDen, \* ALPHA
    MaxSessions         \* bound: sessions stored

\* An arm's rounds: whole samples, at least one to a round.
Arms == Seq(Seq(Nat) \ {<<>>})

ASSUME SessionsAssumption ==
    /\ \A m \in Measurements : {m.candidate, m.reference} \subseteq Arms
    /\ Scale \in Nat \ {0}
    /\ AlphaNum \in Nat \ {0} /\ AlphaDen \in Nat \ {0}
    /\ MaxSessions \in Nat

VARIABLES
    flags,      \* of the sessions stored, oldest first: was it over its limit
    latest,     \* the latest one's quantities until it is judged, or NoSession
    judged      \* the latest judgement

verdictVars == <<flags, latest, judged>>

NoSession == [rounds |-> 0]

-----------------------------------------------------------------------------
(* Order statistics and the limit (iqr, resolution, ratio_limit, session). *)

\* sorted(values)[k]: no more than k values are below it, and more than k are not above it.
Ordered(values, k) ==
    CHOOSE v \in {values[i] : i \in DOMAIN values} :
        /\ Cardinality({i \in DOMAIN values : values[i] < v}) <= k
        /\ Cardinality({i \in DOMAIN values : values[i] <= v}) > k

\* statistics.median, doubled.
Median2(values) == Ordered(values, (Len(values) - 1) \div 2) + Ordered(values, Len(values) \div 2)

Iqr(values) == Ordered(values, (3 * Len(values)) \div 4) - Ordered(values, Len(values) \div 4)

\* The smallest gap between two distinct samples of one arm, or 0.
Resolution(arms) ==
    LET Samples(arm) == UNION {{arm[i][j] : j \in DOMAIN arm[i]} : i \in DOMAIN arm}
        gaps == {gap \in UNION {{x - y : x, y \in Samples(arm)} : arm \in arms} : gap > 0}
    IN  IF gaps = {} THEN 0 ELSE Min(gaps)

Paired(m) == m.candidate # <<>> /\ Len(m.candidate) = Len(m.reference)

Medians(arm) == [i \in DOMAIN arm |-> Median2(arm[i])]

\* Every reference round has a ratio.
Resolved(m) == \A i \in DOMAIN m.reference : Median2(m.reference[i]) > 0

RatiosOfReference(c, b) == [i \in DOMAIN c |-> (b[i] * Scale) \div (IF c[i] = 0 THEN 1 ELSE c[i])]

Ratios(c, b) == [i \in DOMAIN c |-> (c[i] * Scale) \div b[i]]

\* One plus three sigmas of the spread; a spread's sigma is a 1.349th of it.
OverSpread(ratios, spread) == (Median2(ratios) - 2 * Scale) * 1349 > 6000 * spread

OverTickOfOneMs(ratios, tick, b) == (Median2(ratios) - 2 * Scale) * 1349 > 6000 * tick

\* The same of a spread of one tick of the stopwatch, relative to the reference.
OverTick(ratios, tick, b) == (Median2(ratios) - 2 * Scale) * 1349 * Median2(b) > 24000 * Scale * tick

Session(m) ==
    LET c == Medians(m.candidate)
        b == Medians(m.reference)
        ratios == Ratios(c, b)
    IN  [rounds |-> Len(c),
         diffs |-> [i \in DOMAIN c |-> c[i] - b[i]],
         tick |-> Resolution({m.candidate, m.reference}),
         violation |-> /\ OverSpread(ratios, Iqr(ratios))
                       /\ OverTick(ratios, Resolution({m.candidate, m.reference}), b)]

-----------------------------------------------------------------------------
(* The paired test: Wilcoxon's signed ranks, exactly.                      *)

AbsOf(x) == IF x < 0 THEN -x ELSE x

NonZero(diffs) == {i \in DOMAIN diffs : diffs[i] # 0}

\* The sum of the mid-ranks of `indices` among the non-zero differences, doubled:
\* of each, how many are smaller than it, how many are not larger, and one.
RankSum(diffs, indices) ==
    LET Pairs == indices \X NonZero(diffs)
    IN    Cardinality({p \in Pairs : AbsOf(diffs[p[2]]) < AbsOf(diffs[p[1]])})
        + Cardinality({p \in Pairs : AbsOf(diffs[p[2]]) <= AbsOf(diffs[p[1]])})
        + Cardinality(indices)

\* How far the ranks of a set of differences are from their mean.
FromMean(diffs, indices) == AbsOf(2 * RankSum(diffs, indices) - RankSum(diffs, NonZero(diffs)))

WPlus(diffs) == {i \in NonZero(diffs) : diffs[i] > 0}

\* p <= ALPHA, over every way the signs might have fallen.
Significant(diffs) ==
    LET hits == Cardinality({signs \in SUBSET NonZero(diffs) :
                                FromMean(diffs, signs) >= FromMean(diffs, WPlus(diffs))})
    IN  hits * AlphaDen <= AlphaNum * 2 ^ Cardinality(NonZero(diffs))

MinRoundsFloor == CHOOSE n \in 0 .. AlphaDen : 2 * AlphaDen < AlphaNum * 2 ^ (n + 1) /\ 2 * AlphaDen >= AlphaNum * 2 ^ n

\* ceil(log2(2 / ALPHA))
MinRounds == CHOOSE n \in 0 .. 2 * AlphaDen :
                 2 * AlphaDen <= AlphaNum * 2 ^ n /\ \A m \in 0 .. n - 1 : 2 * AlphaDen > AlphaNum * 2 ^ m

DiffSum(diffs) == MapThenSumSet(LAMBDA i : diffs[i], DOMAIN diffs)

PairedVerdict(diffs) ==
    CASE Len(diffs) < MinRounds -> "insufficient_data"
      [] Len(diffs) >= MinRounds /\ ~(NonZero(diffs) # {} /\ Significant(diffs)) -> "same"
      [] OTHER -> IF DiffSum(diffs) > 0 THEN "b_slower" ELSE "b_faster"

-----------------------------------------------------------------------------
(* persistence and classify.                                               *)

TrailingRun(fs) == Len(fs) - Max({0} \union {i \in DOMAIN fs : ~fs[i]})

LongestRun(fs) == Max({k \in 0 .. Len(fs) : \E i \in 0 .. Len(fs) - k : \A j \in i + 1 .. i + k : fs[j]})

PersistenceOfAnyRun(fs) ==
    CASE Len(fs) < 2 -> "insufficient_data"
      [] Len(fs) >= 2 /\ LongestRun(fs) >= 2 -> "regression"
      [] OTHER -> "no_regression"

Persistence(fs) ==
    CASE Len(fs) < 2 -> "insufficient_data"
      [] Len(fs) >= 2 /\ TrailingRun(fs) >= 2 -> "regression"
      [] Len(fs) >= 2 /\ TrailingRun(fs) < 2 /\ LongestRun(fs) >= 2 -> "suspicious"
      [] OTHER -> "no_regression"

Classify(s, fs) ==
    CASE s.rounds < MinRounds -> "insufficient_data"
      [] s.rounds >= MinRounds /\ s.violation ->
            IF PairedVerdict(s.diffs) = "b_slower" /\ Persistence(fs) = "regression"
            THEN "regression" ELSE "flagged_not_confirmed"
      [] OTHER -> IF Persistence(fs) = "suspicious" THEN "suspicious" ELSE "no_regression"

-----------------------------------------------------------------------------

Verdicts == {"none", "refused", "insufficient_data", "regression", "flagged_not_confirmed", "suspicious", "no_regression"}

VerdictTypeOK ==
    /\ flags \in Seq(BOOLEAN)
    /\ Len(flags) <= MaxSessions
    /\ latest.rounds \in Nat
    /\ latest # NoSession => /\ latest.diffs \in [1 .. latest.rounds -> Int]
                             /\ latest.violation = flags[Len(flags)]
    /\ judged \in Verdicts

VerdictInit == flags = <<>> /\ latest = NoSession /\ judged = "none"

\* A session is measured and stored with its quantities, or has none.
Measure(m) ==
    /\ latest = NoSession
    /\ Len(flags) < MaxSessions
    /\ IF Paired(m) /\ Resolved(m)
       THEN /\ latest' = Session(m)
            /\ flags' = Append(flags, latest'.violation)
            /\ UNCHANGED judged
       ELSE UNCHANGED <<flags, latest, judged>>

Judge ==
    /\ latest # NoSession
    /\ judged' = Classify(latest, flags)
    /\ latest' = NoSession
    /\ UNCHANGED flags

VerdictNext == (\E m \in Measurements : Measure(m)) \/ Judge

VerdictSpec == VerdictInit /\ [][VerdictNext]_verdictVars

-----------------------------------------------------------------------------
(* Properties.                                                             *)

\* A session over its limit is slower in at least three quarters of its
\* rounds, and by the ranks its significance is read from: gate 1's median of
\* ratios and gate 2's ranks of differences never point opposite ways, though
\* the direction paired_verdict names is a third quantity, the plain sum.
ViolationIsSlower ==
    latest # NoSession /\ latest.violation =>
        /\ Cardinality(WPlus(latest.diffs)) >= latest.rounds - latest.rounds \div 4
        /\ 2 * RankSum(latest.diffs, WPlus(latest.diffs)) > RankSum(latest.diffs, NonZero(latest.diffs))

\* Rounds that differ by no more than the stopwatch's own tick are never over
\* the limit, whatever their spread (resolution's floor under the limit).
OneTickIsNoViolation ==
    latest # NoSession /\ latest.violation =>
        \E i \in 1 .. latest.rounds : latest.diffs[i] > 2 * latest.tick

\* A judgement is refused for want of rounds exactly when no outcome of that
\* many rounds could be significant, not even every round slower (MIN_ROUNDS
\* is derived from ALPHA).
UndecidableIsSaid ==
    [][latest # NoSession /\ latest' = NoSession =>
          (judged' = "insufficient_data" <=> ~Significant([i \in 1 .. latest.rounds |-> i]))]_verdictVars

\* One unlucky session is no regression: directly before a regression the
\* candidate was judged over its limit, or unable to be judged.
NoSuddenRegression ==
    [][judged' = "regression" => judged \in {"regression", "flagged_not_confirmed", "insufficient_data"}]_verdictVars
=============================================================================
