----------------------- MODULE BuildScheduler_proofs -----------------------
(* Proofs about BuildScheduler, for every graph of targets, every sequence of *)
(* builds and edits, and any faults: what a build visits, what it reports and *)
(* what it serves from the cache.                                             *)
(*                                                                            *)
(* The order of the targets is made by recursion, over the graph and along    *)
(* sequences.  That such a recursion defines a function, and what it makes,   *)
(* is proved from the least place where it would not: the smallest number of  *)
(* a set, or a target of a set that names none of it (AcyclicAssumption).     *)
EXTENDS BuildScheduler, Integers, WellFoundedInduction, TLAPS

-----------------------------------------------------------------------------
(* Recursion.                                                                *)

LEMMA LeastElement ==
    ASSUME NEW S \in SUBSET Nat, S # {}
    PROVE  \E n \in S : \A m \in S : n <= m
<1>1. PICK n \in S : \A m \in S : ~ (<<m, n>> \in OpToRel(<, Nat))
    BY NatLessThanWellFounded, WFMin
<1>2. \A m \in S : ~ (m < n)
    BY <1>1 DEF OpToRel
<1>. QED BY <1>2

WellFounded(T, D) == \A S \in SUBSET T : S # {} => \E t \in S : D[t] \intersect S = {}

\* What G makes of a function at t depends on its values at D[t] alone.
Local(T, D, A, G) == \A t \in T : \A g, h \in [T -> A] : (\A d \in D[t] : g[d] = h[d]) => G[t][g] = G[t][h]

Fixpoint(T, G, f) == \A t \in T : f[t] = G[t][f]

LEMMA RecursionExists ==
    ASSUME NEW T, NEW D \in [T -> SUBSET T], NEW A, A # {}, NEW G \in [T -> [[T -> A] -> A]],
           WellFounded(T, D), Local(T, D, A, G)
    PROVE  \E f \in [T -> A] : Fixpoint(T, G, f)
<1> DEFINE Solves(g, C) == /\ g \in [T -> A] /\ C \in SUBSET T
                           /\ \A c \in C : D[c] \subseteq C /\ g[c] = G[c][g]
           Solved == {t \in T : \E g \in [T -> A] : \E C \in SUBSET T : t \in C /\ Solves(g, C)}
           Value(t) == CHOOSE v : \E g \in [T -> A] : \E C \in SUBSET T : t \in C /\ Solves(g, C) /\ v = g[t]
<1> DEFINE Agree(g, h, t) == \A d \in D[t] : g[d] = h[d]
<1>0. ASSUME NEW t \in T, NEW g \in [T -> A], NEW h \in [T -> A], Agree(g, h, t)
      PROVE  G[t][g] = G[t][h]
  BY ONLY <1>0, Local(T, D, A, G) DEF Local, Agree
<1> HIDE DEF Agree
<1>1. ASSUME NEW g, NEW h, NEW C, NEW E, Solves(g, C), Solves(h, E), NEW t \in C \intersect E
      PROVE  g[t] = h[t]
  <2> DEFINE Differ == {c \in C \intersect E : g[c] # h[c]}
  <2>1. SUFFICES ASSUME Differ # {} PROVE FALSE
    BY <1>1
  <2>2. PICK c \in Differ : D[c] \intersect Differ = {}
    BY <1>1, <2>1 DEF WellFounded
  <2>3. /\ g \in [T -> A] /\ h \in [T -> A] /\ c \in T /\ D[c] \subseteq C \intersect E
        /\ g[c] = G[c][g] /\ h[c] = G[c][h] /\ g[c] # h[c]
    BY <1>1, <2>2
  <2>4. Agree(g, h, c)
    BY <2>2, <2>3 DEF Agree
  <2> HIDE DEF Differ, Solves
  <2>5. G[c][g] = G[c][h]
    BY <1>0, <2>3, <2>4
  <2> QED
    BY <2>3, <2>4, <2>5
<1>2. ASSUME NEW g, NEW C, Solves(g, C), NEW t \in C PROVE t \in Solved /\ Value(t) = g[t]
  <2>1. \E v : \E f \in [T -> A] : \E E \in SUBSET T : t \in E /\ Solves(f, E) /\ v = f[t]
    BY <1>2
  <2>2. PICK f \in [T -> A] : \E E \in SUBSET T : t \in E /\ Solves(f, E) /\ Value(t) = f[t]
    BY <2>1
  <2> HIDE DEF Value, Solves
  <2>3. f[t] = g[t]
    BY <1>1, <1>2, <2>2
  <2>4. t \in Solved
    BY <1>2 DEF Solves
  <2> QED
    BY <2>2, <2>3, <2>4
<1>3. PICK a : a \in A
  OBVIOUS
<1> DEFINE h == [t \in T |-> IF t \in Solved THEN Value(t) ELSE a]
<1>4. Solves(h, Solved)
  <2>1. ASSUME NEW t \in Solved
        PROVE  \E g \in [T -> A] : \E C \in SUBSET T : t \in C /\ Solves(g, C) /\ \A c \in C : h[c] = g[c] /\ c \in Solved
    <3> HIDE DEF Value
    <3>1. PICK g \in [T -> A], C \in SUBSET T : t \in C /\ Solves(g, C)
      OBVIOUS
    <3> HIDE DEF Solves, Solved
    <3>2. \A c \in C : c \in Solved /\ Value(c) = g[c]
      BY <1>2, <3>1
    <3>3. \A c \in C : h[c] = g[c]
      BY <3>2
    <3> QED
      BY <3>1, <3>2, <3>3
  <2> HIDE DEF h
  <2>2. h \in [T -> A]
    <3>1. \A t \in Solved : Value(t) \in A
      <4> HIDE DEF Value, Solved, Solves
      <4>1. ASSUME NEW t \in Solved PROVE Value(t) \in A
        <5>1. PICK g \in [T -> A], C \in SUBSET T : t \in C /\ Solves(g, C)
          BY <4>1 DEF Solved
        <5>2. Value(t) = g[t]
          BY <1>2, <5>1
        <5>3. g[t] \in A
          BY <5>1
        <5> QED
          BY <5>2, <5>3
      <4> QED
        BY <4>1
    <3> HIDE DEF Value, Solved
    <3> QED
      BY <1>3, <3>1 DEF h
  <2> HIDE DEF Solved
  <2>3. ASSUME NEW t \in Solved PROVE D[t] \subseteq Solved /\ h[t] = G[t][h]
    <3>1. PICK g \in [T -> A], C \in SUBSET T : t \in C /\ Solves(g, C) /\ \A c \in C : h[c] = g[c] /\ c \in Solved
      BY <2>1, <2>3
    <3>2. D[t] \subseteq C /\ g[t] = G[t][g] /\ t \in T /\ g \in [T -> A]
      BY <3>1
    <3> HIDE DEF Solves
    <3>3. Agree(g, h, t)
      BY <3>1, <3>2 DEF Agree
    <3>4. G[t][g] = G[t][h]
      BY <1>0, <2>2, <3>2, <3>3
    <3> QED
      BY <3>1, <3>2, <3>3, <3>4
  <2> QED
    BY <2>2, <2>3 DEF Solved
<1>5. Solved = T
  <2>1. SUFFICES ASSUME T \ Solved # {} PROVE FALSE
    OBVIOUS
  <2>2. PICK t \in T \ Solved : D[t] \intersect (T \ Solved) = {}
    BY <2>1 DEF WellFounded
  <2>3. D[t] \subseteq Solved
    BY <2>2
  <2> DEFINE k == [h EXCEPT ![t] = G[t][h]]
             C == Solved \union {t}
  <2> HIDE DEF h, Solved
  <2>4. h \in [T -> A] /\ C \in SUBSET T /\ Solved \in SUBSET T /\ \A c \in Solved : D[c] \subseteq Solved /\ h[c] = G[c][h]
    BY <1>4
  <2>5. k \in [T -> A] /\ k[t] = G[t][h] /\ \A c \in Solved : k[c] = h[c]
    BY <2>2, <2>4
  <2>6. \A c \in C : D[c] \subseteq Solved
    BY <2>3, <2>4
  <2> HIDE DEF k
  <2>7. ASSUME NEW c \in C PROVE k[c] = G[c][k]
    <3> HIDE DEF C, Solves
    <3>1. Agree(h, k, c)
      BY <2>5, <2>6 DEF Agree
    <3>2. G[c][h] = G[c][k]
      BY <1>0, <2>4, <2>5, <3>1
    <3>3. k[c] = G[c][h]
      BY <2>4, <2>5 DEF C
    <3> QED
      BY <3>1, <3>2, <3>3
  <2>8. \A c \in C : k[c] = G[c][k]
    BY <2>7
  <2>9. Solves(k, C)
    BY <2>4, <2>5, <2>6, <2>8
  <2>10. t \in Solved
    <3> HIDE DEF Solves
    <3>1. k \in [T -> A] /\ t \in C
      BY <2>5
    <3> QED
      BY <2>4, <2>9, <3>1 DEF Solved
  <2> QED
    BY <2>2, <2>10
<1> HIDE DEF h, Solved
<1> QED
  BY <1>4, <1>5 DEF Fixpoint

Uses == [t \in Targets |-> ToSet(Deps[t])]

LEMMA UsesAreTargets == Uses \in [Targets -> SUBSET Targets] /\ \A t \in Targets : Uses[t] = ToSet(Deps[t])
BY RootAssumption DEF Uses, ToSet

\* The recursion of Needs.
LEMMA NeedsDefined ==
    /\ Needs \in [Targets -> SUBSET Targets]
    /\ \A t \in Targets : Needs[t] = {t} \union UNION {Needs[d] : d \in ToSet(Deps[t])}
<1> DEFINE A == SUBSET Targets
           G == [t \in Targets |-> [g \in [Targets -> A] |-> {t} \union UNION {g[d] : d \in Uses[t]}]]
<1>0. Uses \in [Targets -> SUBSET Targets]
  BY UsesAreTargets
<1>1. G \in [Targets -> [[Targets -> A] -> A]]
  <2>1. ASSUME NEW t \in Targets, NEW g \in [Targets -> A] PROVE {t} \union UNION {g[d] : d \in Uses[t]} \in A
    <3>1. \A d \in Uses[t] : d \in Targets /\ g[d] \subseteq Targets
      BY <2>1, UsesAreTargets
    <3> QED
      BY <3>1
  <2> QED
    BY <2>1
<1>2. Local(Targets, Uses, A, G)
  BY DEF Local
<1>3. WellFounded(Targets, Uses)
  BY AcyclicAssumption, UsesAreTargets DEF WellFounded
<1>4. A # {}
  OBVIOUS
<1> HIDE DEF A, G
<1>5. PICK f \in [Targets -> A] : Fixpoint(Targets, G, f)
  BY ONLY <1>0, <1>1, <1>2, <1>3, <1>4, RecursionExists
<1>6. \A t \in Targets : f[t] = {t} \union UNION {f[d] : d \in Uses[t]}
  BY <1>5 DEF G, Fixpoint
<1>7. f = [t \in Targets |-> {t} \union UNION {f[d] : d \in ToSet(Deps[t])}]
  BY <1>5, <1>6, UsesAreTargets
<1>8. \E g : g = [t \in Targets |-> {t} \union UNION {g[d] : d \in ToSet(Deps[t])}]
  BY <1>7
<1>9. Needs = [t \in Targets |-> {t} \union UNION {Needs[d] : d \in ToSet(Deps[t])}]
  BY <1>8 DEF Needs
<1>10. \A t \in Targets : Needs[t] = {t} \union UNION {Needs[d] : d \in ToSet(Deps[t])}
  BY <1>9
<1>11. \A t \in Targets : Needs[t] \in A
  <2> DEFINE Bad == {t \in Targets : Needs[t] \notin A}
  <2>1. SUFFICES ASSUME Bad # {} PROVE FALSE
    OBVIOUS
  <2>2. PICK t \in Bad : ToSet(Deps[t]) \intersect Bad = {}
    BY <2>1, AcyclicAssumption
  <2>3. \A d \in ToSet(Deps[t]) : Needs[d] \subseteq Targets
    BY <2>2, UsesAreTargets DEF A
  <2> QED
    BY <1>10, <2>2, <2>3 DEF A
<1> QED
  BY <1>9, <1>10, <1>11 DEF A

\* The recursion of Along.
Follows(after, A, step, start, seq) ==
    /\ after \in [0 .. Len(seq) -> A]
    /\ after[0] = start
    /\ \A i \in 1 .. Len(seq) : after[i] = step[seq[i]][after[i - 1]]
    /\ Along(step, start, seq) = after[Len(seq)]

LEMMA AlongDefined ==
    ASSUME NEW A, NEW T, NEW step, NEW start \in A, NEW seq \in Seq(T), \A t \in ToSet(seq) : step[t] \in [A -> A]
    PROVE  /\ \E after : Follows(after, A, step, start, seq)
           /\ Along(step, start, seq) \in A
<1> DEFINE P == 0 .. Len(seq)
           D == [i \in P |-> 0 .. i - 1]
           G == [i \in P |-> [g \in [P -> A] |-> IF i = 0 THEN start ELSE step[seq[i]][g[i - 1]]]]
<1>0. Len(seq) \in Nat /\ \A i \in 1 .. Len(seq) : step[seq[i]] \in [A -> A]
  BY DEF ToSet
<1>1. G \in [P -> [[P -> A] -> A]]
  <2>1. ASSUME NEW i \in P, NEW g \in [P -> A] PROVE (IF i = 0 THEN start ELSE step[seq[i]][g[i - 1]]) \in A
    <3>1. CASE i # 0
      <4>1. i - 1 \in P /\ i \in 1 .. Len(seq)
        BY <1>0, <2>1, <3>1
      <4>2. g[i - 1] \in A /\ step[seq[i]] \in [A -> A]
        BY <1>0, <4>1, <2>1
      <4> HIDE DEF P
      <4> QED
        BY <4>2, <3>1
    <3> QED
      BY <3>1
  <2> QED
    BY <2>1
<1>2. Local(P, D, A, G)
  <2> SUFFICES ASSUME NEW i \in P, NEW g \in [P -> A], NEW h \in [P -> A], \A d \in D[i] : g[d] = h[d]
               PROVE  G[i][g] = G[i][h]
    BY DEF Local
  <2>1. i # 0 => i - 1 \in D[i]
    BY <1>0
  <2>2. i # 0 => g[i - 1] = h[i - 1]
    BY <2>1
  <2> HIDE DEF P, D
  <2> QED
    BY <2>2
<1>3. WellFounded(P, D)
  <2> SUFFICES ASSUME NEW S \in SUBSET P, S # {} PROVE \E i \in S : D[i] \intersect S = {}
    BY DEF WellFounded
  <2>1. PICK i \in S : \A m \in S : i <= m
    BY LeastElement
  <2> QED
    BY <1>0, <2>1
<1>4. D \in [P -> SUBSET P]
  BY <1>0
<1>5. P = 0 .. Len(seq)
  OBVIOUS
<1>6. G = [i \in P |-> [g \in [P -> A] |-> IF i = 0 THEN start ELSE step[seq[i]][g[i - 1]]]]
  OBVIOUS
<1> HIDE DEF P, D, G
<1>7. PICK f \in [P -> A] : Fixpoint(P, G, f)
  BY ONLY start \in A, <1>1, <1>2, <1>3, <1>4, RecursionExists
<1>8. \A i \in P : f[i] = IF i = 0 THEN start ELSE step[seq[i]][f[i - 1]]
  BY <1>6, <1>7 DEF Fixpoint
<1>9. f = [i \in 0 .. Len(seq) |-> IF i = 0 THEN start ELSE step[seq[i]][f[i - 1]]]
  BY <1>5, <1>7, <1>8
<1> DEFINE after == CHOOSE g : g = [i \in 0 .. Len(seq) |-> IF i = 0 THEN start ELSE step[seq[i]][g[i - 1]]]
<1>10. Along(step, start, seq) = after[Len(seq)]
  BY DEF Along
<1>11. after = [i \in 0 .. Len(seq) |-> IF i = 0 THEN start ELSE step[seq[i]][after[i - 1]]]
  BY <1>9
<1> HIDE DEF after
<1>12. \A i \in P : after[i] = IF i = 0 THEN start ELSE step[seq[i]][after[i - 1]]
  BY <1>5, <1>11
<1>13. \A i \in P : after[i] \in A
  <2> DEFINE Bad == {i \in P : after[i] \notin A}
  <2>1. SUFFICES ASSUME Bad # {} PROVE FALSE
    OBVIOUS
  <2>a. Bad \in SUBSET Nat
    BY <1>0, <1>5
  <2>2. PICK i \in Bad : \A m \in Bad : i <= m
    BY <2>1, <2>a, LeastElement
  <2>3. i # 0
    BY <1>12, <2>2
  <2>4. i - 1 \in P /\ i - 1 \notin Bad /\ i \in 1 .. Len(seq)
    BY <1>0, <1>5, <2>2, <2>3
  <2>5. after[i - 1] \in A /\ step[seq[i]] \in [A -> A]
    BY <1>0, <2>4
  <2> QED
    BY <1>12, <2>2, <2>3, <2>5
<1>14. after \in [0 .. Len(seq) -> A]
  BY <1>5, <1>11, <1>13
<1>15. after[0] = start /\ \A i \in 1 .. Len(seq) : after[i] = step[seq[i]][after[i - 1]]
  BY <1>0, <1>5, <1>12
<1>16. Follows(after, A, step, start, seq)
  BY <1>10, <1>14, <1>15 DEF Follows
<1>17. after[Len(seq)] \in A
  BY <1>0, <1>14
<1> QED
  BY <1>10, <1>16, <1>17

SameSteps(A, g, h, seq) == \A t \in ToSet(seq) : g[t] = h[t] /\ g[t] \in [A -> A]

\* What is stepped along agrees where the steps agree.
LEMMA AlongAgrees ==
    ASSUME NEW A, NEW T, NEW g, NEW h, NEW start \in A, NEW seq \in Seq(T), SameSteps(A, g, h, seq)
    PROVE  Along(g, start, seq) = Along(h, start, seq)
<1>0. \A t \in ToSet(seq) : g[t] = h[t] /\ g[t] \in [A -> A]
  BY DEF SameSteps
<1>1. PICK a : Follows(a, A, g, start, seq)
  BY <1>0, AlongDefined
<1>2. PICK b : Follows(b, A, h, start, seq)
  BY <1>0, AlongDefined
<1> DEFINE Bad == {i \in 0 .. Len(seq) : a[i] # b[i]}
<1>3. Len(seq) \in Nat /\ Bad \in SUBSET Nat
  OBVIOUS
<1>4. SUFFICES ASSUME Bad # {} PROVE FALSE
  BY <1>1, <1>2, <1>3 DEF Follows
<1>5. PICK i \in Bad : \A m \in Bad : i <= m
  BY <1>3, <1>4, LeastElement
<1>6. i \in 1 .. Len(seq) /\ i - 1 \in 0 .. Len(seq) /\ i - 1 \notin Bad
  BY <1>1, <1>2, <1>3, <1>5 DEF Follows
<1>7. a[i - 1] = b[i - 1] /\ g[seq[i]] = h[seq[i]]
  BY <1>0, <1>6 DEF ToSet
<1> QED
  BY <1>1, <1>2, <1>5, <1>6, <1>7 DEF Follows

\* A set that holds what its members name holds what they need.
LEMMA NeedsInClosed ==
    ASSUME NEW C, C \subseteq Targets, \A c \in C : ToSet(Deps[c]) \subseteq C, NEW t \in C
    PROVE  Needs[t] \subseteq C
<1> DEFINE Bad == {c \in C : ~ (Needs[c] \subseteq C)}
<1>1. SUFFICES ASSUME Bad # {} PROVE FALSE
  OBVIOUS
<1>2. PICK c \in Bad : ToSet(Deps[c]) \intersect Bad = {}
  BY <1>1, AcyclicAssumption
<1>3. \A d \in ToSet(Deps[c]) : Needs[d] \subseteq C
  BY <1>2
<1> QED
  BY <1>2, <1>3, NeedsDefined

LEMMA NeedsAreClosed ==
    ASSUME NEW t \in Targets, NEW u \in Needs[t]
    PROVE  /\ t \in Needs[t] /\ Needs[t] \subseteq Targets
           /\ ToSet(Deps[u]) \subseteq Needs[t]
           /\ Needs[u] \subseteq Needs[t]
<1> DEFINE Closed(v) == \A w \in Needs[v] : ToSet(Deps[w]) \subseteq Needs[v]
           Bad == {v \in Targets : ~ Closed(v)}
<1>1. Bad = {}
  <2>1. SUFFICES ASSUME Bad # {} PROVE FALSE
    OBVIOUS
  <2>2. PICK v \in Bad : ToSet(Deps[v]) \intersect Bad = {}
    BY <2>1, AcyclicAssumption
  <2>3. Needs[v] = {v} \union UNION {Needs[d] : d \in ToSet(Deps[v])} /\ \A d \in ToSet(Deps[v]) : d \in Targets /\ d \in Needs[d]
    BY <2>2, NeedsDefined, UsesAreTargets
  <2>4. \A d \in ToSet(Deps[v]) : Closed(d)
    BY <2>2, <2>3
  <2>5. \A w \in Needs[v] : ToSet(Deps[w]) \subseteq Needs[v]
    BY <2>3, <2>4
  <2> QED
    BY <2>2, <2>5
<1>2. t \in Needs[t] /\ Needs[t] \subseteq Targets /\ Closed(t)
  BY <1>1, NeedsDefined
<1>3. Needs[u] \subseteq Needs[t]
  BY <1>2, NeedsInClosed
<1> QED
  BY <1>2, <1>3

LEMMA NeedsAcyclic ==
    ASSUME NEW t \in Targets, NEW d \in ToSet(Deps[t]) PROVE t \notin Needs[d]
<1> DEFINE S == {u \in Targets : t \in Needs[u]}
<1>1. SUFFICES ASSUME t \in Needs[d] PROVE FALSE
  OBVIOUS
<1>2. d \in S /\ t \in S
  BY <1>1, UsesAreTargets, NeedsDefined
<1>3. PICK u \in S : ToSet(Deps[u]) \intersect S = {}
  BY <1>2, AcyclicAssumption
<1>4. u = t
  BY <1>3, NeedsDefined, UsesAreTargets
<1> QED
  BY <1>2, <1>3, <1>4

-----------------------------------------------------------------------------
(* What order() makes.                                                       *)

\* The recursion of OrderFrom.
LEMMA OrderFromDefined ==
    /\ OrderFrom \in [Targets -> [Seq(Targets) -> Seq(Targets)]]
    /\ \A t \in Targets : \A out \in Seq(Targets) :
         OrderFrom[t][out] = IF t \in ToSet(out) THEN out ELSE Append(Along(OrderFrom, out, Deps[t]), t)
<1> DEFINE A == [Seq(Targets) -> Seq(Targets)]
           Visit1(f, t) == [out \in Seq(Targets) |-> IF t \in ToSet(out) THEN out ELSE Append(Along(f, out, Deps[t]), t)]
           G == [t \in Targets |-> [f \in [Targets -> A] |-> Visit1(f, t)]]
<1>0. \A t \in Targets : Deps[t] \in Seq(Targets)
  BY RootAssumption
<1>1. ASSUME NEW t \in Targets, NEW f \in [Targets -> A] PROVE Visit1(f, t) \in A
  <2>1. ASSUME NEW out \in Seq(Targets) PROVE Append(Along(f, out, Deps[t]), t) \in Seq(Targets)
    <3>1. \A d \in ToSet(Deps[t]) : f[d] \in [Seq(Targets) -> Seq(Targets)]
      BY <1>1, UsesAreTargets
    <3>2. Along(f, out, Deps[t]) \in Seq(Targets)
      BY <1>0, <3>1, AlongDefined
    <3> QED
      BY <3>2
  <2> QED
    BY <2>1
<1>2. \A t \in Targets, f \in [Targets -> A] : G[t][f] = Visit1(f, t)
  OBVIOUS
<1>3. ASSUME NEW t \in Targets, NEW f \in [Targets -> A], NEW g \in [Targets -> A], \A d \in Uses[t] : f[d] = g[d]
      PROVE  Visit1(f, t) = Visit1(g, t)
  <2>1. SameSteps(Seq(Targets), f, g, Deps[t])
    BY <1>3, UsesAreTargets DEF SameSteps
  <2>2. ASSUME NEW out \in Seq(Targets) PROVE Along(f, out, Deps[t]) = Along(g, out, Deps[t])
    <3> HIDE DEF G, Visit1
    <3>1. Deps[t] \in Seq(Targets)
      BY <1>0
    <3> QED
      BY ONLY <2>1, <2>2, <3>1, AlongAgrees
  <2> QED
    BY <2>2
<1>4. A # {}
  <2>1. [out \in Seq(Targets) |-> out] \in A
    OBVIOUS
  <2> QED
    BY <2>1
<1>5. A = [Seq(Targets) -> Seq(Targets)]
  OBVIOUS
<1>6. G \in [Targets -> [[Targets -> A] -> A]]
  <2> HIDE DEF A, Visit1
  <2> QED
    BY <1>1
<1> HIDE DEF A, G
<1>7. Uses \in [Targets -> SUBSET Targets]
  BY UsesAreTargets
<1>8. Local(Targets, Uses, A, G)
  <2> HIDE DEF Visit1
  <2> QED
    BY <1>2, <1>3 DEF Local
<1>9. WellFounded(Targets, Uses)
  BY AcyclicAssumption, UsesAreTargets DEF WellFounded
<1>10. PICK f \in [Targets -> A] : Fixpoint(Targets, G, f)
  BY ONLY <1>4, <1>6, <1>7, <1>8, <1>9, RecursionExists
<1>11. f = [t \in Targets |-> Visit1(f, t)]
  <2> HIDE DEF Visit1
  <2> QED
    BY <1>2, <1>10 DEF Fixpoint
<1>12. \E g : g = [t \in Targets |-> Visit1(g, t)]
  BY <1>11
<1>13. OrderFrom = [t \in Targets |-> Visit1(OrderFrom, t)]
  BY <1>12 DEF OrderFrom
<1>14. \A t \in Targets : OrderFrom[t] = Visit1(OrderFrom, t)
  <2> HIDE DEF Visit1
  <2> QED
    BY <1>13
<1>15. \A t \in Targets : \A out \in Seq(Targets) :
         OrderFrom[t][out] = IF t \in ToSet(out) THEN out ELSE Append(Along(OrderFrom, out, Deps[t]), t)
  BY <1>14
<1>16. \A t \in Targets : OrderFrom[t] \in A
  <2> DEFINE Bad == {t \in Targets : OrderFrom[t] \notin A}
  <2>1. SUFFICES ASSUME Bad # {} PROVE FALSE
    OBVIOUS
  <2>2. PICK t \in Bad : ToSet(Deps[t]) \intersect Bad = {}
    BY <2>1, AcyclicAssumption
  <2>3. \A d \in ToSet(Deps[t]) : OrderFrom[d] \in [Seq(Targets) -> Seq(Targets)]
    BY <2>2, UsesAreTargets DEF A
  <2>4. \A out \in Seq(Targets) : Along(OrderFrom, out, Deps[t]) \in Seq(Targets)
    BY <1>0, <2>3, AlongDefined
  <2>5. OrderFrom[t] = Visit1(OrderFrom, t)
    BY <1>14
  <2>6. Visit1(OrderFrom, t) \in [Seq(Targets) -> Seq(Targets)]
    BY <2>4
  <2> QED
    BY <2>2, <2>5, <2>6 DEF A
<1> QED
  BY <1>5, <1>13, <1>15, <1>16

\* `new` continues `out` by the targets of S.
Adds(out, new, S) == EachOnceAfterItsDeps(new) /\ ToSet(new) = ToSet(out) \union S

LEMMA OrderedIsClosed ==
    ASSUME NEW out, EachOnceAfterItsDeps(out)
    PROVE  /\ out \in Seq(Targets) /\ ToSet(out) \subseteq Targets
           /\ \A t \in ToSet(out) : ToSet(Deps[t]) \subseteq ToSet(out) /\ Needs[t] \subseteq ToSet(out)
<1>1. out \in Seq(Targets) /\ Len(out) \in Nat /\ DOMAIN out = 1 .. Len(out)
  BY DEF EachOnceAfterItsDeps
<1>2. ToSet(out) \subseteq Targets
  BY <1>1 DEF ToSet
<1>3. ASSUME NEW t \in ToSet(out), NEW d \in ToSet(Deps[t]) PROVE d \in ToSet(out)
  <2>1. PICK i \in DOMAIN out : out[i] = t
    BY DEF ToSet
  <2>2. PICK j \in 1 .. i - 1 : out[j] = d
    BY <2>1 DEF EachOnceAfterItsDeps
  <2>3. j \in DOMAIN out
    BY <1>1, <2>1
  <2> QED
    BY <2>2, <2>3 DEF ToSet
<1>4. \A t \in ToSet(out) : Needs[t] \subseteq ToSet(out)
  BY <1>2, <1>3, NeedsInClosed
<1> QED
  BY <1>1, <1>2, <1>3, <1>4

LEMMA AlongAdds ==
    ASSUME NEW seq \in Seq(Targets), NEW start, EachOnceAfterItsDeps(start),
           \A t \in ToSet(seq) : \A out : EachOnceAfterItsDeps(out) => Adds(out, OrderFrom[t][out], Needs[t])
    PROVE  Adds(start, Along(OrderFrom, start, seq), UNION {Needs[t] : t \in ToSet(seq)})
<1>1. start \in Seq(Targets)
  BY DEF EachOnceAfterItsDeps
<1>2. \A t \in ToSet(seq) : t \in Targets /\ OrderFrom[t] \in [Seq(Targets) -> Seq(Targets)]
  BY OrderFromDefined DEF ToSet
<1>3. PICK a : Follows(a, Seq(Targets), OrderFrom, start, seq)
  BY <1>1, <1>2, AlongDefined
<1> DEFINE Before(i) == UNION {Needs[seq[j]] : j \in 1 .. i}
           Bad == {i \in 0 .. Len(seq) : ~ Adds(start, a[i], Before(i))}
<1>4. Len(seq) \in Nat /\ Bad \in SUBSET Nat
  OBVIOUS
<1>5. Bad = {}
  <2>1. SUFFICES ASSUME Bad # {} PROVE FALSE
    OBVIOUS
  <2>2. PICK i \in Bad : \A m \in Bad : i <= m
    BY <1>4, <2>1, LeastElement
  <2>3. i # 0
    BY <1>3, <2>2 DEF Follows, Adds
  <2>4. i \in 1 .. Len(seq) /\ i - 1 \in 0 .. Len(seq) /\ i - 1 \notin Bad
    <3> HIDE DEF Before
    <3>1. i \in 0 .. Len(seq)
      BY <2>2
    <3>2. i \in 1 .. Len(seq) /\ i - 1 \in 0 .. Len(seq) /\ ~ (i <= i - 1)
      BY <1>4, <2>3, <3>1
    <3> QED
      BY <2>2, <3>2
  <2>5. Adds(start, a[i - 1], Before(i - 1)) /\ seq[i] \in ToSet(seq)
    BY <2>4 DEF ToSet
  <2>6. a[i] = OrderFrom[seq[i]][a[i - 1]]
    BY <1>3, <2>4 DEF Follows
  <2>7. Adds(a[i - 1], a[i], Needs[seq[i]])
    BY <2>5, <2>6 DEF Adds
  <2>8. Before(i) = Before(i - 1) \union Needs[seq[i]]
    BY <2>4
  <2>9. Adds(start, a[i], Before(i))
    BY <2>5, <2>7, <2>8 DEF Adds
  <2> QED
    BY <2>2, <2>9
<1>6. Adds(start, a[Len(seq)], Before(Len(seq)))
  <2> HIDE DEF Before
  <2>1. Len(seq) \in 0 .. Len(seq)
    BY <1>4
  <2> QED
    BY <1>5, <2>1
<1>7. Before(Len(seq)) = UNION {Needs[t] : t \in ToSet(seq)}
  BY DEF ToSet
<1> QED
  BY <1>3, <1>6, <1>7 DEF Follows

\* Appending a target that is not there, after all that it names.
LEMMA AppendOrdered ==
    ASSUME NEW out, EachOnceAfterItsDeps(out), NEW t \in Targets, t \notin ToSet(out), ToSet(Deps[t]) \subseteq ToSet(out)
    PROVE  EachOnceAfterItsDeps(Append(out, t)) /\ ToSet(Append(out, t)) = ToSet(out) \union {t}
<1> DEFINE new == Append(out, t)
<1>1. out \in Seq(Targets) /\ Len(out) \in Nat /\ DOMAIN out = 1 .. Len(out) /\ IsInjective(out)
  BY DEF EachOnceAfterItsDeps
<1>2. /\ new \in Seq(Targets) /\ DOMAIN new = 1 .. Len(out) + 1
      /\ new[Len(out) + 1] = t /\ \A i \in 1 .. Len(out) : new[i] = out[i]
  BY <1>1
<1> HIDE DEF new
<1>3. \A i \in DOMAIN new : i \in 1 .. Len(out) \/ i = Len(out) + 1
  BY <1>1, <1>2
<1>4. \A i \in 1 .. Len(out) : i \in DOMAIN new /\ new[i] \in ToSet(out) /\ i \in DOMAIN out
  BY <1>1, <1>2 DEF ToSet
<1>5. ToSet(new) = ToSet(out) \union {t}
  <2>1. ToSet(out) \subseteq ToSet(new)
    BY <1>1, <1>2, <1>4 DEF ToSet
  <2>2. t \in ToSet(new)
    BY <1>1, <1>2 DEF ToSet
  <2>3. ToSet(new) \subseteq ToSet(out) \union {t}
    BY <1>2, <1>3, <1>4 DEF ToSet
  <2> QED
    BY <2>1, <2>2, <2>3
<1>6. IsInjective(new)
  BY <1>1, <1>2, <1>3, <1>4 DEF IsInjective
<1>7. ASSUME NEW i \in DOMAIN new, NEW d \in ToSet(Deps[new[i]]) PROVE \E j \in 1 .. i - 1 : new[j] = d
  <2>1. CASE i \in 1 .. Len(out)
    <3>1. PICK j \in 1 .. i - 1 : out[j] = d
      BY <1>2, <1>4, <1>7, <2>1 DEF EachOnceAfterItsDeps
    <3>2. j \in 1 .. Len(out)
      BY <1>1, <2>1, <3>1
    <3> QED
      BY <1>2, <3>1, <3>2
  <2>2. CASE i = Len(out) + 1
    <3>0. d \in ToSet(out)
      BY <1>2, <1>7, <2>2
    <3>1. PICK j \in DOMAIN out : out[j] = d
      BY <3>0 DEF ToSet
    <3> QED
      BY <1>1, <1>2, <2>2, <3>1
  <2> QED
    BY <1>3, <2>1, <2>2
<1> QED
  BY <1>2, <1>5, <1>6, <1>7 DEF EachOnceAfterItsDeps, new

LEMMA AppendToSet ==
    ASSUME NEW out \in Seq(Targets), NEW t \in Targets PROVE ToSet(Append(out, t)) = ToSet(out) \union {t}
<1> DEFINE new == Append(out, t)
<1>1. Len(out) \in Nat /\ DOMAIN out = 1 .. Len(out) /\ DOMAIN new = 1 .. Len(out) + 1
  OBVIOUS
<1>2. new[Len(out) + 1] = t /\ \A i \in 1 .. Len(out) : new[i] = out[i]
  OBVIOUS
<1> HIDE DEF new
<1>3. \A i \in DOMAIN new : i \in DOMAIN out \/ i = Len(out) + 1
  BY <1>1
<1>4. DOMAIN out \subseteq DOMAIN new /\ Len(out) + 1 \in DOMAIN new
  BY <1>1
<1> QED
  BY <1>1, <1>2, <1>3, <1>4 DEF ToSet, new

LEMMA VisitAdds ==
    ASSUME NEW t \in Targets, NEW out, EachOnceAfterItsDeps(out)
    PROVE  Adds(out, OrderFrom[t][out], Needs[t])
<1> DEFINE Good(u) == \A o : EachOnceAfterItsDeps(o) => Adds(o, OrderFrom[u][o], Needs[u])
           Bad == {u \in Targets : ~ Good(u)}
<1>1. SUFFICES ASSUME Bad # {} PROVE FALSE
  OBVIOUS
<1>2. PICK u \in Bad : ToSet(Deps[u]) \intersect Bad = {}
  BY <1>1, AcyclicAssumption
<1>3. PICK o : EachOnceAfterItsDeps(o) /\ ~ Adds(o, OrderFrom[u][o], Needs[u])
  BY <1>2
<1>4. \A d \in ToSet(Deps[u]) : d \in Targets /\ Good(d)
  BY <1>2, UsesAreTargets
<1>5. o \in Seq(Targets) /\ u \in Targets /\ Deps[u] \in Seq(Targets)
  BY <1>2, <1>3, RootAssumption DEF EachOnceAfterItsDeps
<1>6. CASE u \in ToSet(o)
  <2>1. Needs[u] \subseteq ToSet(o)
    BY <1>3, <1>6, OrderedIsClosed
  <2>2. OrderFrom[u][o] = o
    BY <1>5, <1>6, OrderFromDefined
  <2> QED
    BY <1>3, <2>1, <2>2 DEF Adds
<1>7. CASE u \notin ToSet(o)
  <2> DEFINE with == Along(OrderFrom, o, Deps[u])
             theirs == UNION {Needs[d] : d \in ToSet(Deps[u])}
  <2>1. OrderFrom[u][o] = Append(with, u)
    BY <1>5, <1>7, OrderFromDefined
  <2>2. Adds(o, with, theirs)
    BY <1>3, <1>4, <1>5, AlongAdds
  <2>3. u \notin theirs
    BY <1>5, NeedsAcyclic
  <2>4. ToSet(Deps[u]) \subseteq theirs
    BY <1>4, NeedsDefined
  <2>5. Needs[u] = {u} \union theirs
    BY <1>5, NeedsDefined
  <2> HIDE DEF with, theirs
  <2>6. EachOnceAfterItsDeps(Append(with, u)) /\ ToSet(Append(with, u)) = ToSet(with) \union {u}
    BY <1>5, <1>7, <2>2, <2>3, <2>4, AppendOrdered DEF Adds
  <2>7. Adds(o, Append(with, u), Needs[u])
    BY <2>2, <2>5, <2>6 DEF Adds
  <2> QED
    BY <1>3, <2>1, <2>7
<1> QED
  BY <1>6, <1>7

\* order(roots): what the roots need, each once, after what it needs itself.
LEMMA OrderIsRight ==
    ASSUME NEW roots \in Seq(Targets)
    PROVE  /\ EachOnceAfterItsDeps(OrderOf(roots))
           /\ ToSet(OrderOf(roots)) = UNION {Needs[r] : r \in ToSet(roots)}
<1>1. EachOnceAfterItsDeps(<<>>) /\ ToSet(<<>>) = {}
  BY DEF EachOnceAfterItsDeps, ToSet, IsInjective
<1>2. \A t \in ToSet(roots) : t \in Targets
  BY DEF ToSet
<1>3. Adds(<<>>, OrderOf(roots), UNION {Needs[r] : r \in ToSet(roots)})
  BY <1>1, <1>2, VisitAdds, AlongAdds DEF OrderOf
<1> QED
  BY <1>1, <1>3 DEF Adds

-----------------------------------------------------------------------------
(* What select() leaves of it.                                               *)

LEMMA AmongIsRight ==
    ASSUME NEW seq \in Seq(Targets), NEW S
    PROVE  Among(seq, S) \in Seq(Targets) /\ ToSet(Among(seq, S)) = ToSet(seq) \intersect S
<1> DEFINE Keep == [t \in Targets |-> [out \in Seq(Targets) |-> IF t \in S THEN Append(out, t) ELSE out]]
<1>1. Among(seq, S) = Along(Keep, <<>>, seq)
  BY DEF Among
<1>2. \A t \in Targets : \A out \in Seq(Targets) : Keep[t][out] = IF t \in S THEN Append(out, t) ELSE out
  OBVIOUS
<1>3. \A t \in Targets : Keep[t] \in [Seq(Targets) -> Seq(Targets)]
  OBVIOUS
<1>4. Len(seq) \in Nat /\ \A i \in 1 .. Len(seq) : seq[i] \in Targets /\ seq[i] \in ToSet(seq)
  BY DEF ToSet
<1> HIDE DEF Keep
<1>5. <<>> \in Seq(Targets) /\ \A t \in ToSet(seq) : Keep[t] \in [Seq(Targets) -> Seq(Targets)]
  BY <1>3 DEF ToSet
<1>6. PICK a : Follows(a, Seq(Targets), Keep, <<>>, seq)
  BY <1>5, AlongDefined
<1>7. \A i \in 0 .. Len(seq) : a[i] \in Seq(Targets)
  BY <1>6 DEF Follows
<1> DEFINE First(i) == {seq[j] : j \in 1 .. i} \intersect S
           Bad == {i \in 0 .. Len(seq) : ToSet(a[i]) # First(i)}
<1>8. Bad \in SUBSET Nat
  BY <1>4
<1>9. Bad = {}
  <2>1. SUFFICES ASSUME Bad # {} PROVE FALSE
    OBVIOUS
  <2>2. PICK i \in Bad : \A m \in Bad : i <= m
    BY <1>8, <2>1, LeastElement
  <2>3. i # 0
    BY <1>6, <2>2 DEF Follows, ToSet
  <2>4. i \in 1 .. Len(seq) /\ i - 1 \in 0 .. Len(seq) /\ i - 1 \notin Bad
    <3> HIDE DEF First
    <3>1. i \in 0 .. Len(seq)
      BY <2>2
    <3>2. i \in 1 .. Len(seq) /\ i - 1 \in 0 .. Len(seq) /\ ~ (i <= i - 1)
      BY <1>4, <2>3, <3>1
    <3> QED
      BY <2>2, <3>2
  <2>5. ToSet(a[i - 1]) = First(i - 1) /\ a[i - 1] \in Seq(Targets) /\ seq[i] \in Targets
    BY <1>4, <1>7, <2>4
  <2>6. a[i] = IF seq[i] \in S THEN Append(a[i - 1], seq[i]) ELSE a[i - 1]
    BY <1>2, <1>6, <2>4, <2>5 DEF Follows
  <2>7. First(i) = IF seq[i] \in S THEN First(i - 1) \union {seq[i]} ELSE First(i - 1)
    BY <2>4
  <2>8. ToSet(Append(a[i - 1], seq[i])) = ToSet(a[i - 1]) \union {seq[i]}
    BY <2>5, AppendToSet
  <2> QED
    BY <2>2, <2>5, <2>6, <2>7, <2>8
<1>10. Len(seq) \in 0 .. Len(seq)
  BY <1>4
<1>11. ToSet(a[Len(seq)]) = First(Len(seq))
  BY <1>9, <1>10
<1>12. {seq[j] : j \in 1 .. Len(seq)} = ToSet(seq)
  BY DEF ToSet
<1> QED
  BY <1>1, <1>6, <1>7, <1>10, <1>11, <1>12 DEF Follows

\* Over an order with dependencies first, one pass drops whatever needs a skipped target.
LEMMA DroppedIsRight ==
    ASSUME NEW seq, EachOnceAfterItsDeps(seq), NEW skip \in SUBSET Targets
    PROVE  Dropped(seq, skip) = skip \union {t \in ToSet(seq) : Needs[t] \intersect skip # {}}
<1> DEFINE Drop == [t \in Targets |-> [dropped \in SUBSET Targets |->
                      IF ToSet(Deps[t]) \intersect dropped = {} THEN dropped ELSE dropped \union {t}]]
<1>0. seq \in Seq(Targets) /\ Len(seq) \in Nat /\ DOMAIN seq = 1 .. Len(seq)
  BY DEF EachOnceAfterItsDeps
<1>1. Dropped(seq, skip) = Along(Drop, skip, seq)
  BY DEF Dropped
<1>2. \A t \in Targets : \A dropped \in SUBSET Targets :
        Drop[t][dropped] = IF ToSet(Deps[t]) \intersect dropped = {} THEN dropped ELSE dropped \union {t}
  OBVIOUS
<1>3. \A t \in Targets : Drop[t] \in [SUBSET Targets -> SUBSET Targets]
  OBVIOUS
<1>4. \A i \in 1 .. Len(seq) : seq[i] \in Targets /\ seq[i] \in ToSet(seq)
  BY <1>0 DEF ToSet
<1> HIDE DEF Drop
<1>5. \A t \in ToSet(seq) : Drop[t] \in [SUBSET Targets -> SUBSET Targets]
  BY <1>3, <1>0, OrderedIsClosed
<1>6. PICK a : Follows(a, SUBSET Targets, Drop, skip, seq)
  BY <1>0, <1>5, AlongDefined
<1>7. \A i \in 0 .. Len(seq) : a[i] \in SUBSET Targets
  BY <1>6 DEF Follows
<1> DEFINE First(i) == skip \union {seq[j] : j \in {k \in 1 .. i : Needs[seq[k]] \intersect skip # {}}}
           Bad == {i \in 0 .. Len(seq) : a[i] # First(i)}
<1>8. Bad \in SUBSET Nat
  BY <1>0
<1>9. Bad = {}
  <2>1. SUFFICES ASSUME Bad # {} PROVE FALSE
    OBVIOUS
  <2>2. PICK i \in Bad : \A m \in Bad : i <= m
    BY <1>8, <2>1, LeastElement
  <2>3. i # 0
    BY <1>6, <2>2 DEF Follows
  <2>4. i \in 1 .. Len(seq) /\ i - 1 \in 0 .. Len(seq) /\ i - 1 \notin Bad
    <3> HIDE DEF First
    <3>1. i \in 0 .. Len(seq)
      BY <2>2
    <3>2. i \in 1 .. Len(seq) /\ i - 1 \in 0 .. Len(seq) /\ ~ (i <= i - 1)
      BY <1>0, <2>3, <3>1
    <3> QED
      BY <2>2, <3>2
  <2> DEFINE t == seq[i]
  <2>5. a[i - 1] = First(i - 1) /\ a[i - 1] \in SUBSET Targets /\ t \in Targets /\ i \in DOMAIN seq
    BY <1>0, <1>4, <1>7, <2>4
  <2>6. a[i] = IF ToSet(Deps[t]) \intersect First(i - 1) = {} THEN First(i - 1) ELSE First(i - 1) \union {t}
    <3>1. a[i] = Drop[t][a[i - 1]]
      BY <1>6, <2>4 DEF Follows
    <3> HIDE DEF First, t
    <3> QED
      BY <1>2, <2>5, <3>1
  <2>7. ToSet(Deps[t]) \intersect First(i - 1) # {} => Needs[t] \intersect skip # {}
    <3>1. SUFFICES ASSUME NEW d \in ToSet(Deps[t]), d \in First(i - 1) PROVE Needs[t] \intersect skip # {}
      OBVIOUS
    <3>2. d \in Targets /\ Needs[d] \subseteq Needs[t] /\ d \in Needs[d]
      BY <2>5, UsesAreTargets, NeedsDefined
    <3>3. Needs[d] \intersect skip # {}
      BY <3>1, <3>2
    <3> QED
      BY <3>2, <3>3
  <2>8. Needs[t] \intersect skip # {} => t \in skip \/ ToSet(Deps[t]) \intersect First(i - 1) # {}
    <3>1. SUFFICES ASSUME NEW s \in Needs[t], s \in skip, t \notin skip PROVE ToSet(Deps[t]) \intersect First(i - 1) # {}
      OBVIOUS
    <3>2. PICK d \in ToSet(Deps[t]) : s \in Needs[d]
      BY <2>5, <3>1, NeedsDefined
    <3>3. PICK j \in 1 .. i - 1 : seq[j] = d
      BY <2>5 DEF EachOnceAfterItsDeps
    <3>4. Needs[seq[j]] \intersect skip # {}
      BY <3>1, <3>2, <3>3
    <3> QED
      BY <3>3, <3>4
  <2>9. First(i) = IF Needs[t] \intersect skip # {} THEN First(i - 1) \union {t} ELSE First(i - 1)
    BY <2>4
  <2>10. t \in skip => First(i - 1) \union {t} = First(i - 1)
    OBVIOUS
  <2> HIDE DEF First
  <2> QED
    BY <2>2, <2>6, <2>7, <2>8, <2>9, <2>10
<1>10. Len(seq) \in 0 .. Len(seq)
  BY <1>0
<1>11. a[Len(seq)] = First(Len(seq))
  BY <1>9, <1>10
<1>12. {seq[j] : j \in {k \in 1 .. Len(seq) : Needs[seq[k]] \intersect skip # {}}} = {t \in ToSet(seq) : Needs[t] \intersect skip # {}}
  BY <1>0 DEF ToSet
<1> QED
  BY <1>1, <1>6, <1>11, <1>12 DEF Follows

\* A selection leaves, as roots, what the kept targets need and nothing else.
LEMMA SelectIsRight ==
    ASSUME NEW s \in Selections
    PROVE  /\ Select(s) \in Seq(Targets)
           /\ UNION {Needs[r] : r \in ToSet(Select(s))}
                = {t \in UNION {Needs[c] : c \in s.only \intersect Needs[Root]} : Needs[t] \intersect s.skip = {}}
<1> DEFINE reachable == Reachable(s.only)
           wanted == UNION {Needs[c] : c \in s.only \intersect Needs[Root]}
           dropped == Dropped(reachable, s.skip)
           kept == Among(reachable, Targets \ dropped)
           needed == UNION {ToSet(Deps[t]) : t \in ToSet(kept)}
           final == {t \in wanted : Needs[t] \intersect s.skip = {}}
<1>0. SUFFICES Select(s) \in Seq(Targets) /\ UNION {Needs[r] : r \in ToSet(Select(s))} = final
  OBVIOUS
<1>1. s.skip \in SUBSET Targets /\ Root \in Targets
  BY SelectionsAssumption, RootAssumption
<1>2. EachOnceAfterItsDeps(reachable) /\ ToSet(reachable) = wanted
  <2>1. <<Root>> \in Seq(Targets) /\ ToSet(<<Root>>) = {Root}
    BY <1>1 DEF ToSet
  <2>2. ToSet(OrderOf(<<Root>>)) = Needs[Root] /\ OrderOf(<<Root>>) \in Seq(Targets)
    <3>1. /\ EachOnceAfterItsDeps(OrderOf(<<Root>>))
          /\ ToSet(OrderOf(<<Root>>)) = UNION {Needs[r] : r \in ToSet(<<Root>>)}
      BY <2>1, OrderIsRight
    <3>2. UNION {Needs[r] : r \in {Root}} = Needs[Root]
      OBVIOUS
    <3>3. OrderOf(<<Root>>) \in Seq(Targets)
      BY <3>1 DEF EachOnceAfterItsDeps
    <3> QED
      BY <2>1, <3>1, <3>2, <3>3
  <2>3. /\ Among(OrderOf(<<Root>>), s.only) \in Seq(Targets)
        /\ ToSet(Among(OrderOf(<<Root>>), s.only)) = s.only \intersect Needs[Root]
    BY <2>2, AmongIsRight
  <2> QED
    BY <2>3, OrderIsRight DEF Reachable
<1>3. /\ reachable \in Seq(Targets) /\ wanted \subseteq Targets
      /\ \A t \in wanted : t \in Needs[t] /\ Needs[t] \subseteq wanted
  <2> HIDE DEF reachable, wanted
  <2>1. reachable \in Seq(Targets) /\ wanted \subseteq Targets /\ \A t \in wanted : Needs[t] \subseteq wanted
    BY <1>2, OrderedIsClosed
  <2> QED
    BY <2>1, NeedsDefined
<1>4. dropped = s.skip \union {t \in wanted : Needs[t] \intersect s.skip # {}}
  BY <1>1, <1>2, DroppedIsRight
<1>5. kept \in Seq(Targets) /\ ToSet(kept) = final
  <2>1. kept \in Seq(Targets) /\ ToSet(kept) = wanted \intersect (Targets \ dropped)
    BY <1>2, <1>3, AmongIsRight
  <2> HIDE DEF dropped, wanted, kept
  <2> QED
    BY <1>3, <1>4, <2>1
<1>6. \A t \in final : Needs[t] \subseteq final
  BY <1>3, NeedsAreClosed
<1>7. Select(s) = IF s.skip = {} THEN reachable ELSE Among(kept, Targets \ needed)
  BY DEF Select
<1>8. CASE s.skip = {}
  <2>1. Select(s) = reachable /\ final = wanted
    BY <1>7, <1>8
  <2> HIDE DEF reachable, wanted
  <2>2. UNION {Needs[r] : r \in wanted} = wanted
    BY <1>3
  <2>3. Select(s) \in Seq(Targets) /\ ToSet(Select(s)) = wanted
    BY <1>2, <1>3, <2>1
  <2> HIDE DEF final
  <2> QED
    BY <2>1, <2>2, <2>3
<1>9. CASE s.skip # {}
  <2> DEFINE roots == Among(kept, Targets \ needed)
             Covered == UNION {Needs[r] : r \in ToSet(roots)}
  <2>1. roots \in Seq(Targets) /\ ToSet(roots) = final \ needed
    <3>1. roots \in Seq(Targets) /\ ToSet(roots) = ToSet(kept) \intersect (Targets \ needed)
      BY <1>5, AmongIsRight
    <3> QED
      BY <1>3, <1>5, <3>1
  <2>2. needed = UNION {ToSet(Deps[t]) : t \in final}
    BY <1>5
  <2> HIDE DEF roots, needed, kept, dropped
  <2>3. Covered \subseteq final
    BY <1>6, <2>1
  <2>4. ASSUME NEW t \in final PROVE t \in Covered
    <3> DEFINE Bad == {i \in Nat : \E j \in DOMAIN reachable : reachable[j] \in final \ Covered /\ i + j = Len(reachable)}
    <3>1. SUFFICES ASSUME t \notin Covered PROVE FALSE
      OBVIOUS
    <3>2. Len(reachable) \in Nat /\ DOMAIN reachable = 1 .. Len(reachable)
      BY <1>3
    <3>3. Bad # {}
      <4>1. PICK j \in DOMAIN reachable : reachable[j] = t
        BY <1>2 DEF ToSet
      <4> HIDE DEF reachable, Covered, final
      <4>2. Len(reachable) - j \in Nat /\ (Len(reachable) - j) + j = Len(reachable)
        BY <3>2, <4>1
      <4>3. Len(reachable) - j \in Bad
        BY <3>1, <4>1, <4>2
      <4> QED
        BY <4>3
    <3>4. PICK i \in Bad : \A m \in Bad : i <= m
      BY <3>3, LeastElement
    <3>5. PICK j \in DOMAIN reachable : reachable[j] \in final \ Covered /\ i + j = Len(reachable)
      BY <3>4
    <3> HIDE DEF reachable, Covered, final
    <3>6. reachable[j] \in needed
      <4>1. ASSUME reachable[j] \notin needed PROVE FALSE
        <5>1. reachable[j] \in ToSet(roots) /\ reachable[j] \in Needs[reachable[j]]
          BY <1>3, <2>1, <3>5, <4>1 DEF final
        <5> QED
          BY <3>5, <5>1 DEF Covered
      <4> QED
        BY <4>1
    <3>7. PICK u \in final : reachable[j] \in ToSet(Deps[u])
      BY <2>2, <3>6
    <3>8. PICK k \in DOMAIN reachable : reachable[k] = u
      BY <1>2 DEF ToSet, final
    <3>9. PICK l \in 1 .. k - 1 : reachable[l] = reachable[j]
      BY <1>2, <3>7, <3>8 DEF EachOnceAfterItsDeps
    <3>10. l = j /\ j < k
      BY <1>2, <3>2, <3>5, <3>8, <3>9 DEF EachOnceAfterItsDeps, IsInjective
    <3>11. u \notin Covered
      <4>1. ASSUME u \in Covered PROVE FALSE
        <5>0. \A r \in ToSet(roots) : r \in Targets
          BY <2>1 DEF ToSet
        <5>1. PICK r \in ToSet(roots) : u \in Needs[r] /\ r \in Targets
          BY <4>1, <5>0 DEF Covered
        <5>2. reachable[j] \in Needs[r]
          BY <3>7, <5>1, NeedsAreClosed
        <5> QED
          BY <3>5, <5>1, <5>2 DEF Covered
      <4> QED
        BY <4>1
    <3>12. Len(reachable) - k \in Nat /\ (Len(reachable) - k) + k = Len(reachable) /\ ~ (i <= Len(reachable) - k)
      BY <3>2, <3>5, <3>8, <3>10
    <3>13. Len(reachable) - k \in Bad
      BY <3>7, <3>8, <3>11, <3>12
    <3> QED
      BY <3>4, <3>12, <3>13
  <2> QED
    BY <1>7, <1>9, <2>1, <2>3, <2>4 DEF roots
<1> QED
  BY <1>8, <1>9

\* A build visits what was asked for and all that it needs, less what was to be
\* skipped and all that needs it; each once, after everything it needs.
THEOREM BuildsVisitTheSelection == Spec => []VisitsTheSelection
<1>1. Init => VisitsTheSelection
  BY DEF Init, VisitsTheSelection
<1>2. VisitsTheSelection /\ [Next]_vars => VisitsTheSelection'
  <2> SUFFICES ASSUME VisitsTheSelection, [Next]_vars PROVE VisitsTheSelection'
    OBVIOUS
  <2>1. ASSUME NEW d \in BOOLEAN, NEW f \in BOOLEAN, NEW s \in Selections, Begin(d, f, s) PROVE VisitsTheSelection'
    <3>1. asked' = s /\ order' = OrderOf(Select(s))
      BY <2>1 DEF Begin
    <3>2. /\ EachOnceAfterItsDeps(OrderOf(Select(s)))
          /\ ToSet(OrderOf(Select(s)))
               = {t \in UNION {Needs[c] : c \in s.only \intersect Needs[Root]} : Needs[t] \intersect s.skip = {}}
      BY SelectIsRight, OrderIsRight
    <3> QED
      BY <3>1, <3>2 DEF VisitsTheSelection, EachOnceAfterItsDeps
  <2>2. ASSUME asked' = asked, order' = order, phase = "idle" => phase' = "idle" PROVE VisitsTheSelection'
    BY <2>2 DEF VisitsTheSelection, EachOnceAfterItsDeps
  <2>3. ASSUME NEW t \in Targets, Visit(t) PROVE asked' = asked /\ order' = order /\ phase = "building"
    BY <2>3 DEF Visit, VisitGroup, Skip, Wait, Serve, Plan, Start, Ran, Fail, Escape, Done, MustRun, Keyed, Considered, Visiting, Running
  <2>4. CASE Finish \/ (\E j, v : Edit(j, v)) \/ UNCHANGED vars
    <3>1. asked' = asked /\ order' = order /\ (phase = "idle" => phase' = "idle")
      BY <2>4 DEF Finish, Edit, vars
    <3> QED
      BY <2>2, <3>1
  <2> QED
    BY <2>1, <2>2, <2>3, <2>4 DEF Next
<1> QED
  BY <1>1, <1>2, PTL DEF Spec

-----------------------------------------------------------------------------
(* What the loop does.                                                       *)

Visited(t) == \E j \in 1 .. at - 1 : order[j] = t

\* What the loop has visited has a status, and nothing else has.
ResultsMatchLoop ==
    /\ DOMAIN results = Targets
    /\ at \in Nat \ {0}
    /\ phase \in {"idle", "building", "ended", "aborted"}
    /\ phase = "idle" => \A t \in Targets : results[t].status = "none"
    /\ phase # "idle" => \A t \in Targets : results[t].status # "none" <=> Visited(t)
    /\ phase = "ended" => at > Len(order)

\* The executor that runs is the one of the target the loop is at, under its key.
RunMatchesLoop ==
    /\ phase # "building" => running = NoKey
    /\ running # NoKey =>
          LET t == order[at] IN
          /\ at <= Len(order) /\ ~dry /\ t \notin Groups
          /\ running = KeyOf(t)
          /\ t \in AlwaysRun \/ (~stopped /\ DepStatuses(t) \subseteq OK)

\* A build that has not stopped has only usable results, or pending ones of a plan.
StatusesMatchStop ==
    /\ \A t \in Targets : results[t].status \in Statuses /\ (results[t].status = "pending" => dry)
    /\ ~stopped => \A t \in Targets : results[t].status \notin {"blocked", "skipped", "failed"}
    /\ stopped => ~dry /\ \E t \in Targets : results[t].status = "failed"
    /\ \A t \in AlwaysRun \intersect Targets : results[t].status \in {"none", "pending", "ran", "failed"}

\* What the key of a run with every role usable says its output is.
OutputOf(key) == <<key[1], key[2], [i \in DOMAIN key[3] |-> key[3][i][2]], Deterministic>>

\* An entry holds what its key says a run gives.
CacheMatchesKeys == \A e \in cache : e.output = OutputOf(e.key)

LoopMatchesProgram ==
    /\ ResultsMatchLoop
    /\ RunMatchesLoop
    /\ StatusesMatchStop
    /\ NothingBuiltOnFailure

\* The target the loop is at has no result; what it depends on has one, and so
\* has what the targets visited before it depend on.
LEMMA AtTheLoop ==
  ASSUME ResultsMatchLoop, VisitsTheSelection, phase = "building", NEW t \in Targets, at <= Len(order), t = order[at]
  PROVE  /\ results[t].status = "none"
         /\ \A d \in ToSet(Deps[t]) : d \in Targets /\ d # t /\ Visited(d)
         /\ \A u \in Targets : Visited(u) => u # t /\ \A d \in ToSet(Deps[u]) : d \in Targets /\ d # t /\ Visited(d)
<1>1. EachOnceAfterItsDeps(order)
  BY DEF VisitsTheSelection
<1>2. Len(order) \in Nat /\ DOMAIN order = 1 .. Len(order) /\ at \in DOMAIN order
  BY <1>1 DEF EachOnceAfterItsDeps, ResultsMatchLoop
<1>3. \A j \in 1 .. at - 1 : j \in DOMAIN order /\ j # at /\ order[j] # t
  BY <1>1, <1>2 DEF EachOnceAfterItsDeps, IsInjective, ResultsMatchLoop
<1>4. \A d \in ToSet(Deps[t]) : d \in Targets /\ Visited(d)
  BY <1>1, <1>2, UsesAreTargets DEF EachOnceAfterItsDeps, Visited
<1>5. ASSUME NEW u \in Targets, Visited(u), NEW d \in ToSet(Deps[u]) PROVE d \in Targets /\ Visited(d)
  <2>1. PICK i \in 1 .. at - 1 : order[i] = u
    BY <1>5 DEF Visited
  <2>2. PICK j \in 1 .. i - 1 : order[j] = d
    BY <1>1, <1>3, <1>5, <2>1 DEF EachOnceAfterItsDeps
  <2>3. j \in 1 .. at - 1
    BY <1>2, <2>1, <2>2
  <2> QED
    BY <1>5, <2>2, <2>3, UsesAreTargets DEF Visited
<1>6. \A u : Visited(u) => u # t
  BY <1>3 DEF Visited
<1>7. results[t].status = "none"
  BY <1>6 DEF ResultsMatchLoop
<1> QED
  BY <1>4, <1>5, <1>6, <1>7

\* A result given to the target the loop is at disturbs no other, and no
\* dependency of a target visited so far.
LEMMA DoneKeeps ==
  ASSUME ResultsMatchLoop, VisitsTheSelection, phase = "building", NEW t \in Targets, at <= Len(order), t = order[at],
         NEW status, NEW key, NEW output, Done(t, status, key, output)
  PROVE  /\ results'[t] = [status |-> status, key |-> key, output |-> output]
         /\ \A u \in Targets : u # t => results'[u] = results[u]
         /\ \A u : Visited(u)' <=> Visited(u) \/ u = t
         /\ \A u \in Targets : Visited(u) \/ u = t => \A d \in ToSet(Deps[u]) : results'[d] = results[d]
         /\ \A u \in Targets : Visited(u) \/ u = t => DepStatuses(u)' = DepStatuses(u)
         /\ ResultsMatchLoop' \/ status = "none"
<1>1. DOMAIN results = Targets /\ at \in Nat \ {0}
  BY DEF ResultsMatchLoop
<1>2. results'[t] = [status |-> status, key |-> key, output |-> output]
  BY <1>1 DEF Done
<1>3. \A u \in Targets : u # t => results'[u] = results[u]
  BY <1>1 DEF Done
<1>4. at' = at + 1 /\ order' = order /\ phase' = phase /\ DOMAIN results' = Targets
  BY <1>1 DEF Done
<1>5. \A u : Visited(u)' <=> Visited(u) \/ u = t
  <2>1. \A j \in 1 .. at' - 1 : j \in 1 .. at - 1 \/ j = at
    BY <1>1, <1>4
  <2>2. \A j \in 1 .. at - 1 : j \in 1 .. at' - 1
    BY <1>1, <1>4
  <2>3. at \in 1 .. at' - 1
    BY <1>1, <1>4
  <2> QED
    BY <1>4, <2>1, <2>2, <2>3 DEF Visited
<1>6. \A u \in Targets : Visited(u) \/ u = t => \A d \in ToSet(Deps[u]) : results'[d] = results[d]
  BY <1>3, AtTheLoop
<1>7. \A u \in Targets : Visited(u) \/ u = t => DepStatuses(u)' = DepStatuses(u)
  BY <1>6 DEF DepStatuses
<1>8. ASSUME status # "none" PROVE ResultsMatchLoop'
  <2>1. \A u \in Targets : results'[u].status # "none" <=> Visited(u)'
    BY <1>2, <1>3, <1>5, <1>8 DEF ResultsMatchLoop
  <2>2. at' \in Nat \ {0}
    BY <1>1, <1>4
  <2> QED
    BY <1>4, <2>1, <2>2 DEF ResultsMatchLoop
<1> QED
  BY <1>2, <1>3, <1>5, <1>6, <1>7, <1>8

\* A status for the target the loop is at that the parts of the invariant allow.
LEMMA DoneKeepsLoop ==
  ASSUME LoopMatchesProgram, VisitsTheSelection, phase = "building", NEW t \in Targets, at <= Len(order), t = order[at],
         NEW status \in Statuses \ {"none"}, NEW key, NEW output, Done(t, status, key, output),
         status = "pending" => dry,
         stopped' = stopped \/ (stopped' = TRUE /\ status = "failed" /\ ~dry),
         status \in {"blocked", "skipped"} => stopped,
         status = "failed" => stopped',
         t \in AlwaysRun => status \in {"pending", "ran", "failed"},
         status \in OK => t \in AlwaysRun \/ DepStatuses(t) \subseteq OK
  PROVE  LoopMatchesProgram'
<1>1. ResultsMatchLoop /\ StatusesMatchStop /\ NothingBuiltOnFailure
  BY DEF LoopMatchesProgram
<1>2. ResultsMatchLoop'
  BY <1>1, DoneKeeps
<1>3. /\ results'[t].status = status
      /\ \A u \in Targets : u # t => results'[u].status = results[u].status
      /\ \A u \in Targets : Visited(u) \/ u = t => DepStatuses(u)' = DepStatuses(u)
      /\ \A u \in Targets : results[u].status # "none" <=> Visited(u)
      /\ results[t].status = "none"
  <2>1. results[t].status = "none" /\ \A u \in Targets : results[u].status # "none" <=> Visited(u)
    BY <1>1, AtTheLoop DEF ResultsMatchLoop
  <2>2. results'[t] = [status |-> status, key |-> key, output |-> output]
    BY <1>1, DoneKeeps
  <2>3. /\ \A u \in Targets : u # t => results'[u] = results[u]
        /\ \A u \in Targets : Visited(u) \/ u = t => DepStatuses(u)' = DepStatuses(u)
    BY <1>1, DoneKeeps
  <2> QED
    BY <2>1, <2>2, <2>3
<1>4. dry' = dry /\ phase' = phase /\ running' = NoKey
  BY DEF Done
<1>5. RunMatchesLoop'
  BY <1>4 DEF RunMatchesLoop
<1>6. StatusesMatchStop'
  <2>1. \A u \in Targets : results'[u].status \in Statuses /\ (results'[u].status = "pending" => dry)
    BY <1>1, <1>3 DEF StatusesMatchStop
  <2>2. ~stopped' => \A u \in Targets : results'[u].status \notin {"blocked", "skipped", "failed"}
    BY <1>1, <1>3 DEF StatusesMatchStop
  <2>3. stopped' => ~dry /\ \E u \in Targets : results'[u].status = "failed"
    BY <1>1, <1>3 DEF StatusesMatchStop
  <2>4. \A u \in AlwaysRun \intersect Targets : results'[u].status \in {"none", "pending", "ran", "failed"}
    BY <1>1, <1>3 DEF StatusesMatchStop
  <2> QED
    BY <1>4, <2>1, <2>2, <2>3, <2>4 DEF StatusesMatchStop
<1>7. NothingBuiltOnFailure'
  <2>1. ASSUME NEW u \in Targets \ AlwaysRun, results'[u].status \in OK PROVE DepStatuses(u)' \subseteq OK
    <3>1. CASE u = t
      BY <1>3, <2>1, <3>1
    <3>2. CASE u # t
      <4>1. results[u].status \in OK /\ Visited(u)
        BY <1>3, <2>1, <3>2 DEF OK
      <4> QED
        BY <1>1, <1>3, <2>1, <4>1 DEF NothingBuiltOnFailure
    <3> QED
      BY <3>1, <3>2
  <2> QED
    BY <2>1 DEF NothingBuiltOnFailure
<1> QED
  BY <1>2, <1>5, <1>6, <1>7 DEF LoopMatchesProgram

LEMMA InitLoop == Init => LoopMatchesProgram /\ CacheMatchesKeys
<1> SUFFICES ASSUME Init PROVE LoopMatchesProgram /\ CacheMatchesKeys
  OBVIOUS
<1>1. \A t \in Targets : results[t].status = "none" /\ DOMAIN results = Targets
  BY DEF Init, NoResult
<1>2. ResultsMatchLoop /\ RunMatchesLoop
  BY <1>1 DEF Init, ResultsMatchLoop, RunMatchesLoop
<1>3. StatusesMatchStop /\ NothingBuiltOnFailure
  BY <1>1 DEF Init, StatusesMatchStop, NothingBuiltOnFailure, Statuses, OK
<1>4. CacheMatchesKeys
  BY DEF Init, CacheMatchesKeys
<1> QED
  BY <1>2, <1>3, <1>4 DEF LoopMatchesProgram

\* The branch of each way to be done, from what the action says of the target.
LEMMA VisitKeeps ==
  ASSUME LoopMatchesProgram, VisitsTheSelection, NEW t \in Targets,
         \/ VisitGroup(t) \/ Skip(t) \/ Wait(t) \/ Serve(t) \/ Plan(t)
         \/ (\E s \in Samples : Ran(t, s)) \/ Fail(t)
  PROVE  LoopMatchesProgram'
<1> USE DEF OK, Statuses
<1>1. ResultsMatchLoop /\ RunMatchesLoop /\ StatusesMatchStop
  BY DEF LoopMatchesProgram
<1>2. AlwaysRun \intersect Caching = {} /\ Groups \intersect AlwaysRun = {}
  BY NodeAssumption
<1>3. ASSUME Visiting(t)
      PROVE  /\ phase = "building" /\ at <= Len(order) /\ t = order[at]
             /\ \A u \in DepStatuses(t) : u \in Statuses \ {"none"}
             /\ "pending" \in DepStatuses(t) => dry
             /\ ~stopped => \A u \in DepStatuses(t) : u \notin {"blocked", "skipped", "failed"}
  <2>1. phase = "building" /\ at <= Len(order) /\ t = order[at]
    BY <1>3 DEF Visiting
  <2>2. \A d \in ToSet(Deps[t]) : d \in Targets /\ results[d].status # "none"
    BY <1>1, <2>1, AtTheLoop DEF ResultsMatchLoop
  <2> QED
    BY <1>1, <2>1, <2>2 DEF DepStatuses, StatusesMatchStop
<1>4. CASE VisitGroup(t)
  <2>1. Visiting(t) /\ t \in Groups /\ t \notin AlwaysRun /\ stopped' = stopped
    BY <1>2, <1>4 DEF VisitGroup
  <2> DEFINE status == IF dry /\ "pending" \in DepStatuses(t) THEN "pending"
                       ELSE IF DepStatuses(t) \subseteq OK THEN "ok" ELSE "blocked"
  <2>2. Done(t, status, NoKey, MemberStatuses(t))
    BY <1>4 DEF VisitGroup
  <2>3. status \in {"pending", "ok", "blocked"} /\ (status = "pending" => dry) /\ (status = "ok" => DepStatuses(t) \subseteq OK)
    OBVIOUS
  <2>4. status = "blocked" => stopped
    BY <1>3, <2>1
  <2> HIDE DEF status
  <2> QED
    BY <1>3, <2>1, <2>2, <2>3, <2>4, DoneKeepsLoop
<1>5. CASE Skip(t)
  <2>1. Visiting(t) /\ stopped /\ t \notin AlwaysRun /\ stopped' = stopped /\ Done(t, "skipped", NoKey, NoOutput)
    BY <1>5 DEF Skip
  <2> QED
    BY <1>3, <2>1, DoneKeepsLoop
<1>6. CASE Wait(t)
  <2>1. Visiting(t) /\ "pending" \in DepStatuses(t) /\ stopped' = stopped /\ Done(t, "pending", NoKey, NoOutput)
    BY <1>6 DEF Wait, Considered
  <2> QED
    BY <1>3, <2>1, DoneKeepsLoop
<1>7. CASE Serve(t)
  <2>1. /\ Visiting(t) /\ t \notin AlwaysRun /\ DepStatuses(t) \subseteq OK /\ stopped' = stopped
        /\ Done(t, "cached", KeyOf(t), Entry(KeyOf(t)).output)
    BY <1>2, <1>7 DEF Serve, Keyed, Considered, Servable
  <2> QED
    BY <1>3, <2>1, DoneKeepsLoop
<1>8. CASE Plan(t)
  <2>1. Visiting(t) /\ dry /\ stopped' = stopped /\ Done(t, "pending", KeyOf(t), NoOutput)
    BY <1>8 DEF Plan, MustRun, Keyed, Considered
  <2> QED
    BY <1>3, <2>1, DoneKeepsLoop
<1>9. ASSUME Running(t)
      PROVE  /\ phase = "building" /\ at <= Len(order) /\ t = order[at] /\ ~dry
             /\ t \in AlwaysRun \/ DepStatuses(t) \subseteq OK
  BY <1>1, <1>9 DEF Running, RunMatchesLoop
<1>10. ASSUME NEW s \in Samples, Ran(t, s) PROVE LoopMatchesProgram'
  <2>1. Running(t) /\ stopped' = stopped /\ Done(t, "ran", running, Produce(t, s))
    BY <1>10 DEF Ran
  <2> QED
    BY <1>9, <2>1, DoneKeepsLoop
<1>11. CASE Fail(t)
  <2>1. Running(t) /\ stopped' = TRUE /\ Done(t, "failed", running, NoOutput)
    BY <1>11 DEF Fail
  <2> QED
    BY <1>9, <2>1, DoneKeepsLoop
<1> QED
  BY <1>4, <1>5, <1>6, <1>7, <1>8, <1>10, <1>11

LEMMA StepLoop == LoopMatchesProgram /\ VisitsTheSelection /\ [Next]_vars => LoopMatchesProgram'
<1> SUFFICES ASSUME LoopMatchesProgram, VisitsTheSelection, [Next]_vars PROVE LoopMatchesProgram'
  OBVIOUS
<1>1. ResultsMatchLoop /\ RunMatchesLoop /\ StatusesMatchStop /\ NothingBuiltOnFailure
  BY DEF LoopMatchesProgram
<1>2. ASSUME results' = results /\ order' = order /\ at' = at /\ dry' = dry /\ stopped' = stopped
      PROVE  /\ \A t : Visited(t)' <=> Visited(t)
             /\ \A t : DepStatuses(t)' = DepStatuses(t)
             /\ StatusesMatchStop' /\ NothingBuiltOnFailure'
  BY <1>1, <1>2 DEF Visited, DepStatuses, StatusesMatchStop, NothingBuiltOnFailure
<1>3. ASSUME NEW t \in Targets, Start(t) PROVE LoopMatchesProgram'
  <2>1. /\ phase = "building" /\ at <= Len(order) /\ t = order[at] /\ t \notin Groups /\ ~dry
        /\ stopped => t \in AlwaysRun
        /\ DepStatuses(t) \subseteq OK \/ t \in AlwaysRun
        /\ running' = KeyOf(t)
        /\ results' = results /\ order' = order /\ at' = at /\ dry' = dry /\ stopped' = stopped /\ phase' = phase
        /\ version' = version
    BY <1>3 DEF Start, MustRun, Keyed, Considered, Visiting
  <2>2. KeyOf(t)' = KeyOf(t)
    BY <2>1 DEF KeyOf, UsableRoles
  <2>3. RunMatchesLoop'
    BY <1>2, <2>1, <2>2 DEF RunMatchesLoop
  <2>4. ResultsMatchLoop'
    BY <1>1, <1>2, <2>1 DEF ResultsMatchLoop
  <2> QED
    BY <1>2, <2>1, <2>3, <2>4 DEF LoopMatchesProgram
<1>4. ASSUME NEW t \in Targets, Escape(t) PROVE LoopMatchesProgram'
  <2>1. /\ phase = "building" /\ phase' = "aborted" /\ running' = NoKey
        /\ results' = results /\ order' = order /\ at' = at /\ dry' = dry /\ stopped' = stopped
    BY <1>4 DEF Escape, Visiting, Running
  <2>2. RunMatchesLoop'
    BY <2>1 DEF RunMatchesLoop
  <2>3. ResultsMatchLoop'
    BY <1>1, <1>2, <2>1 DEF ResultsMatchLoop
  <2> QED
    BY <1>2, <2>1, <2>2, <2>3 DEF LoopMatchesProgram
<1>5. CASE Finish
  <2>1. /\ phase = "building" /\ phase' = "ended" /\ running' = running /\ at > Len(order)
        /\ results' = results /\ order' = order /\ at' = at /\ dry' = dry /\ stopped' = stopped
    BY <1>5 DEF Finish
  <2>2. ResultsMatchLoop'
    BY <1>1, <1>2, <2>1 DEF ResultsMatchLoop
  <2>3. EachOnceAfterItsDeps(order)
    BY <2>1 DEF VisitsTheSelection
  <2>4. running = NoKey
    BY <1>1, <2>1, <2>3 DEF RunMatchesLoop, ResultsMatchLoop, EachOnceAfterItsDeps
  <2>5. RunMatchesLoop'
    BY <2>1, <2>4 DEF RunMatchesLoop
  <2> QED
    BY <1>2, <2>1, <2>2, <2>5 DEF LoopMatchesProgram
<1>6. ASSUME NEW d \in BOOLEAN, NEW f \in BOOLEAN, NEW s \in Selections, Begin(d, f, s) PROVE LoopMatchesProgram'
  <2>1. /\ phase' = "building" /\ at' = 1 /\ results' = [t \in Targets |-> NoResult] /\ stopped' = FALSE
        /\ running = NoKey /\ running' = NoKey
    BY <1>1, <1>6 DEF Begin, RunMatchesLoop
  <2>2. DOMAIN results' = Targets /\ \A t \in Targets : results'[t].status = "none"
    BY <2>1 DEF NoResult
  <2>3. \A t : ~Visited(t)'
    BY <2>1 DEF Visited
  <2>4. ResultsMatchLoop'
    BY <2>1, <2>2, <2>3 DEF ResultsMatchLoop
  <2>5. RunMatchesLoop'
    BY <2>1 DEF RunMatchesLoop
  <2>6. StatusesMatchStop' /\ NothingBuiltOnFailure'
    BY <2>1, <2>2 DEF StatusesMatchStop, NothingBuiltOnFailure, Statuses, OK
  <2> QED
    BY <2>4, <2>5, <2>6 DEF LoopMatchesProgram
<1>7. CASE UNCHANGED vars \/ \E j, v : Edit(j, v)
  <2>1. /\ results' = results /\ order' = order /\ at' = at /\ dry' = dry /\ stopped' = stopped /\ phase' = phase
        /\ running' = running
    BY <1>7 DEF vars, Edit
  <2>2. ResultsMatchLoop'
    BY <1>1, <1>2, <2>1 DEF ResultsMatchLoop
  <2>3. running # NoKey => version' = version
    BY <1>1, <1>7 DEF vars, Edit, RunMatchesLoop
  <2>4. ASSUME running # NoKey, NEW t PROVE KeyOf(t)' = KeyOf(t)
    BY <2>1, <2>3, <2>4 DEF KeyOf, UsableRoles
  <2>5. RunMatchesLoop'
    BY <1>1, <1>2, <2>1, <2>4 DEF RunMatchesLoop
  <2> QED
    BY <1>2, <2>1, <2>2, <2>5 DEF LoopMatchesProgram
<1> QED
  BY <1>3, <1>4, <1>5, <1>6, <1>7, VisitKeeps DEF Next, Visit

\* What the loop has visited has a status that fits what it depends on, for every
\* graph and every sequence of builds.
THEOREM LoopCorrect == Spec => []LoopMatchesProgram
<1>1. Init => LoopMatchesProgram
  BY InitLoop
<1> QED
  BY <1>1, StepLoop, BuildsVisitTheSelection, PTL DEF Spec

\* Every variable keeps its type; the loop never runs past the end of the order,
\* and every result has one of the statuses a dependent can read.
THEOREM TypeCorrect == Spec => []TypeOK
<1> DEFINE Inv == LoopMatchesProgram /\ VisitsTheSelection
<1>1. Init => TypeOK
  <2> SUFFICES ASSUME Init PROVE TypeOK
    OBVIOUS
  <2>1. version \in [{Job[t] : t \in Targets} -> Versions]
    <3>1. {0} \subseteq Versions
      BY BoundsAssumption
    <3>2. version \in [{Job[t] : t \in Targets} -> {0}]
      BY DEF Init
    <3> QED
      BY <3>1, <3>2
  <2>2. 0 \in 0 .. MaxBuilds /\ 0 \in 0 .. MaxEdits
    BY BoundsAssumption
  <2>3. at \in 1 .. Len(order) + 1 /\ order \in Seq(Targets)
    BY DEF Init
  <2>4. \A t \in Targets : results[t].status \in Statuses
    BY DEF Init, NoResult, Statuses
  <2> QED
    BY <2>1, <2>2, <2>3, <2>4 DEF Init, TypeOK
<1>2. TypeOK /\ Inv /\ Inv' /\ [Next]_vars => TypeOK'
  <2> SUFFICES ASSUME TypeOK, Inv, Inv', [Next]_vars PROVE TypeOK'
    OBVIOUS
  <2>1. \A t \in Targets : results'[t].status \in Statuses
    BY DEF LoopMatchesProgram, StatusesMatchStop
  <2>2. phase' \in {"idle", "building", "ended", "aborted"}
    BY DEF LoopMatchesProgram, ResultsMatchLoop
  <2>3. ASSUME NEW t \in Targets, NEW status, NEW key, NEW output, Done(t, status, key, output),
               at <= Len(order), stopped' \in BOOLEAN
        PROVE  TypeOK'
    <3>1. at' \in 1 .. Len(order') + 1
      BY <2>3 DEF Done, TypeOK
    <3> QED
      BY <2>1, <2>2, <2>3, <3>1 DEF Done, TypeOK
  <2>4. ASSUME NEW t \in Targets, Visit(t) PROVE TypeOK'
    <3>1. at <= Len(order)
      <4>1. CASE Visiting(t)
        BY <4>1 DEF Visiting
      <4>2. CASE Running(t)
        BY <4>2 DEF Running, LoopMatchesProgram, RunMatchesLoop
      <4> QED
        BY <2>4, <4>1, <4>2 DEF Visit, VisitGroup, Skip, Wait, Serve, Plan, Start, Ran, Fail, Escape, MustRun, Keyed, Considered
    <3>2. ASSUME UNCHANGED <<version, asked, order, dry, force, at, stopped, builds, edits>> PROVE TypeOK'
      BY <2>1, <2>2, <3>2 DEF TypeOK
    <3>3. CASE VisitGroup(t) \/ Skip(t) \/ Wait(t) \/ Serve(t) \/ Plan(t)
      <4>1. stopped' = stopped /\ \E status, key, output : Done(t, status, key, output)
        BY <3>3 DEF VisitGroup, Skip, Wait, Serve, Plan
      <4> QED
        BY <2>3, <3>1, <4>1 DEF TypeOK
    <3>4. CASE \E s \in Samples : Ran(t, s)
      <4>1. stopped' = stopped /\ \E status, key, output : Done(t, status, key, output)
        BY <3>4 DEF Ran
      <4> QED
        BY <2>3, <3>1, <4>1 DEF TypeOK
    <3>5. CASE Fail(t)
      <4>1. stopped' = TRUE /\ \E status, key, output : Done(t, status, key, output)
        BY <3>5 DEF Fail
      <4> QED
        BY <2>3, <3>1, <4>1
    <3>6. CASE Start(t) \/ Escape(t)
      BY <3>2, <3>6 DEF Start, Escape
    <3> QED
      BY <2>4, <3>3, <3>4, <3>5, <3>6 DEF Visit
  <2>5. CASE Finish
    BY <2>1, <2>2, <2>5 DEF Finish, TypeOK
  <2>6. ASSUME NEW d \in BOOLEAN, NEW f \in BOOLEAN, NEW s \in Selections, Begin(d, f, s) PROVE TypeOK'
    <3>1. order' \in Seq(Targets)
      BY <2>6 DEF Begin, VisitsTheSelection, EachOnceAfterItsDeps
    <3>2. at' \in 1 .. Len(order') + 1
      BY <2>6, <3>1 DEF Begin
    <3>3. builds' \in 0 .. MaxBuilds
      BY <2>6, BoundsAssumption DEF Begin, TypeOK
    <3>4. /\ version' = version /\ asked' \in Selections /\ edits' = edits
          /\ dry' \in BOOLEAN /\ force' \in BOOLEAN /\ stopped' \in BOOLEAN
      BY <2>6 DEF Begin
    <3> QED
      BY <2>1, <2>2, <3>1, <3>2, <3>3, <3>4 DEF TypeOK
  <2>7. ASSUME NEW j \in DOMAIN version, NEW v \in Versions, Edit(j, v) PROVE TypeOK'
    <3>1. edits' \in 0 .. MaxEdits
      BY <2>7, BoundsAssumption DEF Edit, TypeOK
    <3>2. version' \in [{Job[t] : t \in Targets} -> Versions]
      BY <2>7 DEF Edit, TypeOK
    <3> QED
      BY <2>1, <2>2, <2>7, <3>1, <3>2 DEF Edit, TypeOK
  <2>8. CASE UNCHANGED vars
    BY <2>1, <2>2, <2>8 DEF vars, TypeOK
  <2> QED
    BY <2>4, <2>5, <2>6, <2>7, <2>8 DEF Next
<1>3. Spec => []LoopMatchesProgram
  BY LoopCorrect
<1>4. Spec => []VisitsTheSelection
  BY BuildsVisitTheSelection
<1> HIDE DEF Inv
<1>5. LoopMatchesProgram /\ VisitsTheSelection => Inv
  BY DEF Inv
<1> QED
  BY <1>1, <1>2, <1>3, <1>4, <1>5, PTL DEF Spec

\* No build counts a target as made that needs a failed, blocked or skipped one.
THEOREM NothingIsBuiltOnFailure == Spec => []NothingBuiltOnFailure
<1>1. LoopMatchesProgram => NothingBuiltOnFailure
  BY DEF LoopMatchesProgram
<1> QED
  BY <1>1, LoopCorrect, PTL

\* No target is blocked or skipped but in a build that has stopped on a failed one:
\* the exit status tells every build that did not make what it was asked for.
THEOREM FailuresAreReported == Spec => []FailureIsReported
<1>1. LoopMatchesProgram => FailureIsReported
  BY DEF LoopMatchesProgram, StatusesMatchStop, FailureIsReported
<1> QED
  BY <1>1, LoopCorrect, PTL

\* Whatever failed before it, an always_run target of a build that reached its end
\* was run.
THEOREM CleanupAlwaysRan == Spec => []CleanupRan
<1>1. LoopMatchesProgram /\ VisitsTheSelection => CleanupRan
  <2> SUFFICES ASSUME LoopMatchesProgram, VisitsTheSelection, phase = "ended", ~dry, NEW t \in AlwaysRun \intersect ToSet(order)
               PROVE  results[t].status \in {"ran", "failed"}
    BY DEF CleanupRan
  <2>1. EachOnceAfterItsDeps(order)
    BY DEF VisitsTheSelection
  <2>2. PICK i \in DOMAIN order : order[i] = t
    BY DEF ToSet
  <2>3. i \in 1 .. at - 1 /\ t \in Targets
    BY <2>1, <2>2 DEF EachOnceAfterItsDeps, LoopMatchesProgram, ResultsMatchLoop
  <2>4. results[t].status # "none"
    BY <2>2, <2>3 DEF Visited, LoopMatchesProgram, ResultsMatchLoop
  <2> QED
    BY <2>3, <2>4 DEF LoopMatchesProgram, StatusesMatchStop
<1> QED
  BY <1>1, LoopCorrect, BuildsVisitTheSelection, PTL

-----------------------------------------------------------------------------
(* The cache.                                                               *)

\* The key of a target all of whose dependencies are usable determines its output.
LEMMA KeyedOutput ==
  ASSUME NEW t \in Caching, DepStatuses(t) \subseteq OK
  PROVE  Produce(t, Deterministic) = OutputOf(KeyOf(t))
<1> DEFINE role == [i \in DOMAIN Deps[t] |-> <<results[Deps[t][i]].key, results[Deps[t][i]].output>>]
<1>1. \A i \in DOMAIN Deps[t] : Deps[t][i] \in ToSet(Deps[t])
  BY DEF ToSet
<1>2. UsableRoles(t) = DOMAIN Deps[t]
  BY <1>1 DEF UsableRoles, DepStatuses
<1>3. KeyOf(t) = <<Job[t], version[Job[t]], role>>
  BY <1>2 DEF KeyOf
<1>4. \A i \in DOMAIN Deps[t] : role[i][2] = results[Deps[t][i]].output
  OBVIOUS
<1>5. Produce(t, Deterministic) = <<Job[t], version[Job[t]], [i \in DOMAIN Deps[t] |-> role[i][2]], Deterministic>>
  BY <1>4 DEF Produce
<1>6. DOMAIN role = DOMAIN Deps[t]
  OBVIOUS
<1> HIDE DEF role
<1>7. OutputOf(KeyOf(t)) = <<Job[t], version[Job[t]], [i \in DOMAIN role |-> role[i][2]], Deterministic>>
  BY <1>3 DEF OutputOf
<1> QED
  BY <1>5, <1>6, <1>7

LEMMA RanOutput ==
  ASSUME LoopMatchesProgram, NEW t \in Targets \intersect Caching, NEW s, Ran(t, s)
  PROVE  Produce(t, s) = OutputOf(running) /\ Produce(t, s) = Produce(t, Deterministic)
<1>1. t = order[at] /\ running # NoKey /\ s = Deterministic
  BY DEF Ran, Running
<1>2. running = KeyOf(t) /\ DepStatuses(t) \subseteq OK
  BY <1>1, NodeAssumption DEF LoopMatchesProgram, RunMatchesLoop
<1> QED
  BY <1>1, <1>2, KeyedOutput

LEMMA StepCache ==
  ASSUME LoopMatchesProgram, CacheMatchesKeys, [Next]_vars PROVE CacheMatchesKeys'
<1>1. ASSUME NEW t \in Targets, NEW s \in Samples, Ran(t, s) PROVE CacheMatchesKeys'
  <2>1. CASE t \in Caching
    <3>1. cache' = {e \in cache : e.key # running} \union {[key |-> running, output |-> Produce(t, s)]}
      BY <1>1, <2>1 DEF Ran
    <3>2. Produce(t, s) = OutputOf(running)
      BY <1>1, <2>1, RanOutput
    <3> QED
      BY <3>1, <3>2 DEF CacheMatchesKeys
  <2>2. CASE t \notin Caching
    BY <1>1, <2>2 DEF Ran, CacheMatchesKeys
  <2> QED
    BY <2>1, <2>2
<1>2. CASE \A t \in Targets, s \in Samples : ~Ran(t, s)
  <2>1. cache' \subseteq cache
    BY <1>2 DEF Next, Visit, VisitGroup, Skip, Wait, Serve, Plan, Start, Fail, Escape, Finish, Begin, Edit, vars
  <2> QED
    BY <2>1 DEF CacheMatchesKeys
<1> QED
  BY <1>1, <1>2

\* A result that is what a run would give leaves every result so.
LEMMA DoneKeepsServed ==
  ASSUME LoopMatchesProgram, VisitsTheSelection, CacheServesCurrent,
         phase = "building", NEW t \in Targets, at <= Len(order), t = order[at],
         NEW status, NEW key, NEW output, Done(t, status, key, output),
         t \in Caching /\ status \in {"ran", "cached"} => output = Produce(t, Deterministic)
  PROVE  CacheServesCurrent'
<1>1. ResultsMatchLoop
  BY DEF LoopMatchesProgram
<1>2. /\ results'[t] = [status |-> status, key |-> key, output |-> output]
      /\ \A u \in Targets : u # t => results'[u] = results[u]
      /\ \A u \in Targets : Visited(u) \/ u = t => \A d \in ToSet(Deps[u]) : results'[d] = results[d]
  BY <1>1, DoneKeeps
<1>3. ASSUME NEW u \in Caching, Visited(u) \/ u = t PROVE Produce(u, Deterministic)' = Produce(u, Deterministic)
  <2>1. \A i \in DOMAIN Deps[u] : Deps[u][i] \in ToSet(Deps[u])
    BY DEF ToSet
  <2>2. \A i \in DOMAIN Deps[u] : results'[Deps[u][i]].output = results[Deps[u][i]].output
    BY <1>2, <1>3, <2>1, NodeAssumption
  <2>3. version' = version
    BY DEF Done
  <2> QED
    BY <2>2, <2>3 DEF Produce
<1>4. ASSUME NEW u \in Caching, results'[u].status \in {"ran", "cached"}
      PROVE  results'[u].output = Produce(u, Deterministic)'
  <2>1. CASE u = t
    BY <1>2, <1>3, <1>4, <2>1
  <2>2. CASE u # t
    <3>1. u \in Targets /\ results'[u] = results[u]
      BY <1>2, <2>2, NodeAssumption
    <3>2. Visited(u)
      BY <1>1, <1>4, <3>1 DEF ResultsMatchLoop
    <3> QED
      BY <1>3, <1>4, <3>1, <3>2 DEF CacheServesCurrent
  <2> QED
    BY <2>1, <2>2
<1> QED
  BY <1>4 DEF CacheServesCurrent

LEMMA StepServed ==
  ASSUME LoopMatchesProgram, VisitsTheSelection, CacheMatchesKeys, CacheServesCurrent, [Next]_vars
  PROVE  CacheServesCurrent'
<1>1. ASSUME NEW t \in Targets, Visiting(t) PROVE phase = "building" /\ at <= Len(order) /\ t = order[at]
  BY <1>1 DEF Visiting
<1>2. ASSUME NEW t \in Targets, Running(t) PROVE phase = "building" /\ at <= Len(order) /\ t = order[at]
  BY <1>2 DEF Running, LoopMatchesProgram, RunMatchesLoop
<1>3. ASSUME NEW t \in Targets, VisitGroup(t) PROVE CacheServesCurrent'
  <2>1. Visiting(t) /\ t \notin Caching
    BY <1>3, NodeAssumption DEF VisitGroup
  <2>2. \E status, output : Done(t, status, NoKey, output)
    BY <1>3 DEF VisitGroup
  <2> QED
    BY <1>1, <2>1, <2>2, DoneKeepsServed
<1>4. ASSUME NEW t \in Targets, Skip(t) \/ Wait(t) \/ Plan(t) \/ Fail(t) PROVE CacheServesCurrent'
  <2>1. (Visiting(t) \/ Running(t)) /\ \E status \in {"skipped", "pending", "failed"} : \E key : Done(t, status, key, NoOutput)
    BY <1>4 DEF Skip, Wait, Plan, Fail, MustRun, Keyed, Considered
  <2> QED
    BY <1>1, <1>2, <2>1, DoneKeepsServed
<1>5. ASSUME NEW t \in Targets, Serve(t) PROVE CacheServesCurrent'
  <2>1. /\ Visiting(t) /\ t \in Caching /\ DepStatuses(t) \subseteq OK /\ Hit(KeyOf(t))
        /\ Done(t, "cached", KeyOf(t), Entry(KeyOf(t)).output)
    BY <1>5, NodeAssumption DEF Serve, Keyed, Considered, Servable
  <2>2. Entry(KeyOf(t)) \in cache /\ Entry(KeyOf(t)).key = KeyOf(t)
    BY <2>1 DEF Hit, Entry
  <2>3. Entry(KeyOf(t)).output = Produce(t, Deterministic)
    BY <2>1, <2>2, KeyedOutput DEF CacheMatchesKeys
  <2> QED
    BY <1>1, <2>1, <2>3, DoneKeepsServed
<1>6. ASSUME NEW t \in Targets, NEW s \in Samples, Ran(t, s) PROVE CacheServesCurrent'
  <2>1. Running(t) /\ Done(t, "ran", running, Produce(t, s))
    BY <1>6 DEF Ran
  <2>2. t \in Caching => Produce(t, s) = Produce(t, Deterministic)
    BY <1>6, RanOutput
  <2> QED
    BY <1>2, <2>1, <2>2, DoneKeepsServed
<1>7. ASSUME NEW t \in Targets, Start(t) PROVE CacheServesCurrent'
  BY <1>7 DEF Start, CacheServesCurrent, Produce
<1>8. ASSUME NEW d \in BOOLEAN, NEW f \in BOOLEAN, NEW s \in Selections, Begin(d, f, s) PROVE CacheServesCurrent'
  <2>1. results' = [t \in Targets |-> NoResult]
    BY <1>8 DEF Begin
  <2>2. \A t \in Caching : results'[t].status = "none"
    BY <2>1, NodeAssumption DEF NoResult
  <2> QED
    BY <2>2 DEF CacheServesCurrent
<1>9. ASSUME NEW t \in Targets, Escape(t) PROVE CacheServesCurrent'
  BY <1>9 DEF Escape, CacheServesCurrent
<1>10. CASE Finish \/ \E j, v : Edit(j, v)
  BY <1>10 DEF Finish, Edit, CacheServesCurrent
<1>11. CASE UNCHANGED vars
  BY <1>11 DEF vars, CacheServesCurrent, Produce
<1> QED
  BY <1>3, <1>4, <1>5, <1>6, <1>7, <1>8, <1>9, <1>10, <1>11 DEF Next, Visit

\* The cache is transparent: over any graph and any sequence of builds, edits,
\* failures and evictions, what a caching target's result holds is what a run of
\* it would give now, over what its dependencies, groups included, hand it.
THEOREM CacheIsTransparent == Spec => []CacheServesCurrent
<1> DEFINE Inv == LoopMatchesProgram /\ CacheMatchesKeys /\ CacheServesCurrent
<1>1. Init => Inv
  BY InitLoop DEF Init, CacheServesCurrent
<1>2. Inv /\ VisitsTheSelection /\ [Next]_vars => Inv'
  BY StepLoop, StepCache, StepServed
<1>3. Inv => CacheServesCurrent
  OBVIOUS
<1> HIDE DEF Inv
<1> QED
  BY <1>1, <1>2, <1>3, BuildsVisitTheSelection, PTL DEF Spec

-----------------------------------------------------------------------------
(* What is run again.                                                       *)

Pair(u) == [key |-> results[u].key, output |-> results[u].output]

\* What a run makes of the pairs of its roles.
Lineage(j, v, D, roles, s) ==
    [key    |-> <<j, v, [i \in D |-> <<roles[i].key, roles[i].output>>]>>,
     output |-> <<j, v, [i \in D |-> roles[i].output], s>>]

IsGroupPair(e) == \E m : e = [key |-> NoKey, output |-> [statuses |-> m]]

IsRunPair(e, F) == \E j, v, D, s : \E roles \in [D -> F] : e = Lineage(j, v, D, roles, s)

\* Every pair of F is a group's or was made of pairs of F, and no two keys have
\* one output.
History(F) ==
    /\ \A e \in F : IsGroupPair(e) \/ IsRunPair(e, F)
    /\ \A e, f \in F : e.output = f.output => e.key = f.key

\* What the cache holds, and what a build that has not stopped has made, is of
\* one history.
KeysMatchOutputs ==
    \E F : /\ History(F)
           /\ cache \subseteq F
           /\ ~stopped => \A u \in Targets : results[u].status \in OK => Pair(u) \in F

\* What runs though it is cached and neither forced nor verified was not there.
MissStands ==
    running # NoKey /\ order[at] \in Caching \ Verifying /\ ~force => ~ Hit(running)

\* What a run gives is not what a group gives.
LEMMA GroupsAreNotRuns ==
    ASSUME NEW F, NEW e, NEW f, IsGroupPair(e), IsRunPair(f, F) PROVE e.output # f.output
<1>1. PICK m : e = [key |-> NoKey, output |-> [statuses |-> m]]
  BY DEF IsGroupPair
<1>2. PICK j, v, D, s : \E roles \in [D -> F] : f = Lineage(j, v, D, roles, s)
  BY DEF IsRunPair
<1>3. PICK roles \in [D -> F] : f = Lineage(j, v, D, roles, s)
  BY <1>2
<1> DEFINE outputs == [i \in D |-> roles[i].output]
<1>4. f.output = <<j, v, outputs, s>>
  BY <1>3 DEF Lineage
<1> HIDE DEF outputs
<1>5. DOMAIN f.output = 1 .. 4
  BY <1>4
<1>6. e.output = [statuses |-> m]
  BY <1>1
<1>7. DOMAIN e.output = {"statuses"}
  BY <1>6
<1>8. DOMAIN e.output # 1 .. 4
  BY <1>7
<1> QED
  BY <1>5, <1>8

\* What is of a history is of a larger one.
LEMMA PairsStay ==
    ASSUME NEW F, NEW E, F \subseteq E, NEW e, IsRunPair(e, F) PROVE IsRunPair(e, E)
<1>1. PICK j, v, D, s : \E roles \in [D -> F] : e = Lineage(j, v, D, roles, s)
  BY DEF IsRunPair
<1>2. PICK roles \in [D -> F] : e = Lineage(j, v, D, roles, s)
  BY <1>1
<1>3. roles \in [D -> E]
  BY <1>2
<1> QED
  BY <1>2, <1>3 DEF IsRunPair

\* A group's result continues a history.
LEMMA HistoryGrowsByGroup ==
    ASSUME NEW F, History(F), NEW new, IsGroupPair(new)
    PROVE  History(F \union {new})
<1>1. ASSUME NEW e \in F PROVE IsGroupPair(e) \/ IsRunPair(e, F \union {new})
  BY <1>1, PairsStay DEF History
<1>2. ASSUME NEW e \in F, e.output = new.output PROVE e.key = new.key
  <2>1. IsGroupPair(e)
    BY <1>2, GroupsAreNotRuns DEF History
  <2> QED
    BY <2>1 DEF IsGroupPair
<1> QED
  BY <1>1, <1>2 DEF History

\* A run over roles of a history continues it.
LEMMA HistoryGrows ==
    ASSUME NEW F, History(F), NEW j, NEW v, NEW D, NEW s, NEW roles \in [D -> F]
    PROVE  History(F \union {Lineage(j, v, D, roles, s)})
<1> DEFINE new == Lineage(j, v, D, roles, s)
           E == F \union {new}
<1>1. ASSUME NEW e \in E PROVE IsGroupPair(e) \/ IsRunPair(e, E)
  <2>1. CASE e \in F
    BY <2>1, PairsStay DEF History
  <2>2. CASE e = new
    <3>1. roles \in [D -> E]
      OBVIOUS
    <3> QED
      BY <2>2, <3>1 DEF IsRunPair
  <2> QED
    BY <1>1, <2>1, <2>2
<1>2. ASSUME NEW e \in F, e.output = new.output PROVE e.key = new.key
  <2> HIDE DEF new
  <2>1. IsRunPair(e, F)
    <3>1. IsRunPair(new, F)
      BY DEF IsRunPair, new
    <3> QED
      BY <1>2, <3>1, GroupsAreNotRuns DEF History
  <2> USE DEF new
  <2>2. PICK k, w, C, r : \E rs \in [C -> F] : e = Lineage(k, w, C, rs, r)
    BY <2>1 DEF IsRunPair
  <2>3. PICK rs \in [C -> F] : e = Lineage(k, w, C, rs, r)
    BY <2>2
  <2>4. <<k, w, [i \in C |-> rs[i].output], r>> = <<j, v, [i \in D |-> roles[i].output], s>>
    BY <1>2, <2>3 DEF Lineage
  <2>5. k = j /\ w = v /\ [i \in C |-> rs[i].output] = [i \in D |-> roles[i].output]
    BY <2>4
  <2>6. C = D
    <3>1. DOMAIN [i \in C |-> rs[i].output] = C /\ DOMAIN [i \in D |-> roles[i].output] = D
      OBVIOUS
    <3> QED
      BY <2>5, <3>1
  <2>7. ASSUME NEW i \in D PROVE rs[i].output = roles[i].output /\ rs[i].key = roles[i].key
    <3>1. [m \in C |-> rs[m].output][i] = rs[i].output /\ [m \in D |-> roles[m].output][i] = roles[i].output
      BY <2>6, <2>7
    <3>2. rs[i] \in F /\ roles[i] \in F
      BY <2>3, <2>6, <2>7
    <3> QED
      BY <2>5, <3>1, <3>2 DEF History
  <2>8. [i \in C |-> <<rs[i].key, rs[i].output>>] = [i \in D |-> <<roles[i].key, roles[i].output>>]
    BY <2>6, <2>7
  <2> QED
    BY <2>3, <2>5, <2>8 DEF Lineage
<1>3. ASSUME NEW e \in E, NEW f \in E, e.output = f.output PROVE e.key = f.key
  <2> HIDE DEF new
  <2>1. CASE e \in F /\ f \in F
    BY <1>3, <2>1 DEF History
  <2>2. CASE e = new /\ f \in F
    BY <1>2, <1>3, <2>2
  <2>3. CASE e \in F /\ f = new
    BY <1>2, <1>3, <2>3
  <2> QED
    BY <2>1, <2>2, <2>3
<1> QED
  BY <1>1, <1>3 DEF History

\* The pair of a run of the target the loop is at, where everything it names is usable.
LEMMA RunMakes ==
    ASSUME NEW u \in Targets, DepStatuses(u) \subseteq OK, NEW s
    PROVE  [key |-> KeyOf(u), output |-> Produce(u, s)]
             = Lineage(Job[u], version[Job[u]], DOMAIN Deps[u], [i \in DOMAIN Deps[u] |-> Pair(Deps[u][i])], s)
<1>1. \A i \in DOMAIN Deps[u] : Deps[u][i] \in ToSet(Deps[u])
  BY DEF ToSet
<1>2. UsableRoles(u) = DOMAIN Deps[u]
  BY <1>1 DEF UsableRoles, DepStatuses
<1> DEFINE roles == [i \in DOMAIN Deps[u] |-> Pair(Deps[u][i])]
<1>3. \A i \in DOMAIN Deps[u] : roles[i].key = results[Deps[u][i]].key /\ roles[i].output = results[Deps[u][i]].output
  BY DEF Pair
<1> HIDE DEF roles
<1>4. KeyOf(u) = <<Job[u], version[Job[u]], [i \in DOMAIN Deps[u] |-> <<roles[i].key, roles[i].output>>]>>
  BY <1>2, <1>3 DEF KeyOf
<1>5. Produce(u, s) = <<Job[u], version[Job[u]], [i \in DOMAIN Deps[u] |-> roles[i].output], s>>
  BY <1>3 DEF Produce
<1> QED
  BY <1>4, <1>5 DEF Lineage, roles

\* What runs is at the loop; in a build that has not stopped, all it names is usable.
LEMMA AtTheRun ==
    ASSUME LoopMatchesProgram, VisitsTheSelection, NEW t \in Targets, Running(t)
    PROVE  /\ phase = "building" /\ at <= Len(order) /\ t = order[at] /\ running = KeyOf(t) /\ ~dry
           /\ ~stopped => DepStatuses(t) \subseteq OK
           /\ results[t].status = "none"
<1>1. phase = "building" /\ at <= Len(order) /\ t = order[at] /\ running = KeyOf(t) /\ ~dry
  BY DEF Running, LoopMatchesProgram, RunMatchesLoop
<1>2. /\ results[t].status = "none"
      /\ \A d \in ToSet(Deps[t]) : d \in Targets /\ results[d].status # "none"
  BY <1>1, AtTheLoop DEF LoopMatchesProgram, ResultsMatchLoop
<1>3. ~stopped => \A d \in ToSet(Deps[t]) : results[d].status \in OK
  BY <1>1, <1>2 DEF LoopMatchesProgram, StatusesMatchStop, Statuses
<1> QED
  BY <1>1, <1>2, <1>3 DEF DepStatuses

LEMMA StepHistory ==
    ASSUME LoopMatchesProgram, VisitsTheSelection, KeysMatchOutputs, [Next]_vars
    PROVE  KeysMatchOutputs'
<1>1. PICK F : /\ History(F)
               /\ cache \subseteq F
               /\ ~stopped => \A u \in Targets : results[u].status \in OK => Pair(u) \in F
  BY DEF KeysMatchOutputs
<1>2. ResultsMatchLoop
  BY DEF LoopMatchesProgram
<1>3. \A u \in Targets : \A i \in DOMAIN Deps[u] : Deps[u][i] \in ToSet(Deps[u]) /\ Deps[u][i] \in Targets
  BY RootAssumption DEF ToSet
<1>4. ASSUME NEW E, History(E), F \subseteq E, cache' \subseteq E, ~stopped' => ~stopped,
             NEW t \in Targets, phase = "building", at <= Len(order), t = order[at],
             NEW status, NEW key, NEW output, Done(t, status, key, output),
             ~stopped' /\ status \in OK => [key |-> key, output |-> output] \in E
      PROVE  KeysMatchOutputs'
  <2>1. /\ results'[t] = [status |-> status, key |-> key, output |-> output]
        /\ \A u \in Targets : u # t => results'[u] = results[u]
    BY <1>2, <1>4, DoneKeeps
  <2>2. ASSUME ~stopped', NEW u \in Targets, results'[u].status \in OK PROVE Pair(u)' \in E
    <3>1. CASE u = t
      BY <1>4, <2>1, <2>2, <3>1 DEF Pair
    <3>2. CASE u # t
      <4>1. results'[u] = results[u]
        BY <2>1, <3>2
      <4> QED
        BY <1>1, <1>4, <2>2, <4>1 DEF Pair
    <3> QED
      BY <3>1, <3>2
  <2> QED
    BY <1>4, <2>2 DEF KeysMatchOutputs
<1>5. ASSUME NEW t \in Targets, Visiting(t) PROVE phase = "building" /\ at <= Len(order) /\ t = order[at]
  BY <1>5 DEF Visiting
<1>6. ASSUME NEW t \in Targets, VisitGroup(t) PROVE KeysMatchOutputs'
  <2> DEFINE new == [key |-> NoKey, output |-> MemberStatuses(t)]
  <2>1. Visiting(t) /\ cache' = cache /\ stopped' = stopped
    BY <1>6 DEF VisitGroup
  <2>2. \E status : Done(t, status, NoKey, MemberStatuses(t))
    BY <1>6 DEF VisitGroup
  <2>3. IsGroupPair(new)
    BY DEF IsGroupPair, MemberStatuses
  <2> HIDE DEF new
  <2>4. History(F \union {new})
    BY <1>1, <2>3, HistoryGrowsByGroup
  <2> QED
    BY <1>1, <1>4, <1>5, <2>1, <2>2, <2>4 DEF new
<1>7. ASSUME NEW t \in Targets, Skip(t) \/ Wait(t) \/ Plan(t) \/ Fail(t) PROVE KeysMatchOutputs'
  <2>1. /\ Visiting(t) \/ Running(t)
        /\ cache' = cache /\ (~stopped' => ~stopped)
        /\ \E status \in {"skipped", "pending", "failed"} : \E key : Done(t, status, key, NoOutput)
    BY <1>7 DEF Skip, Wait, Plan, Fail, MustRun, Keyed, Considered
  <2>2. phase = "building" /\ at <= Len(order) /\ t = order[at]
    BY <1>5, <2>1, AtTheRun
  <2>3. PICK status \in {"skipped", "pending", "failed"} : \E key : Done(t, status, key, NoOutput)
    BY <2>1
  <2>4. status \notin OK
    BY <2>3 DEF OK
  <2> QED
    BY <1>1, <1>4, <2>1, <2>2, <2>3, <2>4
<1>8. ASSUME NEW t \in Targets, Serve(t) PROVE KeysMatchOutputs'
  <2>1. /\ Visiting(t) /\ Hit(KeyOf(t)) /\ cache' = cache /\ stopped' = stopped
        /\ Done(t, "cached", KeyOf(t), Entry(KeyOf(t)).output)
    BY <1>8 DEF Serve, Servable, Keyed, Considered
  <2> DEFINE e == Entry(KeyOf(t))
  <2>2. e \in F /\ e.key = KeyOf(t)
    BY <1>1, <2>1 DEF Hit, Entry
  <2> HIDE DEF e
  <2>3. IsGroupPair(e) \/ IsRunPair(e, F)
    BY <1>1, <2>2 DEF History
  <2>4. e = [key |-> e.key, output |-> e.output]
    BY <2>3 DEF IsGroupPair, IsRunPair, Lineage
  <2>5. [key |-> KeyOf(t), output |-> e.output] \in F
    BY <2>2, <2>4
  <2>6. Done(t, "cached", KeyOf(t), e.output)
    BY <2>1 DEF e
  <2> QED
    BY <1>1, <1>4, <1>5, <2>1, <2>5, <2>6
<1>9. ASSUME NEW t \in Targets, NEW s \in Samples, Ran(t, s) PROVE KeysMatchOutputs'
  <2> DEFINE new == [key |-> running, output |-> Produce(t, s)]
  <2>1. /\ Running(t) /\ stopped' = stopped /\ Done(t, "ran", running, Produce(t, s))
        /\ cache' \subseteq IF t \in Caching THEN cache \union {new} ELSE cache
    BY <1>9 DEF Ran
  <2>2. /\ phase = "building" /\ at <= Len(order) /\ t = order[at] /\ running = KeyOf(t)
        /\ ~stopped => DepStatuses(t) \subseteq OK
    BY <2>1, AtTheRun
  <2>3. t \in Caching => ~stopped
    BY <2>1, <2>2, NodeAssumption DEF Running, LoopMatchesProgram, RunMatchesLoop
  <2>4. CASE ~stopped
    <3> DEFINE roles == [i \in DOMAIN Deps[t] |-> Pair(Deps[t][i])]
    <3>1. \A i \in DOMAIN Deps[t] : Deps[t][i] \in ToSet(Deps[t]) /\ Deps[t][i] \in Targets
      BY <1>3
    <3>2. \A i \in DOMAIN Deps[t] : results[Deps[t][i]].status \in OK
      BY <2>2, <2>4, <3>1 DEF DepStatuses
    <3>3. roles \in [DOMAIN Deps[t] -> F]
      BY <1>1, <2>4, <3>1, <3>2
    <3>4. new = Lineage(Job[t], version[Job[t]], DOMAIN Deps[t], roles, s)
      BY <2>2, <2>4, RunMakes
    <3> HIDE DEF roles
    <3>5. History(F \union {new})
      BY <1>1, <3>3, <3>4, HistoryGrows
    <3>6. cache' \subseteq F \union {new}
      BY <1>1, <2>1
    <3> QED
      BY <1>4, <2>1, <2>2, <3>5, <3>6
  <2>5. CASE stopped
    <3>1. cache' \subseteq F
      BY <1>1, <2>1, <2>3, <2>5
    <3> QED
      BY <1>1, <1>4, <2>1, <2>2, <2>5, <3>1
  <2> QED
    BY <2>4, <2>5
<1>10. ASSUME NEW d \in BOOLEAN, NEW f \in BOOLEAN, NEW s \in Selections, Begin(d, f, s) PROVE KeysMatchOutputs'
  <2>1. results' = [t \in Targets |-> NoResult] /\ cache' \subseteq cache
    BY <1>10 DEF Begin
  <2>2. \A u \in Targets : results'[u].status \notin OK
    BY <2>1 DEF NoResult, OK
  <2>3. cache' \subseteq F
    BY <1>1, <2>1
  <2> QED
    BY <1>1, <2>2, <2>3 DEF KeysMatchOutputs
<1>11. ASSUME results' = results, cache' = cache, stopped' = stopped PROVE KeysMatchOutputs'
  BY <1>1, <1>11 DEF KeysMatchOutputs, Pair
<1>12. CASE \/ (\E t \in Targets : Start(t) \/ Escape(t)) \/ Finish \/ (\E j, v : Edit(j, v)) \/ UNCHANGED vars
  BY <1>11, <1>12 DEF Start, Escape, Finish, Edit, vars
<1> QED
  BY <1>6, <1>7, <1>8, <1>9, <1>10, <1>12 DEF Next, Visit

LEMMA StepMiss ==
    ASSUME LoopMatchesProgram, MissStands, [Next]_vars PROVE MissStands'
<1>1. ASSUME NEW t \in Targets, Start(t) PROVE MissStands'
  <2>1. /\ running' = KeyOf(t) /\ order[at] = t /\ cache' = cache /\ order' = order /\ at' = at /\ force' = force
        /\ Servable(t) => t \in Verifying /\ ~dry
    BY <1>1 DEF Start, MustRun, Keyed, Considered, Visiting
  <2>2. t \in Caching \ Verifying /\ ~force => ~ Hit(KeyOf(t))
    BY <2>1 DEF Servable
  <2>3. \A k : Hit(k)' <=> Hit(k)
    BY <2>1 DEF Hit
  <2> QED
    BY <2>1, <2>2, <2>3 DEF MissStands
<1>2. ASSUME NEW t \in Targets, Visit(t), ~ Start(t) PROVE running' = NoKey
  BY <1>2 DEF Visit, VisitGroup, Skip, Wait, Serve, Plan, Ran, Fail, Escape, Done
<1>3. ASSUME NEW d \in BOOLEAN, NEW f \in BOOLEAN, NEW s \in Selections, Begin(d, f, s) PROVE running' = NoKey
  BY <1>3 DEF Begin, LoopMatchesProgram, RunMatchesLoop
<1>4. CASE Finish \/ (\E j, v : Edit(j, v)) \/ UNCHANGED vars
  <2>1. running' = running /\ order' = order /\ at' = at /\ force' = force /\ cache' = cache
    BY <1>4 DEF Finish, Edit, vars
  <2> QED
    BY <2>1 DEF MissStands, Hit
<1>5. running' = NoKey => MissStands'
  BY DEF MissStands
<1> QED
  BY <1>1, <1>2, <1>3, <1>4, <1>5 DEF Next

\* Whatever label or build made an entry, a caching target is not run for what the
\* entry already holds, unless forced or refused by its verify.
THEOREM NothingIsRunTwice == Spec => NoSpuriousRerun
<1> DEFINE Inv == LoopMatchesProgram /\ VisitsTheSelection /\ KeysMatchOutputs /\ MissStands
           NoRerun(t) == results[t].status = "none" /\ results'[t].status = "ran" /\ ~force
                           => \A e \in cache : e.output # results'[t].output
<1>1. Init => KeysMatchOutputs /\ MissStands
  <2> SUFFICES ASSUME Init PROVE KeysMatchOutputs /\ MissStands
    OBVIOUS
  <2>1. History({})
    BY DEF History
  <2>2. \A u \in Targets : results[u].status \notin OK
    BY DEF Init, NoResult, OK
  <2> QED
    BY <2>1, <2>2 DEF Init, KeysMatchOutputs, MissStands
<1>2. LoopMatchesProgram /\ VisitsTheSelection /\ KeysMatchOutputs /\ MissStands /\ [Next]_vars
        => KeysMatchOutputs' /\ MissStands'
  BY StepHistory, StepMiss
<1>3. Inv /\ [Next]_vars => \A t \in Caching \ Verifying : NoRerun(t)
  <2> SUFFICES ASSUME Inv, [Next]_vars, NEW t \in Caching \ Verifying,
                      results[t].status = "none", results'[t].status = "ran", ~force, NEW e \in cache
               PROVE  e.output # results'[t].output
    OBVIOUS
  <2>1. ResultsMatchLoop /\ t \in Targets
    BY NodeAssumption DEF LoopMatchesProgram
  <2>2. PICK s \in Samples : Ran(t, s)
    <3>1. ASSUME NEW u \in Targets, NEW status, NEW key, NEW output, Done(u, status, key, output),
                 status # "ran" \/ u # t
          PROVE  FALSE
      BY <2>1, <3>1 DEF Done, ResultsMatchLoop
    <3>2. ASSUME NEW u \in Targets, VisitGroup(u) PROVE FALSE
      <4>1. \E status \in {"pending", "ok", "blocked"} : \E output : Done(u, status, NoKey, output)
        BY <3>2 DEF VisitGroup
      <4> QED
        BY <3>1, <4>1
    <3>3. ASSUME NEW u \in Targets, Skip(u) \/ Wait(u) \/ Serve(u) \/ Plan(u) \/ Fail(u) PROVE FALSE
      <4>1. \E status \in {"skipped", "pending", "cached", "failed"} : \E key, output : Done(u, status, key, output)
        BY <3>3 DEF Skip, Wait, Serve, Plan, Fail
      <4> QED
        BY <3>1, <4>1
    <3>4. ASSUME NEW u \in Targets, NEW s \in Samples, Ran(u, s), u # t PROVE FALSE
      <4>1. Done(u, "ran", running, Produce(u, s))
        BY <3>4 DEF Ran
      <4> QED
        BY <3>1, <3>4, <4>1
    <3>5. ASSUME NEW d \in BOOLEAN, NEW f \in BOOLEAN, NEW s \in Selections, Begin(d, f, s) PROVE FALSE
      <4>1. results'[t].status = "none"
        BY <2>1, <3>5 DEF Begin, NoResult
      <4> QED
        BY <4>1
    <3>6. results' # results
      OBVIOUS
    <3>7. CASE \/ (\E u \in Targets : Start(u) \/ Escape(u)) \/ Finish \/ (\E j, v : Edit(j, v)) \/ UNCHANGED vars
      BY <3>6, <3>7 DEF Start, Escape, Finish, Edit, vars
    <3> QED
      BY <3>2, <3>3, <3>4, <3>5, <3>7 DEF Next, Visit
  <2>3. /\ Running(t) /\ running # NoKey /\ t = order[at] /\ running = KeyOf(t) /\ ~stopped
        /\ DepStatuses(t) \subseteq OK
    <3>1. Running(t)
      BY <2>2 DEF Ran
    <3>2. t = order[at] /\ running = KeyOf(t) /\ (~stopped => DepStatuses(t) \subseteq OK)
      BY <2>1, <3>1, AtTheRun
    <3>3. running # NoKey
      BY <3>1 DEF Running
    <3>4. ~stopped
      BY <3>2, <3>3, NodeAssumption DEF LoopMatchesProgram, RunMatchesLoop
    <3> QED
      BY <3>1, <3>2, <3>3, <3>4
  <2>4. results'[t].output = Produce(t, s)
    BY <2>1, <2>2 DEF Ran, Done, ResultsMatchLoop
  <2>5. PICK F : /\ History(F)
                 /\ cache \subseteq F
                 /\ \A u \in Targets : results[u].status \in OK => Pair(u) \in F
    BY <2>3 DEF KeysMatchOutputs
  <2>6. \A i \in DOMAIN Deps[t] : Deps[t][i] \in ToSet(Deps[t]) /\ Deps[t][i] \in Targets
    BY <2>1, RootAssumption DEF ToSet
  <2> DEFINE roles == [i \in DOMAIN Deps[t] |-> Pair(Deps[t][i])]
             new == [key |-> KeyOf(t), output |-> Produce(t, s)]
  <2>7. roles \in [DOMAIN Deps[t] -> F]
    BY <2>3, <2>5, <2>6 DEF DepStatuses
  <2>8. new = Lineage(Job[t], version[Job[t]], DOMAIN Deps[t], roles, s)
    BY <2>1, <2>3, RunMakes
  <2> HIDE DEF roles
  <2>9. History(F \union {new})
    BY <2>5, <2>7, <2>8, HistoryGrows
  <2>10. e.output = new.output => e.key = new.key
    <3> HIDE DEF new
    <3> QED
      BY <2>5, <2>9 DEF History
  <2>11. e.output = Produce(t, s) => e.key = running
    BY <2>3, <2>10
  <2>12. e.key # running
    BY <2>3 DEF MissStands, Hit
  <2> QED
    BY <2>4, <2>11, <2>12
<1>4. Inv /\ [Next]_vars => [\A t \in Caching \ Verifying : NoRerun(t)]_vars
  BY <1>3
<1> QED
  BY <1>1, <1>2, <1>4, LoopCorrect, BuildsVisitTheSelection, PTL DEF Spec, NoSpuriousRerun, Inv, NoRerun
=============================================================================
