---------------------------- MODULE Gates_proofs ----------------------------
(***************************************************************************)
(* What the three gates keep, of any registry of cells, any claims and     *)
(* results and any measurements.  First the draw: the planes every draw    *)
(* may return, and the regime of a seen cell at its leaves.  Then the      *)
(* comparison: what a diff that held compared.  Then the timing: the order *)
(* statistics of a session, and what its judgements mean.                  *)
(***************************************************************************)
EXTENDS Gates, WellFoundedInduction, FiniteSetTheorems, TLAPS

-----------------------------------------------------------------------------
(* The planes of a draw.                                                   *)

HeadsOf(r, side) == IF side = "read" THEN r.heads * r.group ELSE r.heads

LiveOf(r, level) == Max({1, (r.widths[level] * r.support) \div 8})

Halves(r) == r.widths[1] >= 2

CountOf(r, side, level) ==
    IF \/ r.draw \in Alternating /\ (side = "read") = ((level - 1) % 2 = 1)
       \/ r.draw \in FirstLevel /\ level = 1 /\ r.draw \in {"both", side}
    THEN r.k_tok ELSE 0

\* Where a row of a draw may be live: in its level, somewhere, and as its draw is named for.
RowFits(r, side, level, token, row) ==
    /\ row \subseteq NaNRow(r.widths[level])
    /\ r.draw \notin Degenerate => Live(row) # {}
    /\ r.support = 8 /\ CountOf(r, side, level) \in 1 .. r.widths[level] - 1 => Cardinality(row) = CountOf(r, side, level)
    /\ r.draw = "anti" /\ level = 1 /\ Halves(r) => row = Half(r.widths[1], side = "write")
    /\ r.draw = "cold" /\ level = 1 /\ side = "write" => row \subseteq 0 .. LiveOf(r, 1) - 1
    /\ r.draw = "readonly" /\ side = "write" => row = {0}
    /\ r.draw = "flip" /\ side = "write" /\ level = 1 /\ Halves(r) => row = Half(r.widths[1], OddWindow(token))
    /\ r.draw \in {"anti", "flip"} /\ level # 1 => row = Digits(r.widths[level])

AtOf(r, side) == (0 .. r.tokens - 1) \X (0 .. HeadsOf(r, side) - 1)

PlaneFits(r, side, level, plane) ==
    /\ plane \in [AtOf(r, side) -> SUBSET Int]
    /\ \A at \in AtOf(r, side) : RowFits(r, side, level, at[1], plane[at])

\* What an accepted record is.
LEMMA AcceptedRecord ==
    ASSUME NEW r \in Records, Accepted(r)
    PROVE  /\ r.widths \in Seq(Nat \ {0}) /\ r.widths # <<>> /\ Len(r.widths) \in Nat \ {0}
           /\ \A level \in 1 .. Len(r.widths) : r.widths[level] \in Nat \ {0}
           /\ r.tokens \in Nat \ {0} /\ r.support \in 0 .. 8 /\ r.k_tok \in Nat /\ r.cohort \in Nat
           /\ r.group \in Nat \ {0} /\ r.heads \in Nat \ {0} /\ r.heads * r.group \in Nat \ {0}
           /\ r.draw \in Draws
           /\ r.draw \notin {"dense", "alt", "both", "cohort"} => r.group = 1 /\ r.heads * r.group = r.heads
           /\ r.draw \in Counted => r.k_tok \in Nat \ {0}
           /\ r.draw = "cohort" => r.cohort \in Nat \ {0}
           /\ r.draw \in Degenerate <=> r.regime = NoRegime
<1>1. /\ r.widths \in Seq(Nat \ {0}) /\ r.widths # <<>>
      /\ r.tokens \in Nat \ {0} /\ r.support \in 0 .. 8 /\ r.k_tok \in Nat /\ r.cohort \in Nat
      /\ r.group \in Int /\ r.heads \in Int
  BY RecordsAssumption
<1>2. /\ r.group >= 1 /\ r.heads >= 1 /\ r.draw \in Draws
      /\ r.group > 1 => r.draw \in {"dense", "alt", "both", "cohort"}
      /\ (r.draw = "cohort") = (r.cohort # 0)
      /\ (r.draw \in Counted) = (r.k_tok # 0)
      /\ (r.draw \in Degenerate) = (r.regime = NoRegime)
  BY DEF Accepted
<1>3. Len(r.widths) \in Nat \ {0} /\ \A level \in 1 .. Len(r.widths) : r.widths[level] \in Nat \ {0}
  BY <1>1
<1>4. r.group \in Nat \ {0} /\ r.heads \in Nat \ {0} /\ r.heads * r.group \in Nat \ {0}
  BY <1>1, <1>2
<1>5. r.draw \notin {"dense", "alt", "both", "cohort"} => r.group = 1 /\ r.heads * r.group = r.heads
  BY <1>1, <1>2
<1> QED BY <1>1, <1>2, <1>3, <1>4, <1>5

LEMMA LiveDigitsIs ==
    ASSUME NEW w \in Nat \ {0}, NEW s \in 0 .. 8
    PROVE  /\ Max({1, (w * s) \div 8}) \in 1 .. w
           /\ s = 8 => Max({1, (w * s) \div 8}) = w
<1> DEFINE x == (w * s) \div 8
<1>1. x \in Nat /\ x <= w /\ (s = 8 => x = w)
  <2>1. w * s \in Nat /\ w * s <= w * 8
    OBVIOUS
  <2>2. s = 8 => w * s = 8 * w
    OBVIOUS
  <2> QED BY <2>1, <2>2
<1> HIDE DEF x
<1>2. Max({1, x}) = IF x >= 1 THEN x ELSE 1
  <2>1. \E m \in {1, x} : \A y \in {1, x} : m >= y
    BY <1>1
  <2>2. Max({1, x}) \in {1, x} /\ \A y \in {1, x} : Max({1, x}) >= y
    BY <2>1 DEF Max
  <2> QED BY <1>1, <2>2
<1> QED BY <1>1, <1>2 DEF x

LEMMA LiveRow ==
    ASSUME NEW w \in Nat \ {0}, NEW row \in SUBSET Digits(w)
    PROVE  /\ Live(row) = row /\ row \subseteq NaNRow(w)
           /\ Normalised(row, w) \subseteq NaNRow(w) /\ Live(Normalised(row, w)) # {}
           /\ row # {} => Normalised(row, w) = row
           /\ IsFiniteSet(row) /\ Cardinality(row) \in Nat /\ Cardinality(Digits(w)) = w
<1>1. NaNMark \notin row
  BY DEF Digits, NaNMark
<1>2. 0 \in Digits(w) /\ Live(NaNRow(w)) = Digits(w)
  BY DEF Digits, Live, NaNRow, NaNMark
<1>3. IsFiniteSet(Digits(w)) /\ Cardinality(Digits(w)) = w
  BY FS_Interval DEF Digits
<1>4. IsFiniteSet(row) /\ Cardinality(row) \in Nat
  BY <1>3, FS_Subset, FS_CardinalityType
<1>5. Live(row) = row /\ row \subseteq NaNRow(w)
  BY <1>1 DEF Live, NaNRow
<1> QED BY <1>2, <1>3, <1>4, <1>5 DEF Normalised

LEMMA ModWraps ==
    ASSUME NEW w \in Nat \ {0}, NEW x \in 0 .. 2 * w - 1
    PROVE  x % w = IF x < w THEN x ELSE x - w
<1>1. CASE x < w
  BY <1>1
<1>2. CASE x >= w
  <2>1. /\ x = (w * (x \div w)) + (x % w)
        /\ (x % w) \in 0 .. w - 1 /\ x \div w \in Nat
    OBVIOUS
  <2>2. x \div w = 1
    <3>1. ~(x \div w = 0)
      BY <1>2, <2>1
    <3>2. ~(x \div w >= 2)
      <4>1. SUFFICES ASSUME x \div w >= 2 PROVE FALSE
        OBVIOUS
      <4>2. w * (x \div w) >= w * 2
        BY <2>1, <4>1
      <4> QED BY <2>1, <4>2
    <3> QED BY <2>1, <3>1, <3>2
  <2> QED BY <1>2, <2>1, <2>2
<1> QED BY <1>1, <1>2

Cluster(w, k, start, labels) == {labels[(start + i) % w] : i \in 0 .. k - 1}

\* A cohort's digits: as many as it has, labelled apart.
LEMMA ClusterRow ==
    ASSUME NEW w \in Nat \ {0}, NEW k \in 1 .. w - 1, NEW start \in Digits(w), NEW labels \in Labellings(w)
    PROVE  /\ Cluster(w, k, start, labels) \subseteq Digits(w) /\ Cluster(w, k, start, labels) # {}
           /\ Cardinality(Cluster(w, k, start, labels)) = k
<1> DEFINE row == {labels[(start + i) % w] : i \in 0 .. k - 1}
           pick == [i \in 0 .. k - 1 |-> labels[(start + i) % w]]
<1>1. labels \in [Digits(w) -> Digits(w)] /\ \A i, j \in Digits(w) : labels[i] = labels[j] => i = j
  BY DEF Labellings
<1>2. ASSUME NEW i \in 0 .. k - 1
      PROVE  (start + i) % w \in Digits(w) /\ (start + i) % w = IF start + i < w THEN start + i ELSE start + i - w
  <2> DEFINE x == start + i
  <2>1. x \in 0 .. 2 * w - 1
    BY DEF Digits
  <2> HIDE DEF x
  <2>2. (x % w) = IF x < w THEN x ELSE x - w
    BY <2>1, ModWraps
  <2> QED BY <2>1, <2>2 DEF Digits, x
<1>3. pick \in [0 .. k - 1 -> row]
  OBVIOUS
<1>4. ASSUME NEW i \in 0 .. k - 1, NEW j \in 0 .. k - 1, pick[i] = pick[j] PROVE i = j
  <2>1. (start + i) % w = (start + j) % w
    BY <1>1, <1>2, <1>4
  <2> QED BY <1>2, <2>1 DEF Digits
<1>5. pick \in Bijection(0 .. k - 1, row)
  <2>1. \A x \in row : \E i \in 0 .. k - 1 : pick[i] = x
    OBVIOUS
  <2> HIDE DEF pick, row
  <2> QED BY <1>3, <1>4, <2>1 DEF Bijection, Injection, IsInjective, Surjection
<1>6. IsFiniteSet(0 .. k - 1) /\ Cardinality(0 .. k - 1) = k
  BY FS_Interval
<1>7. Cardinality(row) = k
  BY <1>5, <1>6, FS_Bijection DEF ExistsBijection
<1>8. row \subseteq Digits(w) /\ labels[(start + 0) % w] \in row
  <2>1. 0 \in 0 .. k - 1
    OBVIOUS
  <2> QED BY <1>1, <1>2, <2>1
<1> QED BY <1>7, <1>8 DEF Cluster

LEMMA CohortOf ==
    ASSUME NEW T \in Nat \ {0}, NEW c \in Nat \ {0}, T % c = 0, NEW t \in 0 .. T - 1
    PROVE  t \div c \in 0 .. T \div c - 1
<1> DEFINE a == t \div c
           m == T \div c
<1>1. T = c * m /\ m \in Nat
  OBVIOUS
<1>2. a \in Nat /\ c * a <= t
  OBVIOUS
<1> HIDE DEF a, m
<1>3. c * a < c * m
  BY <1>1, <1>2
<1>4. a < m
  <2> SUFFICES ASSUME m <= a PROVE FALSE
    BY <1>1, <1>2
  <2>1. c * m <= c * a
    BY <1>1, <1>2
  <2> QED BY <1>1, <1>2, <1>3, <2>1
<1>5. a \in 0 .. m - 1
  BY <1>1, <1>2, <1>4
<1> QED BY <1>5 DEF a, m

Thinned(w, kept, live) == Normalised({d \in kept : d < live}, w)

Kept(w, k) == IF k # 0 /\ k < w THEN kSubset(k, Digits(w)) ELSE {Digits(w)}

\* A token and head's digits under a k_tok: of a whole level, as many as the k_tok says.
LEMMA SimplexRow ==
    ASSUME NEW w \in Nat \ {0}, NEW k \in Nat, NEW live \in 1 .. w, NEW kept \in Kept(w, k)
    PROVE  /\ Thinned(w, kept, live) \subseteq NaNRow(w) /\ Live(Thinned(w, kept, live)) # {}
           /\ live = w /\ k \in 1 .. w - 1 => Cardinality(Thinned(w, kept, live)) = k
<1> DEFINE thinned == {d \in kept : d < live}
<1>1. kept \subseteq Digits(w) /\ (k \in 1 .. w - 1 => Cardinality(kept) = k)
  BY DEF kSubset, Kept
<1>2. thinned \in SUBSET Digits(w)
  BY <1>1
<1>3. Normalised(thinned, w) \subseteq NaNRow(w) /\ Live(Normalised(thinned, w)) # {}
  <2> HIDE DEF thinned
  <2> QED BY <1>2, LiveRow
<1>4. ASSUME live = w, k \in 1 .. w - 1 PROVE Cardinality(Normalised(thinned, w)) = k
  <2>1. thinned = kept
    <3>1. \A d \in kept : d < live
      BY <1>1, <1>4 DEF Digits
    <3> QED BY <3>1
  <2>2. kept # {}
    BY <1>1, <1>4, FS_EmptySet
  <2> QED BY <1>1, <1>4, <2>1, <2>2 DEF Normalised
<1> QED BY <1>3, <1>4 DEF Thinned

LEMMA SimplexPlane ==
    ASSUME NEW r \in Records, declared = r, Accepted(r), NEW side \in {"read", "write"}, NEW l \in 1 .. Len(r.widths),
           NEW k \in Nat, NEW live \in 1 .. r.widths[l], NEW plane \in Simplex(HeadsOf(r, side), r.widths[l], k, live),
           r.draw \notin {"anti", "cold", "readonly", "flip"},
           CountOf(r, side, l) \in {0, k}, r.support = 8 /\ CountOf(r, side, l) # 0 => live = r.widths[l]
    PROVE  PlaneFits(r, side, l, plane)
<1> DEFINE w == r.widths[l]
<1>1. w \in Nat \ {0}
  BY AcceptedRecord
<1>2. plane \in [AtOf(r, side) -> {Thinned(w, kept, live) : kept \in Kept(w, k)}]
  BY DEF Simplex, At, AtOf, Kept, Thinned
<1>3. ASSUME NEW at \in AtOf(r, side)
      PROVE  /\ plane[at] \subseteq NaNRow(w) /\ Live(plane[at]) # {}
             /\ live = w /\ k \in 1 .. w - 1 => Cardinality(plane[at]) = k
  <2>1. PICK kept \in Kept(w, k) : plane[at] = Thinned(w, kept, live)
    BY <1>2, <1>3
  <2> HIDE DEF w
  <2>2. live \in 1 .. w
    BY DEF w
  <2> QED BY <1>1, <2>1, <2>2, SimplexRow
<1>4. ASSUME NEW at \in AtOf(r, side) PROVE plane[at] \in SUBSET Int /\ RowFits(r, side, l, at[1], plane[at])
  <2>1. NaNRow(w) \subseteq Int
    BY DEF NaNRow, Digits, NaNMark
  <2> QED BY <1>1, <1>3, <1>4, <2>1 DEF RowFits
<1> QED BY <1>2, <1>4 DEF PlaneFits

LEMMA ClusteredPlane ==
    ASSUME NEW r \in Records, declared = r, Accepted(r), NEW side \in {"read", "write"}, NEW l \in 1 .. Len(r.widths),
           r.draw = "cohort", CountOf(r, side, l) \in 1 .. r.widths[l] - 1, r.tokens % r.cohort = 0,
           NEW plane \in Clustered(HeadsOf(r, side), r.widths[l], CountOf(r, side, l))
    PROVE  PlaneFits(r, side, l, plane)
<1> DEFINE w == r.widths[l]
           k == CountOf(r, side, l)
<1>1. w \in Nat \ {0} /\ r.tokens \in Nat \ {0} /\ r.cohort \in Nat \ {0}
  BY AcceptedRecord
<1> DEFINE Starts == [0 .. r.tokens \div r.cohort - 1 -> Digits(w)]
<1>2. PICK labels \in Labellings(w), starts \in Starts :
          plane = [at \in AtOf(r, side) |-> Cluster(w, k, starts[at[1] \div r.cohort], labels)]
  <2>1. At(HeadsOf(r, side)) = AtOf(r, side)
    BY DEF At, AtOf
  <2>2. plane \in {[at \in At(HeadsOf(r, side)) |-> Cluster(w, k, starts[at[1] \div r.cohort], labels)] :
                      labels \in Labellings(w), starts \in Starts}
    BY DEF Clustered, Cluster
  <2> QED BY <2>1, <2>2
<1>3. ASSUME NEW at \in AtOf(r, side)
      PROVE  plane[at] \subseteq Digits(w) /\ plane[at] # {} /\ Cardinality(plane[at]) = k
  <2>1. at[1] \in 0 .. r.tokens - 1
    BY <1>3 DEF AtOf
  <2>2. at[1] \div r.cohort \in 0 .. r.tokens \div r.cohort - 1
    BY <1>1, <2>1, CohortOf
  <2> DEFINE start == starts[at[1] \div r.cohort]
  <2>3. start \in Digits(w)
    BY <1>2, <2>2
  <2>4. plane[at] = Cluster(w, k, start, labels)
    BY <1>2, <1>3
  <2>5. k \in 1 .. w - 1
    OBVIOUS
  <2> HIDE DEF start, w, k
  <2> QED BY <1>1, <1>2, <2>3, <2>4, <2>5, ClusterRow
<1>4. ASSUME NEW at \in AtOf(r, side) PROVE plane[at] \in SUBSET Int /\ RowFits(r, side, l, at[1], plane[at])
  <2>1. Digits(w) \subseteq Int
    BY DEF Digits
  <2>2. plane[at] \subseteq NaNRow(w) /\ Live(plane[at]) # {}
    <3> HIDE DEF w
    <3> QED BY <1>1, <1>3, <1>4, LiveRow
  <2> QED BY <1>1, <1>3, <1>4, <2>1, <2>2 DEF RowFits
<1>5. DOMAIN plane = AtOf(r, side) /\ plane = [at \in AtOf(r, side) |-> plane[at]]
  BY <1>2
<1> QED BY <1>4, <1>5 DEF PlaneFits

Cornered == Draws \ (Degenerate \cup Alternating \cup FirstLevel \cup {"dense"})

LEMMA DigitsFinite ==
    ASSUME NEW w \in Nat \ {0}
    PROVE  IsFiniteSet(Digits(w)) /\ Cardinality(Digits(w)) = w
BY FS_Interval DEF Digits

\* A plane whose every row is known place by place.
LEMMA RowPlane ==
    ASSUME NEW r \in Records, declared = r, Accepted(r), NEW side \in {"read", "write"}, NEW l \in 1 .. Len(r.widths),
           NEW plane, plane = [at \in AtOf(r, side) |-> plane[at]],
           \A at \in AtOf(r, side) : RowFits(r, side, l, at[1], plane[at])
    PROVE  PlaneFits(r, side, l, plane)
<1>1. r.widths[l] \in Nat \ {0}
  BY AcceptedRecord
<1>2. NaNRow(r.widths[l]) \subseteq Int
  BY <1>1 DEF NaNRow, Digits, NaNMark
<1>3. \A at \in AtOf(r, side) : plane[at] \in SUBSET Int
  BY <1>2 DEF RowFits
<1> QED BY <1>3 DEF PlaneFits

LEMMA HalfRow ==
    ASSUME NEW w \in Nat \ {0}, NEW second \in BOOLEAN
    PROVE  /\ Half(w, second) \in SUBSET Digits(w)
           /\ w >= 2 => Half(w, second) # {}
           /\ \E row \in SUBSET Digits(w) : Normalised(Half(w, second), w) = Normalised(row, w)
           /\ w >= 2 => Normalised(Half(w, second), w) = Half(w, second)
           /\ Half(w, FALSE) \cap Half(w, TRUE) = {}
<1>1. w \div 2 \in 0 .. w - 1 /\ (w >= 2 => w \div 2 >= 1)
  OBVIOUS
<1>2. Half(w, second) \in SUBSET Digits(w)
  BY <1>1 DEF Half, Digits
<1>3. ASSUME w >= 2 PROVE Half(w, second) # {}
  <2>1. second => w \div 2 \in Half(w, second)
    BY <1>1 DEF Half
  <2>2. ~second => 0 \in Half(w, second)
    BY <1>1, <1>3 DEF Half
  <2> QED BY <2>1, <2>2
<1>4. Half(w, FALSE) \cap Half(w, TRUE) = {}
  BY <1>1 DEF Half
<1> QED BY <1>2, <1>3, <1>4 DEF Normalised

LEMMA CornerPlane ==
    ASSUME NEW r \in Records, declared = r, Accepted(r), NEW side \in {"read", "write"}, NEW l \in 1 .. Len(r.widths),
           r.draw \in Cornered \ {"tied"}, NEW plane \in Corner(side, l - 1, r.widths[l])
    PROVE  PlaneFits(r, side, l, plane)
<1> DEFINE w == r.widths[l]
<1>1. w \in Nat \ {0} /\ r.support \in 0 .. 8
  BY AcceptedRecord
<1>2. At(r.heads) = AtOf(r, side)
  <2>1. r.heads * r.group = r.heads
    BY AcceptedRecord DEF Cornered, Alternating, FirstLevel
  <2> QED BY <2>1 DEF At, AtOf, HeadsOf
<1>3. CountOf(r, side, l) = 0
  BY DEF CountOf, Cornered
<1>4. r.draw \notin Degenerate
  BY DEF Cornered
<1>5. l - 1 = 0 <=> l = 1
  OBVIOUS
<1>6. CASE r.draw = "onehot"
  <2>1. plane \in [AtOf(r, side) -> {{d} : d \in Digits(w)}]
    BY <1>2, <1>6 DEF Corner, OneHot
  <2>2. ASSUME NEW at \in AtOf(r, side) PROVE RowFits(r, side, l, at[1], plane[at])
    <3>1. PICK d \in Digits(w) : plane[at] = {d}
      BY <2>1
    <3>2. plane[at] \in SUBSET Digits(w) /\ plane[at] # {}
      BY <3>1
    <3>3. plane[at] \subseteq NaNRow(w) /\ Live(plane[at]) # {}
      <4> HIDE DEF w
      <4> QED BY <1>1, <3>2, LiveRow
    <3> QED BY <1>3, <1>6, <3>3 DEF RowFits
  <2> QED BY <2>1, <2>2, RowPlane
<1>7. CASE r.draw = "anti" /\ l = 1
  <2>1. plane = [at \in AtOf(r, side) |-> Normalised(Half(w, side = "write"), w)]
    BY <1>2, <1>5, <1>7 DEF Corner, Fixed
  <2>2. ASSUME NEW at \in AtOf(r, side) PROVE RowFits(r, side, l, at[1], plane[at])
    <3>1. Half(w, side = "write") \in SUBSET Digits(w) /\ (w >= 2 => plane[at] = Half(w, side = "write"))
      <4>1. (side = "write") \in BOOLEAN
        OBVIOUS
      <4> HIDE DEF w
      <4> QED BY <1>1, <2>1, <4>1, HalfRow
    <3>2. plane[at] \subseteq NaNRow(w) /\ Live(plane[at]) # {}
      <4> HIDE DEF w
      <4> QED BY <1>1, <2>1, <3>1, LiveRow
    <3> QED BY <1>3, <1>7, <3>1, <3>2 DEF RowFits, Halves
  <2> QED BY <2>1, <2>2, RowPlane
<1>8. CASE r.draw = "cold" /\ l = 1 /\ side = "write"
  <2> DEFINE live == LiveDigits(w)
  <2>1. live = LiveOf(r, l) /\ live \in 1 .. w
    <3> HIDE DEF w
    <3>1. Max({1, (w * r.support) \div 8}) \in 1 .. w
      BY <1>1, LiveDigitsIs
    <3> QED BY <3>1 DEF LiveDigits, LiveOf, w
  <2>2. plane = [at \in AtOf(r, side) |-> Normalised(0 .. live - 1, w)]
    BY <1>2, <1>5, <1>8 DEF Corner, Fixed
  <2> HIDE DEF live
  <2>3. 0 .. live - 1 \in SUBSET Digits(w) /\ 0 .. live - 1 # {}
    <3>1. 0 \in 0 .. live - 1
      BY <2>1
    <3>2. 0 .. live - 1 \subseteq 0 .. w - 1
      <4> HIDE DEF w
      <4> QED BY <1>1, <2>1
    <3> QED BY <3>1, <3>2 DEF Digits
  <2>4. ASSUME NEW at \in AtOf(r, side) PROVE RowFits(r, side, l, at[1], plane[at])
    <3>1. plane[at] \subseteq NaNRow(w) /\ Live(plane[at]) # {} /\ plane[at] = 0 .. live - 1
      <4> DEFINE row == 0 .. live - 1
      <4>1. row \in SUBSET Digits(w) /\ row # {} /\ plane[at] = Normalised(row, w)
        BY <2>2, <2>3
      <4> HIDE DEF w, row
      <4>2. plane[at] \subseteq NaNRow(w) /\ Live(plane[at]) # {} /\ plane[at] = row
        BY <1>1, <4>1, LiveRow
      <4> QED BY <4>2 DEF row
    <3> QED BY <1>3, <1>8, <2>1, <3>1 DEF RowFits
  <2> QED BY <2>2, <2>4, RowPlane
<1>9. CASE r.draw = "readonly" /\ side = "write"
  <2>1. {0} \in SUBSET Digits(w)
    BY <1>1 DEF Digits
  <2>2. plane = [at \in AtOf(r, side) |-> Normalised({0}, w)]
    BY <1>2, <1>9 DEF Corner, Fixed
  <2>3. ASSUME NEW at \in AtOf(r, side) PROVE RowFits(r, side, l, at[1], plane[at])
    <3>1. plane[at] \subseteq NaNRow(w) /\ Live(plane[at]) # {} /\ plane[at] = {0}
      <4> HIDE DEF w
      <4> QED BY <1>1, <2>1, <2>2, LiveRow
    <3> QED BY <1>3, <1>9, <3>1 DEF RowFits
  <2> QED BY <2>2, <2>3, RowPlane
<1>10. CASE r.draw = "flip" /\ l = 1 /\ side = "write"
  <2>1. plane = [at \in AtOf(r, side) |-> Normalised(Half(w, OddWindow(at[1])), w)]
    BY <1>2, <1>5, <1>10 DEF Corner
  <2>2. ASSUME NEW at \in AtOf(r, side) PROVE RowFits(r, side, l, at[1], plane[at])
    <3>1. /\ Half(w, OddWindow(at[1])) \in SUBSET Digits(w)
          /\ w >= 2 => plane[at] = Half(w, OddWindow(at[1]))
      <4>1. OddWindow(at[1]) \in BOOLEAN
        BY DEF OddWindow
      <4> HIDE DEF w
      <4> QED BY <1>1, <2>1, <4>1, HalfRow
    <3>2. plane[at] \subseteq NaNRow(w) /\ Live(plane[at]) # {}
      <4> HIDE DEF w
      <4> QED BY <1>1, <2>1, <3>1, LiveRow
    <3> QED BY <1>3, <1>10, <3>1, <3>2 DEF RowFits, Halves
  <2> QED BY <2>1, <2>2, RowPlane
<1>11. CASE /\ r.draw # "onehot" /\ ~(r.draw = "anti" /\ l = 1) /\ ~(r.draw = "cold" /\ l = 1 /\ side = "write")
            /\ ~(r.draw = "readonly" /\ side = "write") /\ ~(r.draw = "flip" /\ l = 1 /\ side = "write")
  <2>1. plane = [at \in AtOf(r, side) |-> Normalised(Digits(w), w)]
    <3>1. r.draw # "tied"
      OBVIOUS
    <3>2. plane \in Dense(r.heads, w)
      BY <1>5, <1>11, <3>1 DEF Corner
    <3> QED BY <1>2, <3>2 DEF Dense, Fixed
  <2>2. Digits(w) # {}
    <3> HIDE DEF w
    <3>1. 0 \in Digits(w)
      BY <1>1 DEF Digits
    <3> QED BY <3>1
  <2>3. ASSUME NEW at \in AtOf(r, side) PROVE RowFits(r, side, l, at[1], plane[at])
    <3>1. plane[at] \subseteq NaNRow(w) /\ Live(plane[at]) # {} /\ plane[at] = Digits(w)
      <4>1. Digits(w) \in SUBSET Digits(w)
        OBVIOUS
      <4> HIDE DEF w
      <4> QED BY <1>1, <2>1, <2>2, <2>3, <4>1, LiveRow
    <3> QED BY <1>3, <1>11, <3>1 DEF RowFits
  <2> QED BY <2>1, <2>3, RowPlane
<1> QED BY <1>6, <1>7, <1>8, <1>9, <1>10, <1>11

\* A call of a draw gives a plane that fits it, as long as a tied write repeats a read that does.
LEMMA DrawnPlaneFits ==
    ASSUME NEW r \in Records, declared = r, Accepted(r), NEW side \in {"read", "write"}, NEW l \in 1 .. Len(r.widths),
           ~CannotDraw(side, l - 1), NEW plane \in Planes(side, l - 1),
           r.draw = "tied" /\ side = "write" => PlaneFits(r, "read", l, read[l])
    PROVE  PlaneFits(r, side, l, plane)
<1>1. /\ r.widths[l] \in Nat \ {0} /\ r.support \in 0 .. 8 /\ r.k_tok \in Nat /\ r.draw \in Draws
      /\ r.draw \notin {"dense", "alt", "both", "cohort"} => r.heads * r.group = r.heads
  BY AcceptedRecord
<1>2. CountAt(side, l - 1) = CountOf(r, side, l) /\ l - 1 + 1 = l
  BY DEF CountAt, CountOf
<1>3. plane \in CASE r.draw \in Degenerate -> DegeneratePlane(side)
                  [] r.draw \in Alternating \cup FirstLevel \cup {"dense"} -> Sampled(side, l - 1, r.widths[l])
                  [] OTHER -> Corner(side, l - 1, r.widths[l])
  BY <1>2 DEF Planes
<1>4. LiveDigits(r.widths[l]) \in 1 .. r.widths[l] /\ (r.support = 8 => LiveDigits(r.widths[l]) = r.widths[l])
  BY <1>1, LiveDigitsIs DEF LiveDigits
<1>5. CASE r.draw \in Degenerate
  <2>1. AtOf(r, side) = At(r.heads)
    BY <1>1, <1>5 DEF AtOf, At, HeadsOf, Degenerate
  <2>2. plane = [at \in AtOf(r, side) |-> IF r.draw = "deposit" /\ side = "write" /\ at[1] = DepositToken THEN {0} ELSE {}]
    <3>1. plane \in DegeneratePlane(side)
      BY <1>3, <1>5 DEF Degenerate, Alternating, FirstLevel
    <3> QED BY <2>1, <3>1 DEF DegeneratePlane
  <2>3. ASSUME NEW at \in AtOf(r, side) PROVE RowFits(r, side, l, at[1], plane[at])
    <3>1. plane[at] \in {{}, {0}} /\ plane[at] \subseteq NaNRow(r.widths[l])
      BY <1>1, <2>2, <2>3 DEF NaNRow, Digits
    <3>2. CountOf(r, side, l) = 0
      BY <1>5 DEF CountOf, Degenerate, Alternating, FirstLevel
    <3> QED BY <1>5, <3>1, <3>2 DEF RowFits, Degenerate
  <2> QED BY <2>2, <2>3, RowPlane
<1>6. CASE r.draw \in Alternating \cup FirstLevel \cup {"dense"}
  <2>1. plane \in Sampled(side, l - 1, r.widths[l])
    BY <1>3, <1>6 DEF Alternating, FirstLevel, Degenerate
  <2>2. CountOf(r, side, l) \in Nat
    BY <1>1 DEF CountOf
  <2>3. CASE r.draw = "cohort" /\ CountOf(r, side, l) # 0 /\ CountOf(r, side, l) < r.widths[l]
    <3>1. plane \in Clustered(HeadsOf(r, side), r.widths[l], CountOf(r, side, l))
      BY <1>2, <2>1, <2>3 DEF Sampled, HeadsOf
    <3>2. CountOf(r, side, l) \in 1 .. r.widths[l] - 1
      BY <1>1, <2>2, <2>3
    <3>3. r.tokens % r.cohort = 0
      BY <1>2, <2>3, <3>2 DEF CannotDraw
    <3> QED BY <2>3, <3>1, <3>2, <3>3, ClusteredPlane
  <2>4. CASE ~(r.draw = "cohort" /\ CountOf(r, side, l) # 0 /\ CountOf(r, side, l) < r.widths[l])
    <3>1. plane \in Simplex(HeadsOf(r, side), r.widths[l], CountOf(r, side, l), LiveDigits(r.widths[l]))
      BY <1>2, <2>1, <2>4 DEF Sampled, HeadsOf
    <3>2. r.draw \notin {"anti", "cold", "readonly", "flip"}
      BY <1>6 DEF Alternating, FirstLevel
    <3> QED BY <1>4, <2>2, <3>1, <3>2, SimplexPlane
  <2> QED BY <2>3, <2>4
<1>7. CASE r.draw \in Cornered
  <2>1. plane \in Corner(side, l - 1, r.widths[l])
    BY <1>3, <1>7 DEF Cornered
  <2>2. CASE r.draw = "tied" /\ side = "read"
    <3>1. plane \in Simplex(HeadsOf(r, side), r.widths[l], r.k_tok, r.widths[l])
      BY <1>1, <2>1, <2>2 DEF Corner, HeadsOf
    <3>2. CountOf(r, side, l) = 0
      BY <2>2 DEF CountOf, Alternating, FirstLevel
    <3>3. r.widths[l] \in 1 .. r.widths[l]
      BY <1>1
    <3> QED BY <1>1, <2>2, <3>1, <3>2, <3>3, SimplexPlane
  <2>3. CASE r.draw = "tied" /\ side = "write"
    <3>1. plane = read[l]
      BY <1>2, <2>1, <2>3 DEF Corner
    <3>2. PlaneFits(r, "read", l, plane)
      BY <2>3, <3>1
    <3>3. AtOf(r, "read") = AtOf(r, side)
      BY <1>1, <2>3 DEF AtOf, HeadsOf
    <3>4. CountOf(r, side, l) = 0
      BY <2>3 DEF CountOf, Alternating, FirstLevel
    <3> QED BY <2>3, <3>2, <3>3, <3>4 DEF PlaneFits, RowFits
  <2>4. CASE r.draw # "tied"
    <3>1. r.draw \in Cornered \ {"tied"}
      BY <1>7, <2>4
    <3> QED BY <2>1, <3>1, CornerPlane
  <2> QED BY <2>2, <2>3, <2>4
<1> QED BY <1>1, <1>5, <1>6, <1>7 DEF Cornered

-----------------------------------------------------------------------------
(* The invariant.                                                          *)

DrawnOf(r, side, planes) ==
    /\ planes \in Seq([AtOf(r, side) -> SUBSET Int]) /\ Len(planes) <= Len(r.widths)
    /\ \A l \in 1 .. Len(planes) : PlaneFits(r, side, l, planes[l])

Drawing ==
    /\ declared \in Records /\ Accepted(declared)
    /\ DrawnOf(declared, "read", read) /\ DrawnOf(declared, "write", write)
    /\ write # <<>> => Len(read) = Len(declared.widths)

\* A cell a reader sees is whole, and its planes demonstrate its regime.
Proven ==
    /\ Len(read) = Len(declared.widths) /\ Len(write) = Len(declared.widths)
    /\ declared.regime # NoRegime =>
          \E coherence \in CoherenceBands, mass \in MassBands : \A axis \in DOMAIN declared.regime :
              Check(axis, declared.regime[axis], [coherence |-> coherence, mass |-> mass])

CellInv ==
    /\ stage \in {"none", "refused", "drawing", "raised", "unproven", "seen"}
    /\ stage \in {"none", "refused"} => declared = NoCell /\ read = <<>> /\ write = <<>>
    /\ stage \notin {"none", "refused"} => Drawing
    /\ stage = "seen" => Proven

LEMMA DrawnAppend ==
    ASSUME NEW r \in Records, Accepted(r), NEW side \in {"read", "write"}, NEW planes, DrawnOf(r, side, planes), Len(planes) < Len(r.widths),
           NEW plane, PlaneFits(r, side, Len(planes) + 1, plane)
    PROVE  DrawnOf(r, side, Append(planes, plane)) /\ Append(planes, plane) # <<>> /\ Len(Append(planes, plane)) = Len(planes) + 1
<1>1. planes \in Seq([AtOf(r, side) -> SUBSET Int]) /\ plane \in [AtOf(r, side) -> SUBSET Int]
  BY DEF DrawnOf, PlaneFits
<1> DEFINE Set == [AtOf(r, side) -> SUBSET Int]
           more == Append(planes, plane)
<1>2. /\ more \in Seq(Set) /\ Len(more) = Len(planes) + 1 /\ more # <<>>
      /\ \A l \in 1 .. Len(planes) : more[l] = planes[l]
      /\ more[Len(planes) + 1] = plane
  <2> HIDE DEF Set
  <2>1. planes \in Seq(Set) /\ plane \in Set
    BY <1>1 DEF Set
  <2> QED BY <2>1
<1>3. Len(r.widths) \in Nat /\ Len(planes) \in Nat
  BY <1>1, AcceptedRecord
<1>4. Len(more) <= Len(r.widths)
  BY <1>2, <1>3
<1>5. ASSUME NEW l \in 1 .. Len(more) PROVE PlaneFits(r, side, l, more[l])
  <2>1. l \in 1 .. Len(planes) \/ l = Len(planes) + 1
    BY <1>2, <1>3
  <2> QED BY <1>2, <2>1 DEF DrawnOf
<1> QED BY <1>2, <1>4, <1>5 DEF DrawnOf

LEMMA DrawPlaneInv ==
    ASSUME CellInv, DrawPlane
    PROVE  CellInv'
<1>1. stage = "drawing" /\ Drawing /\ declared \in Records /\ Accepted(declared) /\ declared' = declared
  BY DEF CellInv, DrawPlane, Drawing
<1>2. /\ Len(read) \in Nat /\ Len(write) \in Nat /\ Len(declared.widths) \in Nat
      /\ Len(read) <= Len(declared.widths) /\ Len(write) < Len(declared.widths)
      /\ read = <<>> \/ Len(read) # 0
  <2>1. Len(declared.widths) \in Nat
    BY <1>1, AcceptedRecord
  <2> QED BY <1>1, <2>1 DEF Drawing, DrawnOf, DrawPlane, D
<1>3. CASE stage' = "raised" /\ UNCHANGED <<read, write>>
  BY <1>1, <1>3 DEF CellInv, Drawing
<1>4. CASE /\ Len(read) < D /\ ~CannotDraw("read", Len(read)) /\ UNCHANGED <<stage, write>>
           /\ \E plane \in Planes("read", Len(read)) : read' = Append(read, plane)
  <2>1. PICK plane \in Planes("read", Len(read)) : read' = Append(read, plane)
    BY <1>4
  <2> DEFINE l == Len(read) + 1
  <2>2. l \in 1 .. Len(declared.widths) /\ l - 1 = Len(read)
    BY <1>2, <1>4 DEF D
  <2>3. PlaneFits(declared, "read", l, plane)
    <3> HIDE DEF l
    <3> QED BY <1>1, <1>4, <2>2, DrawnPlaneFits
  <2>4. DrawnOf(declared, "read", read') /\ write = <<>>
    <3>1. Len(read) < Len(declared.widths)
      BY <1>4 DEF D
    <3>2. DrawnOf(declared, "read", read)
      BY <1>1 DEF Drawing
    <3>3. write = <<>>
      BY <1>1, <1>2, <3>1 DEF Drawing
    <3> QED BY <1>1, <2>1, <2>3, <3>1, <3>2, <3>3, DrawnAppend
  <2> QED BY <1>1, <1>4, <2>4 DEF CellInv, Drawing
<1>5. CASE /\ ~(Len(read) < D) /\ ~CannotDraw("write", Len(write)) /\ UNCHANGED <<stage, read>>
           /\ \E plane \in Planes("write", Len(write)) : write' = Append(write, plane)
  <2>1. PICK plane \in Planes("write", Len(write)) : write' = Append(write, plane)
    BY <1>5
  <2> DEFINE l == Len(write) + 1
  <2>2. l \in 1 .. Len(declared.widths) /\ l - 1 = Len(write) /\ Len(read) = Len(declared.widths)
    BY <1>2, <1>5 DEF D
  <2>3. PlaneFits(declared, "read", l, read[l])
    BY <1>1, <2>2 DEF Drawing, DrawnOf
  <2>4. PlaneFits(declared, "write", l, plane)
    <3> HIDE DEF l
    <3> QED BY <1>1, <1>5, <2>2, <2>3, DrawnPlaneFits
  <2>5. DrawnOf(declared, "write", write')
    <3>1. DrawnOf(declared, "write", write)
      BY <1>1 DEF Drawing
    <3> QED BY <1>1, <1>2, <2>1, <2>4, <3>1, DrawnAppend
  <2> QED BY <1>1, <1>5, <2>2, <2>5 DEF CellInv, Drawing
<1> QED BY <1>1, <1>3, <1>4, <1>5 DEF DrawPlane

\* What a proof reads is the planes and the declaration.
LEMMA ProvenStays ==
    ASSUME UNCHANGED <<declared, read, write>>
    PROVE  Proven => Proven'
<1>1. /\ CoherenceBands' = CoherenceBands
      /\ MassBands' = MassBands
  <2>1. CoherenceBands' = CoherenceBands
    BY DEF CoherenceBands, HasNaN, NeverChanges, Rows, Levels, D
  <2>2. MassBands' = MassBands
    BY DEF MassBands, HasNaN, Rows, Levels, D
  <2> QED BY <2>1, <2>2
<1>2. ASSUME NEW axis, NEW value, NEW bands PROVE Check(axis, value, bands)' = Check(axis, value, bands)
  <2>1. HasZeros' = HasZeros /\ TokenOverlap' = TokenOverlap /\ ColdRead' = ColdRead /\ Tied' = Tied
    BY DEF HasZeros, Tied, TokenOverlap, ColdRead, HasNaN, Rows, Counts, Levels, D, WriteHead
  <2>2. CheckSupport(value)' = CheckSupport(value)
    BY DEF CheckSupport, Rows, Counts, Levels, D
  <2>3. CheckCorrelation(value)' = CheckCorrelation(value)
    BY <2>1 DEF CheckCorrelation
  <2> QED BY <2>1, <2>2, <2>3 DEF Check
<1> QED BY <1>1, <1>2 DEF Proven

LEMMA ProveInv ==
    ASSUME CellInv, Prove
    PROVE  CellInv'
<1>1. stage = "drawing" /\ Drawing /\ UNCHANGED <<declared, read, write>> /\ Len(write) = D
  BY DEF CellInv, Prove
<1>2. /\ stage' \in {"seen", "unproven"}
      /\ stage' = "seen" => Proven
  <2>1. Len(read) = Len(declared.widths) /\ Len(write) = Len(declared.widths)
    <3>1. Len(declared.widths) \in Nat \ {0}
      BY <1>1, AcceptedRecord DEF Drawing
    <3>2. write # <<>>
      BY <1>1, <3>1 DEF D
    <3> QED BY <1>1, <3>2 DEF Drawing, D
  <2> QED BY <2>1 DEF Prove, Proven
<1>3. Drawing'
  BY <1>1 DEF Drawing
<1>4. Proven => Proven'
  BY <1>1, ProvenStays
<1> QED BY <1>1, <1>2, <1>3, <1>4 DEF CellInv

LEMMA CellInvHolds == CellSpec => []CellInv
<1>1. CellInit => CellInv
  BY DEF CellInit, CellInv
<1>2. CellInv /\ [CellNext]_cellVars => CellInv'
  <2> SUFFICES ASSUME CellInv, [CellNext]_cellVars PROVE CellInv'
    OBVIOUS
  <2>1. ASSUME NEW r \in Records, DeclareCell(r) PROVE CellInv'
    <3>1. stage = "none" /\ declared = NoCell /\ read = <<>> /\ write = <<>> /\ UNCHANGED <<read, write>>
      BY <2>1 DEF DeclareCell, CellInv
    <3>2. CASE Accepted(r)
      <4>1. Len(r.widths) \in Nat
        BY <3>2, AcceptedRecord
      <4>2. \A side \in {"read", "write"} : DrawnOf(r, side, <<>>)
        BY <4>1 DEF DrawnOf
      <4> QED BY <2>1, <3>1, <3>2, <4>2 DEF DeclareCell, CellInv, Drawing
    <3>3. CASE ~Accepted(r)
      BY <2>1, <3>1, <3>3 DEF DeclareCell, CellInv
    <3> QED BY <3>2, <3>3
  <2>2. CASE UNCHANGED cellVars
    <3>1. UNCHANGED <<declared, read, write, stage>>
      BY <2>2 DEF cellVars
    <3>2. Drawing => Drawing'
      BY <3>1 DEF Drawing
    <3>3. Proven => Proven'
      BY <3>1, ProvenStays
    <3> QED BY <3>1, <3>2, <3>3 DEF CellInv
  <2> QED BY <2>1, <2>2, DrawPlaneInv, ProveInv DEF CellNext
<1> QED BY <1>1, <1>2, PTL DEF CellSpec

\* Whatever the registry holds, a cell is a record of it, drawn to its last level at most.
THEOREM CellTypeCorrect == CellSpec => []CellTypeOK
<1>1. CellInv => CellTypeOK
  <2> SUFFICES ASSUME CellInv PROVE CellTypeOK
    OBVIOUS
  <2>1. CASE stage \in {"none", "refused"}
    BY <2>1 DEF CellInv, CellTypeOK
  <2>2. CASE stage \notin {"none", "refused"}
    <3>1. declared \in Records /\ Accepted(declared) /\ Len(read) <= D /\ Len(write) <= D
      BY <2>2 DEF CellInv, Drawing, DrawnOf, D
    <3>2. declared # NoCell
      BY <3>1, AcceptedRecord DEF NoCell, Draws, Degenerate, Counted, Alternating, FirstLevel
    <3> QED BY <3>1, <3>2 DEF CellInv, CellTypeOK
  <2> QED BY <2>1, <2>2
<1> QED BY <1>1, CellInvHolds, PTL

-----------------------------------------------------------------------------
(* Leaves: the products of live rows.                                      *)

\* A side drawn to its last level.
Whole(r, side, planes) == r \in Records /\ Accepted(r) /\ DrawnOf(r, side, planes) /\ Len(planes) = Len(r.widths)

LEMMA WholeRow ==
    ASSUME NEW r, NEW side \in {"read", "write"}, NEW planes, Whole(r, side, planes),
           NEW l \in 1 .. Len(r.widths), NEW at \in AtOf(r, side)
    PROVE  /\ RowFits(r, side, l, at[1], planes[l][at])
           /\ DOMAIN planes[l] = AtOf(r, side)
           /\ r.widths[l] \in Nat \ {0}
           /\ Live(planes[l][at]) \subseteq Digits(r.widths[l])
           /\ r.draw \notin Degenerate => Live(planes[l][at]) # {}
<1>1. r \in Records /\ Accepted(r) /\ PlaneFits(r, side, l, planes[l])
  BY DEF Whole, DrawnOf
<1>2. r.widths[l] \in Nat \ {0}
  BY <1>1, AcceptedRecord
<1>3. RowFits(r, side, l, at[1], planes[l][at]) /\ DOMAIN planes[l] = AtOf(r, side)
  BY <1>1 DEF PlaneFits
<1> QED BY <1>2, <1>3 DEF RowFits, Live, NaNRow

LEMMA LeafOf ==
    ASSUME NEW side \in {"read", "write"}, NEW planes, Whole(declared, side, planes), NEW at \in AtOf(declared, side), NEW leaf
    PROVE  leaf \in Leaves(planes, at) <=>
              leaf = [l \in Levels |-> leaf[l]] /\ \A l \in Levels : leaf[l] \in Live(planes[l][at])
<1>1. \A l \in Levels : Live(planes[l][at]) \subseteq Digits(declared.widths[l])
  BY WholeRow DEF Levels, D
<1> QED BY <1>1 DEF Leaves

LEMMA LeafThrough ==
    ASSUME NEW side \in {"read", "write"}, NEW planes, Whole(declared, side, planes), NEW at \in AtOf(declared, side),
           declared.draw \notin Degenerate, NEW level \in Levels, NEW digit \in Live(planes[level][at])
    PROVE  \E leaf \in Leaves(planes, at) : leaf[level] = digit
<1> DEFINE leaf == [l \in Levels |-> IF l = level THEN digit ELSE CHOOSE x \in Live(planes[l][at]) : TRUE]
<1>1. \A l \in Levels : Live(planes[l][at]) # {}
  BY WholeRow DEF Levels, D
<1>2. \A l \in Levels : leaf[l] \in Live(planes[l][at])
  BY <1>1
<1>3. leaf = [l \in Levels |-> leaf[l]] /\ leaf[level] = digit
  OBVIOUS
<1> HIDE DEF leaf
<1>4. leaf \in Leaves(planes, at)
  BY <1>2, <1>3, LeafOf
<1> QED BY <1>3, <1>4

LEMMA WrittenLeaf ==
    ASSUME NEW leaf
    PROVE  leaf \in Written <=> \E t \in Tokens : \E h \in WriteHeads : leaf \in Leaves(write, <<t, h>>)
<1> DEFINE Sets == {Leaves(write, <<t, h>>) : t \in Tokens, h \in WriteHeads}
<1>1. \A set : set \in Sets <=> \E t \in Tokens : \E h \in WriteHeads : set = Leaves(write, <<t, h>>)
  OBVIOUS
<1>2. Written = UNION Sets
  BY DEF Written
<1> HIDE DEF Sets
<1>3. leaf \in UNION Sets <=> \E set \in Sets : leaf \in set
  OBVIOUS
<1>4. ASSUME NEW t \in Tokens, NEW h \in WriteHeads, leaf \in Leaves(write, <<t, h>>) PROVE \E set \in Sets : leaf \in set
  <2>1. Leaves(write, <<t, h>>) \in Sets
    BY <1>1
  <2> QED BY <1>4, <2>1
<1>5. ASSUME NEW set \in Sets, leaf \in set PROVE \E t \in Tokens : \E h \in WriteHeads : leaf \in Leaves(write, <<t, h>>)
  BY <1>1, <1>5
<1> QED BY <1>2, <1>3, <1>4, <1>5

LEMMA ReadLeaf ==
    ASSUME NEW leaf
    PROVE  leaf \in ReadLeaves <=> \E h \in WriteHeads : \E t \in Tokens : \E q \in Queries(h) : leaf \in Leaves(read, <<t, q>>)
<1> DEFINE Sets(h) == {Leaves(read, <<t, q>>) : t \in Tokens, q \in Queries(h)}
           OfHead(h) == UNION Sets(h)
           Heads == {OfHead(h) : h \in WriteHeads}
<1>1. \A h, set : set \in Sets(h) <=> \E t \in Tokens : \E q \in Queries(h) : set = Leaves(read, <<t, q>>)
  OBVIOUS
<1>2. \A h : leaf \in OfHead(h) <=> \E t \in Tokens : \E q \in Queries(h) : leaf \in Leaves(read, <<t, q>>)
  <2> HIDE DEF Sets
  <2> SUFFICES ASSUME NEW h PROVE leaf \in OfHead(h) <=> \E t \in Tokens : \E q \in Queries(h) : leaf \in Leaves(read, <<t, q>>)
    OBVIOUS
  <2>1. leaf \in OfHead(h) <=> \E set \in Sets(h) : leaf \in set
    OBVIOUS
  <2>2. ASSUME NEW t \in Tokens, NEW q \in Queries(h), leaf \in Leaves(read, <<t, q>>) PROVE \E set \in Sets(h) : leaf \in set
    <3>1. Leaves(read, <<t, q>>) \in Sets(h)
      BY <1>1
    <3> QED BY <2>2, <3>1
  <2>3. ASSUME NEW set \in Sets(h), leaf \in set PROVE \E t \in Tokens : \E q \in Queries(h) : leaf \in Leaves(read, <<t, q>>)
    BY <1>1, <2>3
  <2> QED BY <2>1, <2>2, <2>3
<1>3. ReadLeaves = UNION Heads
  BY DEF ReadLeaves
<1> HIDE DEF OfHead
<1>4. leaf \in UNION Heads <=> \E h \in WriteHeads : leaf \in OfHead(h)
  OBVIOUS
<1> QED BY <1>2, <1>3, <1>4

LEMMA LevelsOf ==
    ASSUME declared \in Records, Accepted(declared)
    PROVE  Levels = 1 .. Len(declared.widths) /\ 1 \in Levels
<1>1. Len(declared.widths) \in Nat \ {0}
  BY AcceptedRecord
<1> QED BY <1>1 DEF Levels, D

LEMMA DivIs ==
    ASSUME NEW w \in Nat \ {0}, NEW x \in Int, NEW d \in Int, w * d <= x, x < w * d + w
    PROVE  x \div w = d
<1> DEFINE e == x \div w
<1>1. e \in Int /\ w * e <= x /\ x < w * e + w
  OBVIOUS
<1> HIDE DEF e
<1>2. ASSUME NEW i \in Int, NEW j \in Int, i < j PROVE w * i + w <= w * j
  <2>1. w * (i + 1) <= w * j
    BY <1>2
  <2>2. w * (i + 1) = w * i + w
    OBVIOUS
  <2> QED BY <2>1, <2>2
<1>3. w * e \in Int /\ w * d \in Int
  BY <1>1
<1>4. ~(e < d)
  <2> SUFFICES ASSUME e < d PROVE FALSE
    OBVIOUS
  <2>1. w * e + w <= w * d
    BY <1>1, <1>2
  <2> QED BY <1>1, <1>3, <2>1
<1>5. ~(d < e)
  <2> SUFFICES ASSUME d < e PROVE FALSE
    OBVIOUS
  <2>1. w * d + w <= w * e
    BY <1>1, <1>2
  <2> QED BY <1>1, <1>3, <2>1
<1> QED BY <1>1, <1>4, <1>5 DEF e

\* Each write head's queries are consecutive, and every query has one write head.
LEMMA QueryHeads ==
    ASSUME NEW heads \in Nat \ {0}, NEW group \in Nat \ {0}, NEW q \in Int
    PROVE  /\ q \in 0 .. heads * group - 1 =>
                 q \div group \in 0 .. heads - 1 /\ q \in (q \div group) * group .. (q \div group) * group + group - 1
           /\ \A h \in 0 .. heads - 1 :
                 q \in h * group .. h * group + group - 1 => q \div group = h /\ q \in 0 .. heads * group - 1
<1> DEFINE d == q \div group
<1>1. d \in Int /\ group * d <= q /\ q < group * d + group
  OBVIOUS
<1>2. ASSUME NEW h \in 0 .. heads - 1, q \in h * group .. h * group + group - 1
      PROVE  q \div group = h /\ q \in 0 .. heads * group - 1
  <2>1. h * group = group * h /\ group * h \in Int /\ group * h >= 0 /\ heads * group = group * heads
    OBVIOUS
  <2>2. group * h <= q /\ q < group * h + group
    BY <1>2, <2>1
  <2>3. q \div group = h
    BY <2>2, DivIs
  <2>4. group * h + group <= group * heads
    <3>1. group * (h + 1) <= group * heads
      OBVIOUS
    <3>2. group * (h + 1) = group * h + group
      OBVIOUS
    <3> QED BY <3>1, <3>2
  <2> QED BY <2>1, <2>2, <2>3, <2>4
<1>3. ASSUME q \in 0 .. heads * group - 1
      PROVE  d \in 0 .. heads - 1 /\ q \in d * group .. d * group + group - 1
  <2> HIDE DEF d
  <2>1. heads * group = group * heads /\ d * group = group * d /\ group * d \in Int
    BY <1>1
  <2>2. ~(d < 0)
    <3> SUFFICES ASSUME d + 1 <= 0 PROVE FALSE
      BY <1>1
    <3>1. group * (d + 1) <= group * 0 /\ group * (d + 1) = group * d + group
      BY <1>1
    <3> QED BY <1>1, <1>3, <2>1, <3>1
  <2>3. ~(heads <= d)
    <3> SUFFICES ASSUME heads <= d PROVE FALSE
      OBVIOUS
    <3>1. group * heads <= group * d
      BY <1>1
    <3> QED BY <1>1, <1>3, <2>1, <3>1
  <2> QED BY <1>1, <1>3, <2>1, <2>2, <2>3
<1> QED BY <1>2, <1>3 DEF d

LEMMA PlacesOf ==
    ASSUME declared \in Records, Accepted(declared)
    PROVE  /\ \A t \in Tokens, h \in WriteHeads : <<t, h>> \in AtOf(declared, "write")
           /\ \A t \in Tokens, h \in WriteHeads : \A q \in Queries(h) :
                 <<t, q>> \in AtOf(declared, "read") /\ WriteHead(q) = h /\ q \in 0 .. declared.heads * declared.group - 1
           /\ \A at \in AtOf(declared, "read") :
                 /\ at[1] \in Tokens /\ WriteHead(at[2]) \in WriteHeads /\ at[2] \in Queries(WriteHead(at[2]))
                 /\ at = <<at[1], at[2]>>
           /\ \A at \in AtOf(declared, "write") : at[1] \in Tokens /\ at[2] \in WriteHeads /\ at = <<at[1], at[2]>>
           /\ 0 \in Tokens /\ 0 \in WriteHeads
<1>1. declared.heads \in Nat \ {0} /\ declared.group \in Nat \ {0} /\ declared.tokens \in Nat \ {0}
  BY AcceptedRecord
<1>2. \A t \in Tokens, h \in WriteHeads : <<t, h>> \in AtOf(declared, "write")
  BY DEF Tokens, WriteHeads, AtOf, HeadsOf
<1>3. \A at \in AtOf(declared, "write") : at[1] \in Tokens /\ at[2] \in WriteHeads /\ at = <<at[1], at[2]>>
  BY DEF Tokens, WriteHeads, AtOf, HeadsOf
<1>4. ASSUME NEW h \in WriteHeads, NEW q \in Queries(h)
      PROVE  WriteHead(q) = h /\ q \in 0 .. declared.heads * declared.group - 1
  <2>1. h \in 0 .. declared.heads - 1 /\ q \in h * declared.group .. h * declared.group + declared.group - 1 /\ q \in Int
    BY <1>1 DEF WriteHeads, Queries
  <2> QED BY <1>1, <2>1, QueryHeads DEF WriteHead
<1>5. \A t \in Tokens, h \in WriteHeads : \A q \in Queries(h) : <<t, q>> \in AtOf(declared, "read")
  BY <1>4 DEF Tokens, AtOf, HeadsOf
<1>6. ASSUME NEW at \in AtOf(declared, "read")
      PROVE  /\ at[1] \in Tokens /\ WriteHead(at[2]) \in WriteHeads /\ at[2] \in Queries(WriteHead(at[2]))
             /\ at = <<at[1], at[2]>>
  <2>1. at[1] \in Tokens /\ at[2] \in 0 .. declared.heads * declared.group - 1 /\ at = <<at[1], at[2]>>
    BY DEF AtOf, HeadsOf, Tokens
  <2>2. at[2] \in Int
    BY <2>1
  <2>3. /\ at[2] \div declared.group \in 0 .. declared.heads - 1
        /\ at[2] \in (at[2] \div declared.group) * declared.group ..
                     (at[2] \div declared.group) * declared.group + declared.group - 1
    BY <1>1, <2>1, <2>2, QueryHeads
  <2> QED BY <2>1, <2>3 DEF WriteHead, WriteHeads, Queries
<1>7. 0 \in Tokens /\ 0 \in WriteHeads
  BY <1>1 DEF Tokens, WriteHeads
<1> QED BY <1>2, <1>3, <1>4, <1>5, <1>6, <1>7

-----------------------------------------------------------------------------
(* The regime at the leaves.                                               *)

LEMMA SeenIsWhole ==
    ASSUME CellInv, stage = "seen"
    PROVE  /\ declared \in Records /\ Accepted(declared)
           /\ Whole(declared, "read", read) /\ Whole(declared, "write", write)
           /\ DOMAIN read[1] = AtOf(declared, "read") /\ DOMAIN write[1] = AtOf(declared, "write")
           /\ declared.regime # NoRegime => declared.draw \notin Degenerate
<1>1. Drawing /\ Proven
  BY DEF CellInv
<1>2. /\ declared \in Records /\ Accepted(declared)
      /\ Whole(declared, "read", read) /\ Whole(declared, "write", write)
  BY <1>1 DEF Drawing, Proven, Whole
<1>3. Len(read) \in Nat \ {0} /\ Len(write) \in Nat \ {0} /\ 1 \in 1 .. Len(read) /\ 1 \in 1 .. Len(write)
  <2>1. Len(declared.widths) \in Nat \ {0}
    BY <1>2, AcceptedRecord
  <2> QED BY <1>2, <2>1 DEF Whole
<1>4. DOMAIN read[1] = AtOf(declared, "read") /\ DOMAIN write[1] = AtOf(declared, "write")
  BY <1>2, <1>3 DEF Whole, DrawnOf, PlaneFits
<1>5. declared.regime # NoRegime => declared.draw \notin Degenerate
  BY <1>2, AcceptedRecord
<1> QED BY <1>2, <1>4, <1>5

LEMMA SeenIsProven ==
    ASSUME CellInv, stage = "seen", declared.regime # NoRegime
    PROVE  /\ CheckCorrelation(declared.regime.rw_correlation) /\ CheckSupport(declared.regime.support)
           /\ declared.regime.mass = "cold_read" => ColdRead
           /\ declared.regime.mass # "cold_read" => declared.regime.mass \in MassBands
           /\ declared.regime.mass \in {"spread", "concentrated", "cold_read"}
<1>1. Proven /\ Accepted(declared)
  BY DEF CellInv, Drawing
<1>2. /\ DOMAIN declared.regime = {"density", "coherence", "rw_correlation", "mass", "tail", "support"}
      /\ declared.regime.mass \in {"spread", "concentrated", "cold_read"}
  <2>1. /\ DOMAIN declared.regime = DOMAIN RegimeAxes
        /\ \A axis \in DOMAIN declared.regime : declared.regime[axis] \in RegimeAxes[axis]
    BY <1>1 DEF Accepted
  <2> QED BY <2>1 DEF RegimeAxes
<1>3. PICK coherence \in CoherenceBands, mass \in MassBands : \A axis \in DOMAIN declared.regime :
          Check(axis, declared.regime[axis], [coherence |-> coherence, mass |-> mass])
  BY <1>1 DEF Proven
<1>4. CheckCorrelation(declared.regime.rw_correlation)
  BY <1>2, <1>3 DEF Check
<1>5. CheckSupport(declared.regime.support)
  BY <1>2, <1>3 DEF Check
<1>6. IF declared.regime.mass = "cold_read" THEN ColdRead ELSE mass = declared.regime.mass
  BY <1>2, <1>3 DEF Check
<1> QED BY <1>2, <1>3, <1>4, <1>5, <1>6

LEMMA MeetingLeaf ==
    ASSUME CellInv, stage = "seen"
    PROVE  TokenOverlap <=> SomeLeafIsReadAsWritten
<1>1. /\ declared \in Records /\ Accepted(declared)
      /\ Whole(declared, "read", read) /\ Whole(declared, "write", write)
  BY SeenIsWhole
<1>2. ASSUME TokenOverlap PROVE SomeLeafIsReadAsWritten
  <2>1. PICK t \in 0 .. declared.tokens - 1, q \in 0 .. declared.heads * declared.group - 1 :
            \A l \in Levels : Live(read[l][<<t, q>>]) \cap Live(write[l][<<t, WriteHead(q)>>]) # {}
    BY <1>2 DEF TokenOverlap
  <2> DEFINE h == WriteHead(q)
             leaf == [l \in Levels |-> CHOOSE x \in Live(read[l][<<t, q>>]) \cap Live(write[l][<<t, h>>]) : TRUE]
  <2>2. <<t, q>> \in AtOf(declared, "read")
    BY DEF AtOf, HeadsOf
  <2>3. t \in Tokens /\ h \in WriteHeads /\ q \in Queries(h) /\ <<t, h>> \in AtOf(declared, "write")
    BY <1>1, <2>2, PlacesOf
  <2>4. \A l \in Levels : leaf[l] \in Live(read[l][<<t, q>>]) \cap Live(write[l][<<t, h>>])
    BY <2>1
  <2>5. leaf = [l \in Levels |-> leaf[l]]
    OBVIOUS
  <2> HIDE DEF leaf, h
  <2>6. leaf \in Leaves(read, <<t, q>>)
    BY <1>1, <2>2, <2>4, <2>5, LeafOf
  <2>7. leaf \in Leaves(write, <<t, h>>)
    BY <1>1, <2>3, <2>4, <2>5, LeafOf
  <2> QED BY <2>3, <2>6, <2>7 DEF SomeLeafIsReadAsWritten
<1>3. ASSUME SomeLeafIsReadAsWritten PROVE TokenOverlap
  <2>1. PICK t \in Tokens, h \in WriteHeads : \E q \in Queries(h) : Leaves(read, <<t, q>>) \cap Leaves(write, <<t, h>>) # {}
    BY <1>3 DEF SomeLeafIsReadAsWritten
  <2>2. PICK q \in Queries(h) : Leaves(read, <<t, q>>) \cap Leaves(write, <<t, h>>) # {}
    BY <2>1
  <2>3. PICK leaf : leaf \in Leaves(read, <<t, q>>) /\ leaf \in Leaves(write, <<t, h>>)
    BY <2>2
  <2>4. /\ <<t, q>> \in AtOf(declared, "read") /\ <<t, h>> \in AtOf(declared, "write")
        /\ WriteHead(q) = h /\ q \in 0 .. declared.heads * declared.group - 1
    BY <1>1, PlacesOf
  <2>5. \A l \in Levels : leaf[l] \in Live(read[l][<<t, q>>]) /\ leaf[l] \in Live(write[l][<<t, h>>])
    BY <1>1, <2>3, <2>4, LeafOf
  <2> QED BY <2>4, <2>5 DEF TokenOverlap, Tokens
<1> QED BY <1>2, <1>3

LEMMA ColdDigit ==
    ASSUME CellInv, stage = "seen", ColdRead
    PROVE  \E level \in Levels : \E at \in AtOf(declared, "read") : \E digit \in Live(read[level][at]) :
              \A place \in AtOf(declared, "write") : digit \notin Live(write[level][place])
<1>1. /\ declared \in Records /\ Accepted(declared)
      /\ Whole(declared, "read", read) /\ Whole(declared, "write", write)
  BY SeenIsWhole
<1>2. PICK level \in Levels :
          (UNION {Live(read[level][at]) : at \in DOMAIN read[level]})
              \ (UNION {Live(write[level][at]) : at \in DOMAIN write[level]}) # {}
  BY DEF ColdRead
<1>3. level \in 1 .. Len(declared.widths)
  BY <1>1, LevelsOf
<1>4. DOMAIN read[level] = AtOf(declared, "read") /\ DOMAIN write[level] = AtOf(declared, "write")
  BY <1>1, <1>3 DEF Whole, DrawnOf, PlaneFits
<1>5. \E at \in AtOf(declared, "read") : \E digit \in Live(read[level][at]) :
          \A place \in AtOf(declared, "write") : digit \notin Live(write[level][place])
  <2> DEFINE Reads == {Live(read[level][at]) : at \in AtOf(declared, "read")}
             Writes == {Live(write[level][at]) : at \in AtOf(declared, "write")}
  <2>1. (UNION Reads) \ (UNION Writes) # {}
    BY <1>2, <1>4
  <2>2. /\ \A set \in Reads : \E at \in AtOf(declared, "read") : set = Live(read[level][at])
        /\ \A place \in AtOf(declared, "write") : Live(write[level][place]) \in Writes
    OBVIOUS
  <2> HIDE DEF Reads, Writes
  <2>3. PICK digit : digit \in UNION Reads /\ digit \notin UNION Writes
    BY <2>1
  <2>4. PICK set \in Reads : digit \in set
    BY <2>3
  <2>5. \A other \in Writes : digit \notin other
    BY <2>3
  <2> QED BY <2>2, <2>4, <2>5
<1> QED BY <1>5

\* A digit read cold puts every leaf through it among the leaves no token writes.
LEMMA ColdLeaf ==
    ASSUME CellInv, stage = "seen", declared.draw \notin Degenerate, ColdRead
    PROVE  ReadLeaves \ Written # {}
<1>1. /\ declared \in Records /\ Accepted(declared)
      /\ Whole(declared, "read", read) /\ Whole(declared, "write", write)
  BY SeenIsWhole
<1>2. PICK level \in Levels : \E at \in AtOf(declared, "read") : \E digit \in Live(read[level][at]) :
              \A place \in AtOf(declared, "write") : digit \notin Live(write[level][place])
  BY ColdDigit
<1>3. PICK at \in AtOf(declared, "read") : \E digit \in Live(read[level][at]) :
          \A place \in AtOf(declared, "write") : digit \notin Live(write[level][place])
  BY <1>2
<1>5. PICK digit \in Live(read[level][at]) : \A place \in AtOf(declared, "write") : digit \notin Live(write[level][place])
  BY <1>3
<1>6. PICK leaf \in Leaves(read, at) : leaf[level] = digit
  BY <1>1, <1>5, LeafThrough
<1>7. leaf \in ReadLeaves
  BY <1>1, <1>6, PlacesOf DEF ReadLeaves
<1>8. leaf \notin Written
  <2> SUFFICES ASSUME leaf \in Written PROVE FALSE
    OBVIOUS
  <2> PICK t \in Tokens : \E h \in WriteHeads : leaf \in Leaves(write, <<t, h>>)
    BY WrittenLeaf
  <2> PICK h \in WriteHeads : leaf \in Leaves(write, <<t, h>>)
    OBVIOUS
  <2>1. <<t, h>> \in AtOf(declared, "write")
    BY <1>1, PlacesOf
  <2>2. leaf[level] \in Live(write[level][<<t, h>>])
    BY <1>1, <2>1, LeafOf
  <2> QED BY <1>5, <1>6, <2>1, <2>2
<1> QED BY <1>7, <1>8

\* One live digit at every level is one leaf.
LEMMA OneLeaf ==
    ASSUME NEW side \in {"read", "write"}, NEW planes, Whole(declared, side, planes), NEW at \in AtOf(declared, side),
           \A l \in Levels : Cardinality(Live(planes[l][at])) = 1
    PROVE  Cardinality(Leaves(planes, at)) = 1
<1>1. declared \in Records /\ Accepted(declared)
  BY DEF Whole
<1>2. ASSUME NEW l \in Levels PROVE \E x : Live(planes[l][at]) = {x}
  <2>1. Live(planes[l][at]) \subseteq Digits(declared.widths[l]) /\ declared.widths[l] \in Nat \ {0}
    BY <1>1, WholeRow, LevelsOf
  <2>2. IsFiniteSet(Live(planes[l][at]))
    BY <2>1, DigitsFinite, FS_Subset
  <2> QED BY <1>2, <2>2, FS_Singleton
<1> DEFINE leaf == [l \in Levels |-> CHOOSE x : Live(planes[l][at]) = {x}]
<1>3. \A l \in Levels : leaf[l] \in Live(planes[l][at]) /\ \A x \in Live(planes[l][at]) : x = leaf[l]
  BY <1>2
<1>4. leaf = [l \in Levels |-> leaf[l]]
  OBVIOUS
<1> HIDE DEF leaf
<1>5. leaf \in Leaves(planes, at)
  BY <1>3, <1>4, LeafOf
<1>6. ASSUME NEW other \in Leaves(planes, at) PROVE other = leaf
  <2>1. other = [l \in Levels |-> other[l]] /\ \A l \in Levels : other[l] \in Live(planes[l][at])
    BY LeafOf
  <2>2. \A l \in Levels : other[l] = leaf[l]
    BY <1>3, <2>1
  <2> QED BY <1>4, <2>1, <2>2
<1>7. Leaves(planes, at) = {leaf}
  BY <1>5, <1>6
<1> QED BY <1>7, FS_Singleton

\* Rows with as many live digits as they have digits are all of the level.
LEMMA FullRows ==
    ASSUME NEW side \in {"read", "write"}, NEW planes, Whole(declared, side, planes), NEW at \in AtOf(declared, side),
           NEW l \in Levels
    PROVE  (\A n \in Counts(planes) : n[1] = n[2]) => Live(planes[l][at]) = Digits(declared.widths[l])
<1>1. declared \in Records /\ Accepted(declared) /\ l \in 1 .. Len(declared.widths)
  BY LevelsOf DEF Whole
<1>2. /\ Live(planes[l][at]) \subseteq Digits(declared.widths[l]) /\ declared.widths[l] \in Nat \ {0}
      /\ DOMAIN planes[l] = AtOf(declared, side)
  <2>1. /\ Live(planes[l][at]) \subseteq Digits(declared.widths[l])
        /\ DOMAIN planes[l] = AtOf(declared, side)
    <3>1. Live(planes[l][at]) \subseteq Digits(declared.widths[l])
      BY <1>1, WholeRow
    <3>2. DOMAIN planes[l] = AtOf(declared, side)
      BY <1>1 DEF Whole, DrawnOf, PlaneFits
    <3> QED BY <3>1, <3>2
  <2>2. declared.widths[l] \in Nat \ {0}
    BY <1>1, AcceptedRecord
  <2> QED BY <2>1, <2>2
<1>3. <<l, planes[l][at]>> \in Rows(planes)
  BY <1>2 DEF Rows
<1>4. <<Cardinality(Live(planes[l][at])), declared.widths[l]>> \in Counts(planes)
  BY <1>3 DEF Counts
<1> SUFFICES ASSUME \A n \in Counts(planes) : n[1] = n[2] PROVE Live(planes[l][at]) = Digits(declared.widths[l])
  OBVIOUS
<1>5. Cardinality(Live(planes[l][at])) = declared.widths[l]
  BY <1>4
<1>6. IsFiniteSet(Digits(declared.widths[l])) /\ Cardinality(Digits(declared.widths[l])) = declared.widths[l]
  BY <1>2, DigitsFinite
<1> QED BY <1>2, <1>5, <1>6, FS_Subset

LEMMA SeenRegime ==
    ASSUME CellInv, stage = "seen", declared.regime # NoRegime
    PROVE  RegimeHoldsAtTheLeaves
<1>1. /\ declared \in Records /\ Accepted(declared)
      /\ Whole(declared, "read", read) /\ Whole(declared, "write", write)
      /\ DOMAIN read[1] = AtOf(declared, "read") /\ DOMAIN write[1] = AtOf(declared, "write")
      /\ declared.draw \notin Degenerate
  BY SeenIsWhole
<1>2. /\ CheckCorrelation(declared.regime.rw_correlation) /\ CheckSupport(declared.regime.support)
      /\ declared.regime.mass = "cold_read" => ColdRead
  BY SeenIsProven
<1>3. declared.regime.rw_correlation = "tied" => \A at \in DOMAIN read[1] : Leaves(read, at) = Leaves(write, at)
  BY <1>2 DEF CheckCorrelation, Tied
<1>4. declared.regime.rw_correlation = "independent" => SomeLeafIsReadAsWritten
  BY <1>2, MeetingLeaf DEF CheckCorrelation
<1>5. declared.regime.rw_correlation = "anti" => ~SomeLeafIsReadAsWritten
  BY <1>2, MeetingLeaf DEF CheckCorrelation
<1>6. declared.regime.mass = "cold_read" => ReadLeaves \ Written # {}
  BY <1>1, <1>2, ColdLeaf
<1>7. ASSUME declared.regime.support = "singleton" PROVE OneLeafEach(read) \/ OneLeafEach(write)
  <2>1. ASSUME NEW side \in {"read", "write"}, NEW planes, Whole(declared, side, planes), \A n \in Counts(planes) : n[1] = 1
        PROVE  OneLeafEach(planes)
    <3>1. DOMAIN planes[1] = AtOf(declared, side)
      <4>1. 1 \in 1 .. Len(declared.widths)
        BY <1>1, LevelsOf
      <4> QED BY <2>1, <4>1 DEF Whole, DrawnOf, PlaneFits
    <3>2. ASSUME NEW at \in AtOf(declared, side), NEW l \in Levels PROVE Cardinality(Live(planes[l][at])) = 1
      <4>1. l \in 1 .. Len(declared.widths)
        BY <1>1, LevelsOf
      <4>2. DOMAIN planes[l] = AtOf(declared, side)
        BY <2>1, <4>1 DEF Whole, DrawnOf, PlaneFits
      <4>3. <<l, planes[l][at]>> \in Rows(planes)
        BY <4>2 DEF Rows
      <4>4. <<Cardinality(Live(planes[l][at])), declared.widths[l]>> \in Counts(planes)
        BY <4>3 DEF Counts
      <4> QED BY <2>1, <4>4
    <3> QED BY <2>1, <3>1, <3>2, OneLeaf DEF OneLeafEach
  <2>2. \E side \in {read, write} : \A n \in Counts(side) : n[1] = 1
    BY <1>2, <1>7 DEF CheckSupport
  <2>3. CASE \A n \in Counts(read) : n[1] = 1
    BY <1>1, <2>1, <2>3
  <2>4. CASE \A n \in Counts(write) : n[1] = 1
    BY <1>1, <2>1, <2>4
  <2> QED BY <2>2, <2>3, <2>4
<1>8. ASSUME declared.regime.support = "full", NEW t \in Tokens, NEW u \in Tokens, NEW h \in WriteHeads, NEW q \in Queries(h)
      PROVE  Leaves(read, <<t, q>>) = Leaves(write, <<u, h>>)
  <2>1. \A n \in Counts(read) \cup Counts(write) : n[1] = n[2]
    BY <1>2, <1>8 DEF CheckSupport
  <2>2. <<t, q>> \in AtOf(declared, "read") /\ <<u, h>> \in AtOf(declared, "write")
    BY <1>1, PlacesOf
  <2>3. \A l \in Levels : Live(read[l][<<t, q>>]) = Digits(declared.widths[l])
    BY <1>1, <2>1, <2>2, FullRows
  <2>4. \A l \in Levels : Live(write[l][<<u, h>>]) = Digits(declared.widths[l])
    BY <1>1, <2>1, <2>2, FullRows
  <2> QED BY <2>3, <2>4 DEF Leaves
<1> QED BY <1>3, <1>4, <1>5, <1>6, <1>7, <1>8 DEF RegimeHoldsAtTheLeaves

\* Whatever the registry holds and however it is drawn, the regime of a cell a reader
\* sees is so of its leaves, though prove reads level by level: tied sides write what
\* they read, independent ones meet at a leaf and opposed ones at none, by the query
\* heads of each write head; a cold digit is a cold leaf; a singleton is one leaf.
THEOREM RegimesHoldAtTheLeaves == CellSpec => []RegimeHoldsAtTheLeaves
<1>1. CellInv => RegimeHoldsAtTheLeaves
  BY SeenRegime DEF RegimeHoldsAtTheLeaves
<1> QED BY <1>1, CellInvHolds, PTL

-----------------------------------------------------------------------------
(* Where a draw sits.                                                      *)

LEMMA SeenRow ==
    ASSUME CellInv, stage = "seen"
    PROVE  /\ \A l \in Levels, at \in AtOf(declared, "read") : RowFits(declared, "read", l, at[1], read[l][at])
           /\ \A l \in Levels, at \in AtOf(declared, "write") : RowFits(declared, "write", l, at[1], write[l][at])
           /\ \A l \in Levels : DOMAIN read[l] = AtOf(declared, "read") /\ DOMAIN write[l] = AtOf(declared, "write")
           /\ \A l \in Levels : declared.widths[l] \in Nat \ {0}
<1>1. /\ declared \in Records /\ Accepted(declared)
      /\ Whole(declared, "read", read) /\ Whole(declared, "write", write)
  BY SeenIsWhole
<1>2. Levels = 1 .. Len(declared.widths)
  BY <1>1, LevelsOf
<1>3. \A l \in Levels : PlaneFits(declared, "read", l, read[l]) /\ PlaneFits(declared, "write", l, write[l])
  BY <1>1, <1>2 DEF Whole, DrawnOf
<1>4. \A l \in Levels : declared.widths[l] \in Nat \ {0}
  BY <1>1, <1>2, AcceptedRecord
<1> QED BY <1>3, <1>4 DEF PlaneFits

\* A level of one digit has no two halves, and no seen cell asked it for them.
LEMMA SeenHalves ==
    ASSUME CellInv, stage = "seen", declared.draw \in {"anti", "flip"}
    PROVE  Halves(declared)
<1>1. /\ declared \in Records /\ Accepted(declared) /\ declared.draw \notin Degenerate
      /\ Whole(declared, "read", read) /\ Whole(declared, "write", write)
  BY SeenIsWhole DEF Degenerate
<1>2. /\ declared.regime.mass = "cold_read" => ColdRead
      /\ declared.regime.mass # "cold_read" => declared.regime.mass \in MassBands
      /\ declared.regime.mass \in {"spread", "concentrated", "cold_read"}
  BY <1>1, SeenIsProven, AcceptedRecord
<1>3. 1 \in Levels /\ Levels = 1 .. Len(declared.widths)
  BY <1>1, LevelsOf
<1> SUFFICES ASSUME ~Halves(declared) PROVE FALSE
  OBVIOUS
<1>4. declared.widths[1] = 1 /\ Digits(1) = {0}
  <2>1. declared.widths[1] \in Nat \ {0}
    BY <1>3, SeenRow
  <2> QED BY <2>1 DEF Halves, Digits
<1>5. ColdRead
  <2>1. MassBands = {"nan"}
    BY <1>3, <1>4 DEF MassBands
  <2> QED BY <1>2, <2>1
<1>6. PICK level \in Levels : \E at \in AtOf(declared, "read") : \E digit \in Live(read[level][at]) :
          \A place \in AtOf(declared, "write") : digit \notin Live(write[level][place])
  BY <1>5, ColdDigit
<1>7. PICK at \in AtOf(declared, "read") : \E digit \in Live(read[level][at]) :
          \A place \in AtOf(declared, "write") : digit \notin Live(write[level][place])
  BY <1>6
<1>8. PICK digit \in Live(read[level][at]) : \A place \in AtOf(declared, "write") : digit \notin Live(write[level][place])
  BY <1>7
<1> DEFINE place == <<0, 0>>
<1>9. place \in AtOf(declared, "write")
  BY <1>1, PlacesOf
<1>10. level \in 1 .. Len(declared.widths) /\ declared.widths[level] \in Nat \ {0}
  BY <1>3, SeenRow
<1>11. digit \in Digits(declared.widths[level])
  <2>1. Live(read[level][at]) \subseteq Digits(declared.widths[level])
    BY <1>1, <1>10, WholeRow
  <2> QED BY <2>1
<1> HIDE DEF place
<1>12. CASE level = 1
  <2>1. Live(write[1][place]) # {} /\ Live(write[1][place]) \subseteq Digits(declared.widths[1])
    <3>1. 1 \in 1 .. Len(declared.widths)
      BY <1>3
    <3>2. Live(write[1][place]) # {}
      BY <1>1, <1>9, <3>1, WholeRow
    <3>3. Live(write[1][place]) \subseteq Digits(declared.widths[1])
      BY <1>1, <1>9, <3>1, WholeRow
    <3> QED BY <3>2, <3>3
  <2>2. digit \in Live(write[1][place])
    BY <1>4, <1>11, <1>12, <2>1
  <2> QED BY <1>8, <1>9, <1>12, <2>2
<1>13. CASE level # 1
  <2>1. write[level][place] = Digits(declared.widths[level])
    BY <1>9, <1>13, SeenRow DEF RowFits
  <2>2. Live(write[level][place]) = Digits(declared.widths[level])
    BY <1>10, <2>1 DEF Live, Digits, NaNMark
  <2> QED BY <1>8, <1>9, <1>11, <2>2
<1> QED BY <1>12, <1>13

LEMMA CountedLevel ==
    ASSUME CellInv, stage = "seen", NEW side \in {"read", "write"}, NEW l \in Levels,
           declared.k_tok < declared.widths[l], DeclaredSparse(side, l - 1)
    PROVE  CountOf(declared, side, l) = declared.k_tok /\ CountOf(declared, side, l) \in 1 .. declared.widths[l] - 1
<1>1. declared \in Records /\ Accepted(declared)
  BY SeenIsWhole
<1>2. declared.draw \in Alternating \cup FirstLevel /\ CountOf(declared, side, l) = declared.k_tok
  <2>1. l \in Nat /\ (l - 1 = 0 <=> l = 1)
    BY <1>1, LevelsOf
  <2>2. CASE declared.draw \in FirstLevel
    BY <2>1, <2>2 DEF DeclaredSparse, CountOf, FirstLevel, Alternating
  <2>3. CASE declared.draw \in Alternating
    BY <2>1, <2>3 DEF DeclaredSparse, CountOf, FirstLevel, Alternating
  <2>4. CASE declared.draw \notin FirstLevel \cup Alternating
    BY <2>1, <2>4 DEF DeclaredSparse
  <2> QED BY <2>2, <2>3, <2>4
<1>3. declared.k_tok \in Nat \ {0} /\ declared.widths[l] \in Nat \ {0}
  BY <1>1, <1>2, AcceptedRecord, SeenRow DEF Counted
<1> QED BY <1>2, <1>3

\* The windows of a token and of the one before it.
LEMMA WindowLine ==
    ASSUME NEW t \in Nat \ {0}
    PROVE  /\ t % Window = 0 => OddWindow(t) # OddWindow(t - 1)
           /\ t % Window # 0 => OddWindow(t) = OddWindow(t - 1)
<1> DEFINE q == t \div Window
<1>1. Window \in Nat \ {0}
  BY RecordsAssumption
<1>2. q \in Nat /\ t = (Window * q) + (t % Window) /\ (t % Window) \in 0 .. Window - 1
  BY <1>1
<1> HIDE DEF q
<1>3. ASSUME t % Window = 0 PROVE OddWindow(t) # OddWindow(t - 1)
  <2>1. Window * (q - 1) = Window * q - Window /\ Window * q \in Int
    BY <1>1, <1>2
  <2>2. Window * (q - 1) <= t - 1 /\ t - 1 < Window * (q - 1) + Window
    BY <1>1, <1>2, <1>3, <2>1
  <2>3. (t - 1) \div Window = q - 1
    <3>1. t - 1 \in Int /\ q - 1 \in Int
      BY <1>2
    <3> QED BY <1>1, <2>2, <3>1, DivIs
  <2>4. (q % 2 = 1) # ((q - 1) % 2 = 1)
    BY <1>2
  <2> QED BY <2>3, <2>4 DEF OddWindow, q
<1>4. ASSUME t % Window # 0 PROVE OddWindow(t) = OddWindow(t - 1)
  <2>1. Window * q \in Int
    BY <1>1, <1>2
  <2>2. Window * q <= t - 1 /\ t - 1 < Window * q + Window
    BY <1>1, <1>2, <1>4, <2>1
  <2>3. (t - 1) \div Window = q
    <3>1. t - 1 \in Int /\ q \in Int
      BY <1>2
    <3> QED BY <1>1, <2>2, <3>1, DivIs
  <2> QED BY <2>3 DEF OddWindow, q
<1> QED BY <1>3, <1>4

LEMMA SeenFlips ==
    ASSUME CellInv, stage = "seen", declared.draw = "flip", NEW t \in Tokens \ {0}, NEW h \in WriteHeads
    PROVE  t % Window = 0 <=> Leaves(write, <<t, h>>) \cap Leaves(write, <<t - 1, h>>) = {}
<1>1. /\ declared \in Records /\ Accepted(declared) /\ declared.draw \notin Degenerate
      /\ Whole(declared, "write", write)
  BY SeenIsWhole DEF Degenerate
<1>2. Halves(declared) /\ 1 \in Levels /\ declared.widths[1] \in Nat \ {0} /\ Levels = 1 .. Len(declared.widths)
  BY <1>1, SeenHalves, SeenRow, LevelsOf
<1>3. t \in Nat \ {0} /\ t - 1 \in Tokens /\ t \in Tokens
  <2>1. declared.tokens \in Nat \ {0}
    BY <1>1, AcceptedRecord
  <2> QED BY <2>1 DEF Tokens
<1> DEFINE now == <<t, h>>
           before == <<t - 1, h>>
<1>4. now \in AtOf(declared, "write") /\ before \in AtOf(declared, "write") /\ now[1] = t /\ before[1] = t - 1
  BY <1>1, <1>3, PlacesOf
<1> HIDE DEF now, before
<1>5. /\ write[1][now] = Half(declared.widths[1], OddWindow(t))
      /\ write[1][before] = Half(declared.widths[1], OddWindow(t - 1))
      /\ \A l \in Levels \ {1} : write[l][now] = Digits(declared.widths[l]) /\ write[l][before] = Digits(declared.widths[l])
  BY <1>2, <1>4, SeenRow DEF RowFits
<1>6. ASSUME t % Window = 0 PROVE Leaves(write, now) \cap Leaves(write, before) = {}
  <2>1. \/ OddWindow(t) = TRUE /\ OddWindow(t - 1) = FALSE
        \/ OddWindow(t) = FALSE /\ OddWindow(t - 1) = TRUE
    <3>1. OddWindow(t) # OddWindow(t - 1)
      BY <1>3, <1>6, WindowLine
    <3>2. OddWindow(t) \in BOOLEAN /\ OddWindow(t - 1) \in BOOLEAN
      BY DEF OddWindow
    <3> HIDE DEF OddWindow
    <3> QED BY <3>1, <3>2, Zenon
  <2>2. Half(declared.widths[1], FALSE) \cap Half(declared.widths[1], TRUE) = {}
    BY <1>2, HalfRow
  <2>3. write[1][now] \cap write[1][before] = {}
    <3>1. CASE OddWindow(t) = TRUE /\ OddWindow(t - 1) = FALSE
      <4>1. write[1][now] = Half(declared.widths[1], TRUE) /\ write[1][before] = Half(declared.widths[1], FALSE)
        BY <1>5, <3>1
      <4> QED BY <2>2, <4>1
    <3>2. CASE OddWindow(t) = FALSE /\ OddWindow(t - 1) = TRUE
      <4>1. write[1][now] = Half(declared.widths[1], FALSE) /\ write[1][before] = Half(declared.widths[1], TRUE)
        BY <1>5, <3>2
      <4> QED BY <2>2, <4>1
    <3> QED BY <2>1, <3>1, <3>2
  <2> SUFFICES ASSUME NEW leaf, leaf \in Leaves(write, now), leaf \in Leaves(write, before) PROVE FALSE
    OBVIOUS
  <2>4. leaf[1] \in Live(write[1][now]) /\ leaf[1] \in Live(write[1][before])
    BY <1>1, <1>2, <1>4, LeafOf
  <2> QED BY <2>3, <2>4 DEF Live
<1>7. ASSUME t % Window # 0 PROVE Leaves(write, now) \cap Leaves(write, before) # {}
  <2>1. \A l \in Levels : write[l][now] = write[l][before]
    BY <1>3, <1>5, <1>7, WindowLine
  <2>2. Leaves(write, now) = Leaves(write, before)
    BY <2>1 DEF Leaves
  <2>3. PICK digit : digit \in Live(write[1][now])
    <3>1. Live(write[1][now]) # {}
      BY <1>1, <1>2, <1>4, WholeRow
    <3> QED BY <3>1
  <2>4. \E leaf : leaf \in Leaves(write, now)
    <3>1. \E leaf \in Leaves(write, now) : leaf[1] = digit
      BY <1>1, <1>2, <1>4, <2>3, LeafThrough
    <3> QED BY <3>1
  <2> QED BY <2>2, <2>4
<1> QED BY <1>6, <1>7 DEF now, before

LEMMA SeenReadsApart ==
    ASSUME CellInv, stage = "seen", declared.draw = "anti"
    PROVE  ReadLeaves \cap Written = {}
<1>1. /\ declared \in Records /\ Accepted(declared)
      /\ Whole(declared, "read", read) /\ Whole(declared, "write", write)
  BY SeenIsWhole
<1>2. Halves(declared) /\ 1 \in Levels /\ declared.widths[1] \in Nat \ {0}
  BY <1>1, SeenHalves, SeenRow, LevelsOf
<1> SUFFICES ASSUME NEW leaf, leaf \in ReadLeaves, leaf \in Written PROVE FALSE
  OBVIOUS
<1>3. \E h \in WriteHeads : \E t \in Tokens : \E q \in Queries(h) : leaf \in Leaves(read, <<t, q>>)
  BY ReadLeaf
<1>4. \E at \in AtOf(declared, "read") : leaf \in Leaves(read, at)
  BY <1>1, <1>3, PlacesOf
<1>5. \E at \in AtOf(declared, "write") : leaf \in Leaves(write, at)
  <2>1. \E t \in Tokens : \E h \in WriteHeads : leaf \in Leaves(write, <<t, h>>)
    BY WrittenLeaf
  <2> QED BY <1>1, <2>1, PlacesOf
<1>6. leaf[1] \in Half(declared.widths[1], FALSE)
  <2>1. PICK at \in AtOf(declared, "read") : leaf \in Leaves(read, at)
    BY <1>4
  <2>2. leaf[1] \in Live(read[1][at])
    BY <1>1, <1>2, <2>1, LeafOf
  <2>3. read[1][at] = Half(declared.widths[1], FALSE)
    <3>1. read[1][at] = Half(declared.widths[1], "read" = "write")
      BY <1>2, SeenRow DEF RowFits
    <3>2. ("read" = "write") = FALSE
      OBVIOUS
    <3> QED BY <3>1, <3>2
  <2> QED BY <2>2, <2>3 DEF Live
<1>7. leaf[1] \in Half(declared.widths[1], TRUE)
  <2>1. PICK at \in AtOf(declared, "write") : leaf \in Leaves(write, at)
    BY <1>5
  <2>2. leaf[1] \in Live(write[1][at])
    BY <1>1, <1>2, <2>1, LeafOf
  <2>3. write[1][at] = Half(declared.widths[1], TRUE)
    <3>1. write[1][at] = Half(declared.widths[1], "write" = "write")
      BY <1>2, SeenRow DEF RowFits
    <3>2. ("write" = "write") = TRUE
      OBVIOUS
    <3> QED BY <3>1, <3>2
  <2> QED BY <2>2, <2>3 DEF Live
<1> QED BY <1>2, <1>6, <1>7, HalfRow

LEMMA SeenWritesOneLeaf ==
    ASSUME CellInv, stage = "seen", declared.draw = "readonly"
    PROVE  Written = {[level \in Levels |-> 0]}
<1>1. declared \in Records /\ Accepted(declared) /\ Whole(declared, "write", write)
  BY SeenIsWhole
<1> DEFINE zero == [level \in Levels |-> 0]
<1>2. \A l \in Levels, at \in AtOf(declared, "write") : Live(write[l][at]) = {0}
  <2>1. \A l \in Levels, at \in AtOf(declared, "write") : write[l][at] = {0}
    BY SeenRow DEF RowFits
  <2> QED BY <2>1 DEF Live, NaNMark
<1>3. zero = [level \in Levels |-> zero[level]] /\ \A level \in Levels : zero[level] = 0
  OBVIOUS
<1> HIDE DEF zero
<1>4. \A at \in AtOf(declared, "write") : zero \in Leaves(write, at)
  <2> SUFFICES ASSUME NEW at \in AtOf(declared, "write") PROVE zero \in Leaves(write, at)
    OBVIOUS
  <2>1. \A l \in Levels : zero[l] \in Live(write[l][at])
    BY <1>2, <1>3
  <2> QED BY <1>1, <1>3, <2>1, LeafOf
<1>5. \A at \in AtOf(declared, "write") : \A leaf \in Leaves(write, at) : leaf = zero
  <2> SUFFICES ASSUME NEW at \in AtOf(declared, "write"), NEW leaf \in Leaves(write, at) PROVE leaf = zero
    OBVIOUS
  <2>1. leaf = [l \in Levels |-> leaf[l]] /\ \A l \in Levels : leaf[l] \in Live(write[l][at])
    BY <1>1, LeafOf
  <2>2. \A l \in Levels : leaf[l] = 0
    BY <1>2, <2>1
  <2> QED BY <1>3, <2>1, <2>2
<1>6. zero \in Written
  <2>1. 0 \in Tokens /\ 0 \in WriteHeads /\ <<0, 0>> \in AtOf(declared, "write")
    BY <1>1, PlacesOf
  <2> QED BY <1>4, <2>1, WrittenLeaf
<1>7. \A leaf \in Written : leaf = zero
  <2> SUFFICES ASSUME NEW leaf \in Written PROVE leaf = zero
    OBVIOUS
  <2>1. PICK t \in Tokens : \E h \in WriteHeads : leaf \in Leaves(write, <<t, h>>)
    BY WrittenLeaf
  <2>2. PICK h \in WriteHeads : leaf \in Leaves(write, <<t, h>>)
    BY <2>1
  <2>3. <<t, h>> \in AtOf(declared, "write")
    BY <1>1, PlacesOf
  <2> QED BY <1>5, <2>2, <2>3
<1>8. Written = {zero}
  BY <1>6, <1>7
<1> QED BY <1>8 DEF zero

LEMMA SeenColdWrites ==
    ASSUME CellInv, stage = "seen", declared.draw = "cold", NEW leaf \in Written
    PROVE  leaf[1] < LiveDigits(declared.widths[1])
<1>1. declared \in Records /\ Accepted(declared) /\ Whole(declared, "write", write)
  BY SeenIsWhole
<1>2. 1 \in Levels /\ declared.widths[1] \in Nat \ {0} /\ declared.support \in 0 .. 8
  BY <1>1, LevelsOf, SeenRow, AcceptedRecord
<1>3. PICK t \in Tokens : \E h \in WriteHeads : leaf \in Leaves(write, <<t, h>>)
  BY WrittenLeaf
<1>4. PICK h \in WriteHeads : leaf \in Leaves(write, <<t, h>>)
  BY <1>3
<1> DEFINE at == <<t, h>>
<1>5. at \in AtOf(declared, "write")
  BY <1>1, PlacesOf
<1>6. leaf[1] \in Live(write[1][at])
  BY <1>1, <1>2, <1>4, <1>5, LeafOf
<1> HIDE DEF at
<1>7. write[1][at] \subseteq 0 .. LiveOf(declared, 1) - 1
  BY <1>2, <1>5, SeenRow DEF RowFits
<1>8. LiveOf(declared, 1) = LiveDigits(declared.widths[1]) /\ LiveDigits(declared.widths[1]) \in Nat
  <2>1. LiveDigits(declared.widths[1]) \in 1 .. declared.widths[1]
    BY <1>2, LiveDigitsIs DEF LiveDigits
  <2> QED BY <1>2, <2>1 DEF LiveOf, LiveDigits
<1> QED BY <1>6, <1>7, <1>8 DEF Live

\* Whatever the registry holds: a level declared sparse carries exactly k_tok digits a
\* row, anti never reads what is written, cold and readonly leave the other leaves
\* unwritten, and flip changes the written leaves exactly at a window line.
THEOREM DrawsAreAlwaysWhereTheySay == CellSpec => []DrawsAreWhereTheySay
<1>1. CellInv => DrawsAreWhereTheySay
  <2> SUFFICES ASSUME CellInv, stage = "seen" PROVE DrawsAreWhereTheySay
    BY DEF DrawsAreWhereTheySay
  <2>1. ASSUME declared.support = 8, NEW l \in Levels, declared.k_tok < declared.widths[l]
        PROVE  /\ DeclaredSparse("read", l - 1) =>
                      \A at \in DOMAIN read[l] : Cardinality(read[l][at]) = declared.k_tok
               /\ DeclaredSparse("write", l - 1) =>
                      \A at \in DOMAIN write[l] : Cardinality(write[l][at]) = declared.k_tok
    <3>1. ASSUME DeclaredSparse("read", l - 1), NEW at \in DOMAIN read[l] PROVE Cardinality(read[l][at]) = declared.k_tok
      BY <2>1, <3>1, CountedLevel, SeenRow DEF RowFits
    <3>2. ASSUME DeclaredSparse("write", l - 1), NEW at \in DOMAIN write[l] PROVE Cardinality(write[l][at]) = declared.k_tok
      BY <2>1, <3>2, CountedLevel, SeenRow DEF RowFits
    <3> QED BY <3>1, <3>2
  <2>2. declared.draw = "anti" => ReadLeaves \cap Written = {}
    BY SeenReadsApart
  <2>3. declared.draw = "cold" => \A leaf \in Written : leaf[1] < LiveDigits(declared.widths[1])
    BY SeenColdWrites
  <2>4. declared.draw = "readonly" => Written = {[level \in Levels |-> 0]}
    BY SeenWritesOneLeaf
  <2>5. declared.draw = "flip" => \A t \in Tokens \ {0}, h \in WriteHeads :
            t % Window = 0 <=> Leaves(write, <<t, h>>) \cap Leaves(write, <<t - 1, h>>) = {}
    BY SeenFlips
  <2> QED BY <2>1, <2>2, <2>3, <2>4, <2>5 DEF DrawsAreWhereTheySay
<1> QED BY <1>1, CellInvHolds, PTL

-----------------------------------------------------------------------------
(* The comparison.                                                         *)

\* What a side's function may do with a cell.
ResultsAreResults == \A r \in Results : r.status \in {"ok", "failed", "nothing"}

-----------------------------------------------------------------------------
(* The inductive invariant.                                                *)

SidesMade == made = [side \in Sides |-> [state |-> made[side].state, cells |-> made[side].cells]]

\* A side is made of a declared claim, cell by cell, and only then is it done.
DoneIsProduced ==
    \A side \in Sides : made[side].state = "done" =>
        /\ claim # NoClaim
        /\ made[side].cells \in [claim[side].cells -> Results]
        /\ \A cell \in claim[side].cells : made[side].cells[cell].status # "nothing"

\* A verdict of "held" is what compare found of what both sides made.
HeldIsFound ==
    verdict = "held" =>
        /\ \A side \in Sides : made[side].state = "done"
        /\ Held
        /\ ~CompareRaises

DiffInv == DiffTypeOK /\ SidesMade /\ DoneIsProduced /\ HeldIsFound

LEMMA DiffInitInv == DiffInit => DiffInv
BY DEF DiffInit, DiffInv, DiffTypeOK, SidesMade, DoneIsProduced, HeldIsFound, Sides

\* Declaring touches neither side and finds nothing.
LEMMA DeclareKeeps ==
    ASSUME DiffInv, NEW c \in Claims, Declare(c)
    PROVE  DiffInv'
<1>1. verdict = "none" /\ verdict' \in {"none", "refused"} /\ claim' \in Claims \cup {NoClaim}
  BY DEF Declare, DiffInv, DiffTypeOK
<1>2. \A side \in Sides : made'[side] = made[side] /\ made[side].state # "done"
  BY DEF Declare, DiffInv, DoneIsProduced
<1>3. made' = made
  BY DEF Declare
<1> QED BY <1>1, <1>2, <1>3 DEF DiffInv, DiffTypeOK, SidesMade, DoneIsProduced, HeldIsFound

\* A side that is produced was waiting, so there is no verdict yet.
LEMMA ProduceKeeps ==
    ASSUME DiffInv, NEW s \in Sides, Produce(s)
    PROVE  DiffInv'
<1>1. PICK results \in [claim[s].cells -> Results] : made' = [made EXCEPT ![s] = Produced(s, results)]
  BY DEF Produce
<1>2. claim # NoClaim /\ claim' = claim /\ verdict' = verdict /\ made[s].state = "waiting"
  BY DEF Produce
<1>3. DOMAIN made = Sides /\ DOMAIN made' = Sides
  BY <1>1 DEF DiffInv, SidesMade
<1>4. \A side \in Sides : made'[side] = IF side = s THEN Produced(s, results) ELSE made[side]
  BY <1>1, <1>3 DEF DiffInv, SidesMade
<1>5. verdict # "held"
  BY <1>2 DEF DiffInv, HeldIsFound
<1>6. made'[s].state = "done" =>
          made'[s].cells = results /\ \A cell \in claim[s].cells : results[cell].status # "nothing"
  BY <1>1, <1>4 DEF Produced
<1>7. Produced(s, results) = [state |-> Produced(s, results).state, cells |-> Produced(s, results).cells]
  BY DEF Produced
<1>8. SidesMade'
  BY <1>1, <1>3, <1>4, <1>7 DEF DiffInv, SidesMade
<1>9. DoneIsProduced'
  BY <1>1, <1>2, <1>4, <1>6 DEF DiffInv, DoneIsProduced
<1>10. DiffTypeOK'
  BY <1>2, <1>9 DEF DiffInv, DiffTypeOK, DoneIsProduced
<1> QED BY <1>2, <1>5, <1>8, <1>9, <1>10 DEF DiffInv, HeldIsFound

LEMMA CompareKeeps ==
    ASSUME DiffInv, Compare
    PROVE  DiffInv'
<1>1. claim' = claim /\ made' = made /\ \A side \in Sides : made[side].state = "done"
  BY DEF Compare
<1>2. verdict' \in {"raised", "held", "failed"} /\ (verdict' = "held" => Held /\ ~CompareRaises)
  BY DEF Compare
<1>3. Held' = Held /\ CompareRaises' = CompareRaises
  BY <1>1 DEF Held, Differing, Unusable, Quantities, Compared, RefusedCells, Listed, Usable, Ok, Made,
     OneDraw, Names, Tensors, EnvelopeNames, RuleOf, SameQuantity, OnBoth, EnvelopeOf,
     RanOneTree, CompareRaises, CannotJudge, NoEnvelope
<1>4. SidesMade' /\ DoneIsProduced' /\ DiffTypeOK'
  BY <1>1, <1>2 DEF DiffInv, SidesMade, DoneIsProduced, DiffTypeOK
<1> QED BY <1>1, <1>2, <1>3, <1>4 DEF DiffInv, HeldIsFound

LEMMA UntouchedKeeps ==
    ASSUME DiffInv, UNCHANGED diffVars
    PROVE  DiffInv'
<1>1. claim' = claim /\ made' = made /\ verdict' = verdict
  BY DEF diffVars
<1>2. Held' = Held /\ CompareRaises' = CompareRaises
  BY <1>1 DEF Held, Differing, Unusable, Quantities, Compared, RefusedCells, Listed, Usable, Ok, Made,
     OneDraw, Names, Tensors, EnvelopeNames, RuleOf, SameQuantity, OnBoth, EnvelopeOf,
     RanOneTree, CompareRaises, CannotJudge, NoEnvelope
<1> QED BY <1>1, <1>2 DEF DiffInv, DiffTypeOK, SidesMade, DoneIsProduced, HeldIsFound

LEMMA DiffStepInv == DiffInv /\ [DiffNext]_diffVars => DiffInv'
BY DeclareKeeps, ProduceKeeps, CompareKeeps, UntouchedKeeps DEF DiffNext

LEMMA DiffInvHolds == DiffSpec => []DiffInv
BY DiffInitInv, DiffStepInv, PTL DEF DiffSpec

\* The diff starts each variable, and each step keeps it, in its type.
THEOREM DiffTypeCorrect == DiffSpec => []DiffTypeOK
BY DiffInvHolds, PTL DEF DiffInv

-----------------------------------------------------------------------------
(* What a claim that held had to go on.                                    *)

\* The cells compare looks at are the ones either side declares.
LEMMA ListedAreDeclared ==
    ASSUME DiffInv, \A side \in Sides : made[side].state = "done"
    PROVE  /\ Listed = claim.left.cells \cup claim.right.cells
           /\ \A side \in Sides : \A cell : Made(side, cell) <=> cell \in claim[side].cells
<1>1. \A side \in Sides : DOMAIN made[side].cells = claim[side].cells
  BY DEF DiffInv, DoneIsProduced
<1>2. made.left = made["left"] /\ made.right = made["right"]
     /\ claim.left = claim["left"] /\ claim.right = claim["right"]
  OBVIOUS
<1> QED BY <1>1, <1>2 DEF Listed, Made, Sides

\* Every cell is usable or was refused by both sides.
LEMMA HeldCells ==
    ASSUME ResultsAreResults, DiffInv, verdict = "held", NEW cell \in claim.left.cells \cup claim.right.cells
    PROVE  /\ \A side \in Sides : cell \in claim[side].cells
           /\ \/ \A side \in Sides : made[side].cells[cell].status = "failed"
              \/ /\ \A side \in Sides : made[side].cells[cell].status = "ok"
                 /\ claim.left.draw = claim.right.draw
<1>1. (\A side \in Sides : made[side].state = "done") /\ Unusable = {}
  BY DEF DiffInv, HeldIsFound, Held
<1>2. cell \in Listed /\ \A side \in Sides : Made(side, cell) <=> cell \in claim[side].cells
  BY <1>1, ListedAreDeclared
<1>3. Usable(cell) \/ cell \in RefusedCells
  BY <1>1, <1>2 DEF Unusable
<1>4. CASE Usable(cell)
  BY <1>2, <1>4 DEF Usable, Ok, OneDraw, Sides
<1>5. CASE cell \in RefusedCells
  <2>1. \A side \in Sides : Made(side, cell) /\ made[side].cells[cell].status # "ok"
    BY <1>5 DEF RefusedCells, Ok
  <2>2. \A side \in Sides : made[side].cells[cell] \in Results /\ made[side].cells[cell].status # "nothing"
    BY <1>1, <1>2, <2>1 DEF DiffInv, DoneIsProduced
  <2> QED BY <1>2, <2>1, <2>2 DEF ResultsAreResults
<1> QED BY <1>3, <1>4, <1>5

\* A claim of "same" held on quantities both sides produced, all that count.
LEMMA SameCountsWhatBothProduced ==
    ASSUME Held, claim.expect = "same"
    PROVE  Total([cell \in Compared |-> Cardinality({q \in Names(cell) : OnBoth(cell, q)})]) >= claim.minimum
<1>1. \A cell \in Compared : \A q \in Names(cell) : OnBoth(cell, q)
  BY DEF Held, Differing, SameQuantity
<1>2. \A cell \in Compared : {q \in Names(cell) : OnBoth(cell, q)} = Names(cell)
  BY <1>1
<1>3. [cell \in Compared |-> Cardinality({q \in Names(cell) : OnBoth(cell, q)})]
      = [cell \in Compared |-> Cardinality(Names(cell))]
  BY <1>2
<1> QED BY <1>3 DEF Held, Quantities

LEMMA InvHeldMeansCompared == ASSUME ResultsAreResults PROVE DiffInv => HeldMeansCompared
<1> SUFFICES ASSUME DiffInv, verdict = "held" PROVE HeldMeansCompared
  BY DEF HeldMeansCompared
<1>1. Held /\ ~RanOneTree
  BY DEF DiffInv, HeldIsFound, CompareRaises
<1> QED BY <1>1, HeldCells, SameCountsWhatBothProduced DEF HeldMeansCompared

\* Whatever the sides make of however many cells, under every strategy and rule: a
\* claim that held was answered for by every cell either side lists, and one of
\* "same" compared as many quantities as its `minimum`.
THEOREM HeldIsAlwaysCompared == ASSUME ResultsAreResults PROVE DiffSpec => []HeldMeansCompared
BY DiffInvHolds, InvHeldMeansCompared, PTL

-----------------------------------------------------------------------------
(* The strategies, slot by slot.                                           *)

Floats == {Num(n) : n \in Int} \cup {NegZero, Inf, NegInf, NaN}

\* The tensors a side produces hold floats.
ResultsHoldFloats ==
    \A r \in Results : r.status = "ok" => \A q \in DOMAIN r.tensors : r.tensors[q].slots \in Seq(Floats)

\* A rule, or what a quantity changes of it, gives tolerances by natural numbers.
Tolerates(rule) ==
    /\ "rtol" \in DOMAIN rule => rule.rtol \in Nat
    /\ "atol" \in DOMAIN rule => rule.atol \in Nat
    /\ "derived_atol" \in DOMAIN rule => rule.derived_atol \in Nat
    /\ "clauses" \in DOMAIN rule => rule.clauses \subseteq Nat \X Nat

ClaimsTolerate ==
    \A c \in Claims :
        /\ {"rtol", "atol", "derived_atol", "clauses"} \subseteq DOMAIN c.rule
        /\ Tolerates(c.rule)
        /\ \A q \in DOMAIN c.per_quantity : Tolerates(c.per_quantity[q])

LEMMA FloatCases ==
    ASSUME NEW x \in Floats
    PROVE  /\ x[2] \in Int
           /\ IsFinite(x) \/ x \in {Inf, NegInf, NaN}
           /\ IsFinite(x) => x[1] \notin {"inf", "nan"}
<1>1. CASE x \in {Num(n) : n \in Int}
  <2>1. PICK n \in Int : x = <<"num", n>>
    BY <1>1 DEF Num
  <2> QED BY <2>1 DEF IsFinite
<1>2. CASE x = <<"negzero", 0>>
  <2>1. x[1] = "negzero" /\ x[2] \in Int
    BY <1>2
  <2> QED BY <2>1 DEF IsFinite
<1>3. CASE x \in {Inf, NegInf, NaN}
  <2>1. x[1] \in {"inf", "nan"} /\ x[2] \in Int
    BY <1>3 DEF Inf, NegInf, NaN
  <2> QED BY <1>3, <2>1 DEF IsFinite
<1> QED BY <1>1, <1>2, <1>3 DEF Floats, NegZero

LEMMA FiniteDistance ==
    ASSUME NEW x \in Floats, NEW y \in Floats, IsFinite(x), IsFinite(y)
    PROVE  /\ AbsErr(x, y) = Num(Distance(x, y))
           /\ Distance(x, y) \in Nat
<1>1. x[2] \in Int /\ y[2] \in Int /\ x[1] \notin {"inf", "nan"} /\ y[1] \notin {"inf", "nan"}
  BY FloatCases
<1>2. AbsErr(x, y) = Magnitude(Num(x[2] - y[2]))
  BY <1>1 DEF AbsErr
<1>3. CASE x[2] > y[2]
  BY <1>1, <1>2, <1>3 DEF Magnitude, Num, Distance
<1>4. CASE ~(x[2] > y[2])
  BY <1>1, <1>2, <1>4 DEF Magnitude, Num, Distance
<1> QED BY <1>3, <1>4

LEMMA FiniteAllowance ==
    ASSUME NEW y \in Floats, IsFinite(y), NEW r \in Nat, NEW floor \in Nat
    PROVE  /\ Allowance(r, Magnitude(y), floor) = Num(IF r * Size(y) < floor THEN floor ELSE r * Size(y))
           /\ Size(y) \in Nat
<1>1. y[2] \in Int /\ y[1] \notin {"inf", "nan"}
  BY FloatCases
<1>2. Size(y) \in Nat /\ Size(y) = IF y[2] < 0 THEN -y[2] ELSE y[2]
  BY <1>1 DEF Size, Distance, Num
<1>3. Magnitude(y)[1] = y[1] /\ Magnitude(y)[2] = Size(y)
  BY <1>1, <1>2 DEF Magnitude
<1> QED BY <1>1, <1>2, <1>3 DEF Allowance

\* A finite slot is within a term exactly if it is near by whole numbers.
LEMMA FiniteWithin ==
    ASSUME NEW x \in Floats, NEW y \in Floats, IsFinite(x), IsFinite(y), NEW r \in Nat, NEW floor \in Nat
    PROVE  Within(AbsErr(x, y), Allowance(r, Magnitude(y), floor))
               <=> Distance(x, y) <= r * Size(y) \/ Distance(x, y) <= floor
<1> DEFINE d == Distance(x, y)
           t == r * Size(y)
           m == IF t < floor THEN floor ELSE t
<1>1. d \in Nat /\ AbsErr(x, y) = Num(d)
  BY FiniteDistance
<1>2. t \in Nat /\ Allowance(r, Magnitude(y), floor) = Num(m)
  BY FiniteAllowance
<1> HIDE DEF d, t
<1>3. Within(Num(d), Num(m)) <=> d <= m
  BY DEF Within, Num, Inf
<1>4. d <= m <=> d <= t \/ d <= floor
  BY <1>1, <1>2
<1> QED BY <1>1, <1>2, <1>3, <1>4 DEF d, t

\* Nothing that is no number is within a term of a finite reference.
LEMMA NotFiniteIsOut ==
    ASSUME NEW x \in Floats, NEW y \in Floats, ~IsFinite(x), IsFinite(y)
    PROVE  /\ AbsErr(x, y) \in {NaN, Inf}
           /\ ~Equal(x, y) /\ ~IsZero(x)
           /\ \A r, floor \in Nat : ~Within(AbsErr(x, y), Allowance(r, Magnitude(y), floor))
<1>1. x \in {Inf, NegInf, NaN} /\ y[2] \in Int /\ y[1] \notin {"inf", "nan"}
  BY FloatCases
<1>2. x[1] \in {"inf", "nan"} /\ x # y
  BY <1>1 DEF Inf, NegInf, NaN
<1>3. AbsErr(x, y) \in {NaN, Inf}
  BY <1>1, <1>2 DEF AbsErr
<1>4. ~Equal(x, y) /\ ~IsZero(x)
  BY <1>1, <1>2 DEF Equal, IsZero, Num, Inf, NegInf
<1>5. ASSUME NEW r \in Nat, NEW floor \in Nat
      PROVE  ~Within(AbsErr(x, y), Allowance(r, Magnitude(y), floor))
  <2>1. PICK m : Allowance(r, Magnitude(y), floor) = Num(m)
    BY FiniteAllowance
  <2>2. ~Within(NaN, Num(m)) /\ ~Within(Inf, Num(m))
    BY DEF Within, NaN, Inf, Num
  <2> QED BY <1>3, <2>1, <2>2
<1> QED BY <1>3, <1>4, <1>5

\* What a strategy asks of one slot.
SlotIsSame(rule, x, y, bound) ==
    CASE claim.strategy = "bit-identical" -> Equal(x, y)
      [] claim.strategy = "per-slot" ->
            /\ \A clause \in rule.clauses :
                  Within(AbsErr(x, y), Allowance(clause[1], Magnitude(y), clause[2] + rule.derived_atol))
            /\ rule.multilinear => Within(AbsErr(x, y), bound)
      [] OTHER ->
            /\ IsZero(x) <=> IsZero(y)
            /\ IsZero(x) \/ Within(AbsErr(x, y), Allowance(rule.rtol, Magnitude(y), rule.atol))

Tolerances(rule) ==
    rule.rtol \in Nat /\ rule.atol \in Nat /\ rule.derived_atol \in Nat /\ rule.clauses \subseteq Nat \X Nat

\* At finite slots a strategy asks what its rule says, in whole numbers.
LEMMA FiniteSlot ==
    ASSUME NEW x \in Floats, NEW y \in Floats, IsFinite(x), IsFinite(y), NEW rule, NEW bound, Tolerances(rule)
    PROVE  SlotIsSame(rule, x, y, bound) <=> SlotsAgree(rule, x, y, bound)
<1>1. x[2] \in Int /\ y[2] \in Int
  BY FloatCases
<1>2. Equal(x, y) <=> x[2] = y[2]
  BY FloatCases DEF Equal
<1>3. IsZero(x) <=> x[2] = 0
  BY FloatCases DEF IsZero, Equal, Num, IsFinite
<1>4. IsZero(y) <=> y[2] = 0
  BY FloatCases DEF IsZero, Equal, Num, IsFinite
<1>5. ASSUME NEW clause \in rule.clauses
      PROVE  Within(AbsErr(x, y), Allowance(clause[1], Magnitude(y), clause[2] + rule.derived_atol))
               <=> Distance(x, y) <= clause[1] * Size(y) \/ Distance(x, y) <= clause[2] + rule.derived_atol
  <2>1. clause[1] \in Nat /\ clause[2] + rule.derived_atol \in Nat
    BY DEF Tolerances
  <2> QED BY <2>1, FiniteWithin
<1>6. Within(AbsErr(x, y), bound) <=> bound[1] # "nan" /\ (bound = Inf \/ Distance(x, y) <= bound[2])
  <2>1. AbsErr(x, y) = Num(Distance(x, y))
    BY FiniteDistance
  <2> QED BY <2>1 DEF Within, Num, Inf
<1>7. Within(AbsErr(x, y), Allowance(rule.rtol, Magnitude(y), rule.atol))
        <=> Distance(x, y) <= rule.rtol * Size(y) \/ Distance(x, y) <= rule.atol
  BY FiniteWithin DEF Tolerances
<1>8. x[2] = y[2] => Distance(x, y) <= rule.atol
  BY <1>1 DEF Distance, Tolerances
<1>9. CASE claim.strategy = "bit-identical"
  BY <1>2, <1>9 DEF SlotIsSame, SlotsAgree
<1>10. CASE claim.strategy = "per-slot"
  BY <1>5, <1>6, <1>10 DEF SlotIsSame, SlotsAgree
<1>11. CASE claim.strategy \notin {"bit-identical", "per-slot"}
  <2>1. SlotIsSame(rule, x, y, bound) <=>
          /\ IsZero(x) <=> IsZero(y)
          /\ IsZero(x) \/ Within(AbsErr(x, y), Allowance(rule.rtol, Magnitude(y), rule.atol))
    BY <1>11 DEF SlotIsSame
  <2>2. SlotsAgree(rule, x, y, bound) <=>
          /\ x[2] = 0 <=> y[2] = 0
          /\ Distance(x, y) <= rule.rtol * Size(y) \/ Distance(x, y) <= rule.atol
    BY <1>11 DEF SlotsAgree
  <2> QED BY <1>3, <1>4, <1>7, <1>8, <2>1, <2>2
<1> QED BY <1>9, <1>10, <1>11

\* A slot passes beside a finite reference only if it is finite, unless an infinite
\* envelope is all there is to bound it.
LEMMA PassingSlotIsFinite ==
    ASSUME NEW x \in Floats, NEW y \in Floats, IsFinite(y), NEW rule, NEW bound, Tolerances(rule),
           rule.clauses # {} \/ rule.multilinear \/ claim.strategy # "per-slot",
           rule.multilinear => bound # Inf,
           SlotIsSame(rule, x, y, bound)
    PROVE  IsFinite(x)
<1> SUFFICES ASSUME ~IsFinite(x) PROVE FALSE
  OBVIOUS
<1>1. /\ AbsErr(x, y) \in {NaN, Inf}
      /\ ~Equal(x, y) /\ ~IsZero(x)
      /\ \A r, floor \in Nat : ~Within(AbsErr(x, y), Allowance(r, Magnitude(y), floor))
  BY NotFiniteIsOut
<1>2. CASE claim.strategy = "bit-identical"
  BY <1>1, <1>2 DEF SlotIsSame
<1>3. CASE claim.strategy = "per-slot"
  <2>1. CASE rule.clauses # {}
    <3>1. PICK clause \in rule.clauses : TRUE
      BY <2>1
    <3>2. clause[1] \in Nat /\ clause[2] + rule.derived_atol \in Nat
      BY DEF Tolerances
    <3>3. Within(AbsErr(x, y), Allowance(clause[1], Magnitude(y), clause[2] + rule.derived_atol))
      BY <1>3, <3>1 DEF SlotIsSame
    <3> QED BY <1>1, <3>2, <3>3
  <2>2. CASE rule.multilinear
    <3>1. Within(AbsErr(x, y), bound) /\ bound # Inf
      BY <1>3, <2>2 DEF SlotIsSame
    <3> QED BY <1>1, <3>1 DEF Within, NaN, Inf
  <2> QED BY <1>3, <2>1, <2>2
<1>4. CASE claim.strategy \notin {"bit-identical", "per-slot"}
  <2>1. Within(AbsErr(x, y), Allowance(rule.rtol, Magnitude(y), rule.atol))
    BY <1>1, <1>4 DEF SlotIsSame
  <2> QED BY <1>1, <2>1 DEF Tolerances
<1> QED BY <1>2, <1>3, <1>4

-----------------------------------------------------------------------------
(* What the rule says of a claim that held.                                *)

LEMMA RulesTolerate ==
    ASSUME ClaimsTolerate, claim \in Claims, NEW q
    PROVE  Tolerances(RuleOf(q))
<1>1. {"rtol", "atol", "derived_atol", "clauses"} \subseteq DOMAIN claim.rule /\ Tolerates(claim.rule)
  BY DEF ClaimsTolerate
<1> DEFINE g == claim.rule
           own == IF q \in DOMAIN claim.per_quantity THEN claim.per_quantity[q] ELSE <<>>
<1>2. Tolerates(own)
  <2>1. CASE q \in DOMAIN claim.per_quantity
    BY <2>1 DEF ClaimsTolerate
  <2>2. CASE q \notin DOMAIN claim.per_quantity
    <3>1. own = <<>>
      BY <2>2
    <3> HIDE DEF own
    <3>2. DOMAIN own = {}
      BY <3>1
    <3> QED BY <3>2 DEF Tolerates
  <2> QED BY <2>1, <2>2
<1>3. RuleOf(q) = [field \in DOMAIN g \cup DOMAIN own |-> IF field \in DOMAIN own THEN own[field] ELSE g[field]]
  BY DEF RuleOf
<1> HIDE DEF own, g
<1>4. {"rtol", "atol", "derived_atol", "clauses"} \subseteq DOMAIN g /\ Tolerates(g)
  BY <1>1 DEF g
<1>5. /\ RuleOf(q).rtol = IF "rtol" \in DOMAIN own THEN own.rtol ELSE g.rtol
      /\ RuleOf(q).atol = IF "atol" \in DOMAIN own THEN own.atol ELSE g.atol
      /\ RuleOf(q).derived_atol = IF "derived_atol" \in DOMAIN own THEN own.derived_atol ELSE g.derived_atol
      /\ RuleOf(q).clauses = IF "clauses" \in DOMAIN own THEN own.clauses ELSE g.clauses
  BY <1>3, <1>4
<1> QED BY <1>2, <1>4, <1>5 DEF Tolerates, Tolerances

\* The tensors compare loads hold floats.
LEMMA ComparedHoldFloats ==
    ASSUME ResultsHoldFloats, DiffInv, \A side \in Sides : made[side].state = "done",
           NEW cell \in Compared, NEW side \in Sides, NEW q \in DOMAIN Tensors(side, cell)
    PROVE  Tensors(side, cell)[q].slots \in Seq(Floats)
<1>1. Ok(side, cell)
  BY DEF Compared, Usable, Sides
<1>2. made[side].cells[cell] \in Results
  BY <1>1, ListedAreDeclared DEF Ok, DiffInv, DoneIsProduced
<1> QED BY <1>1, <1>2 DEF ResultsHoldFloats, Ok, Tensors

\* A comparison that does not raise judges slot by slot.
LEMMA SameIsSlotwise ==
    ASSUME NEW cell, NEW q, OnBoth(cell, q), ~CannotJudge(cell, q),
           Tensors("left", cell)[q].slots \in Seq(Floats), Tensors("right", cell)[q].slots \in Seq(Floats),
           Len(Tensors("left", cell)[q].slots) = Len(Tensors("right", cell)[q].slots)
    PROVE  /\ SameQuantity(cell, q) <=>
                /\ claim.strategy = "bit-identical" => Tensors("left", cell)[q].dtype = Tensors("right", cell)[q].dtype
                /\ \A i \in DOMAIN Tensors("right", cell)[q].slots :
                      SlotIsSame(RuleOf(q), Tensors("left", cell)[q].slots[i], Tensors("right", cell)[q].slots[i],
                                 EnvelopeSlot(cell, q, i))
           /\ RuleOf(q).clauses # {} \/ RuleOf(q).multilinear \/ claim.strategy # "per-slot"
<1> DEFINE a == Tensors("left", cell)[q]
           b == Tensors("right", cell)[q]
           rule == RuleOf(q)
           envelope == EnvelopeOf(cell, q)
           Bound(i) == EnvelopeSlot(cell, q, i)
<1>1. SameShape(a, b) /\ DOMAIN a.slots = DOMAIN b.slots
  BY DEF SameShape
<1>2. ~Raises(claim.strategy, a, b, rule, envelope) /\ (SameQuantity(cell, q) <=> Same(claim.strategy, a, b, rule, envelope))
  BY DEF CannotJudge, SameQuantity
<1> HIDE DEF a, b, rule, envelope
<1>3. CASE claim.strategy = "bit-identical"
  <2>1. Same(claim.strategy, a, b, rule, envelope) <=>
          a.dtype = b.dtype /\ \A i \in DOMAIN b.slots : Equal(a.slots[i], b.slots[i])
    BY <1>1, <1>3 DEF Same, BitIdentical
  <2>2. \A i \in DOMAIN b.slots : SlotIsSame(rule, a.slots[i], b.slots[i], Bound(i)) <=> Equal(a.slots[i], b.slots[i])
    BY <1>3 DEF SlotIsSame
  <2> QED BY <1>2, <1>3, <2>1, <2>2 DEF a, b, rule
<1>4. CASE claim.strategy = "per-slot"
  <2>1. (rule.multilinear => envelope # <<>>) /\ (rule.clauses # {} \/ rule.multilinear)
    BY <1>1, <1>2, <1>4 DEF Raises, PerSlotRaises
  <2>2. \A i : rule.multilinear => Bound(i) = envelope.slots[i]
    BY <2>1 DEF EnvelopeSlot, envelope
  <2>3. Same(claim.strategy, a, b, rule, envelope) <=> PerSlot(a, b, rule, envelope)
    BY <1>4 DEF Same
  <2>4. PerSlot(a, b, rule, envelope) <=>
          \A i \in DOMAIN b.slots :
             /\ \A clause \in rule.clauses :
                   Within(AbsErr(a.slots[i], b.slots[i]),
                          Allowance(clause[1], Magnitude(b.slots[i]), clause[2] + rule.derived_atol))
             /\ rule.multilinear => Within(AbsErr(a.slots[i], b.slots[i]), envelope.slots[i])
    BY <1>1 DEF PerSlot
  <2>5. \A i \in DOMAIN b.slots :
          SlotIsSame(rule, a.slots[i], b.slots[i], Bound(i)) <=>
             /\ \A clause \in rule.clauses :
                   Within(AbsErr(a.slots[i], b.slots[i]),
                          Allowance(clause[1], Magnitude(b.slots[i]), clause[2] + rule.derived_atol))
             /\ rule.multilinear => Within(AbsErr(a.slots[i], b.slots[i]), envelope.slots[i])
    BY <1>4, <2>2 DEF SlotIsSame
  <2> QED BY <1>2, <1>4, <2>1, <2>3, <2>4, <2>5 DEF a, b, rule
<1>5. CASE claim.strategy = "support-equal"
  <2>1. Same(claim.strategy, a, b, rule, envelope) <=> SupportEqual(a, b, rule)
    BY <1>5 DEF Same
  <2>2. SupportEqual(a, b, rule) <=>
          \A i \in DOMAIN b.slots :
             /\ IsZero(a.slots[i]) <=> IsZero(b.slots[i])
             /\ \/ IsZero(a.slots[i])
                \/ Within(AbsErr(a.slots[i], b.slots[i]), Allowance(rule.rtol, Magnitude(b.slots[i]), rule.atol))
    BY <1>1 DEF SupportEqual, SupportMoved, IsZero, Equal
  <2>3. \A i \in DOMAIN b.slots :
          SlotIsSame(rule, a.slots[i], b.slots[i], Bound(i)) <=>
             /\ IsZero(a.slots[i]) <=> IsZero(b.slots[i])
             /\ \/ IsZero(a.slots[i])
                \/ Within(AbsErr(a.slots[i], b.slots[i]), Allowance(rule.rtol, Magnitude(b.slots[i]), rule.atol))
    BY <1>5 DEF SlotIsSame
  <2> QED BY <1>2, <1>5, <2>1, <2>2, <2>3 DEF a, b, rule
<1> QED BY <1>2, <1>3, <1>4, <1>5 DEF Raises

\* Whatever a strategy calls the same has the shape of the reference.
LEMMA SameHasTheShape ==
    ASSUME NEW cell, NEW q, SameQuantity(cell, q), ~CannotJudge(cell, q)
    PROVE  OnBoth(cell, q) /\ Len(Tensors("left", cell)[q].slots) = Len(Tensors("right", cell)[q].slots)
BY DEF SameQuantity, CannotJudge, Raises, Same, BitIdentical, PerSlot, SupportEqual, SameShape

LEMMA InvHeldSame ==
    ASSUME ResultsHoldFloats, ClaimsTolerate
    PROVE  DiffInv => HeldSameIsWithinTheRule
<1> SUFFICES ASSUME DiffInv, verdict = "held", claim.expect = "same",
                    NEW cell \in Compared, NEW q \in Names(cell)
             PROVE  LET a == Tensors("left", cell)[q]
                        b == Tensors("right", cell)[q]
                    IN  /\ OnBoth(cell, q) /\ Len(a.slots) = Len(b.slots)
                        /\ \A i \in DOMAIN b.slots :
                              IsFinite(b.slots[i]) /\ (RuleOf(q).multilinear => EnvelopeSlot(cell, q, i) # Inf) =>
                                  /\ IsFinite(a.slots[i])
                                  /\ SlotsAgree(RuleOf(q), a.slots[i], b.slots[i], EnvelopeSlot(cell, q, i))
  BY DEF HeldSameIsWithinTheRule
<1> DEFINE a == Tensors("left", cell)[q]
           b == Tensors("right", cell)[q]
<1>1. Held /\ ~CompareRaises /\ \A side \in Sides : made[side].state = "done"
  BY DEF DiffInv, HeldIsFound
<1>2. SameQuantity(cell, q) /\ ~CannotJudge(cell, q)
  BY <1>1 DEF Held, Differing, CompareRaises
<1>3. OnBoth(cell, q) /\ Len(a.slots) = Len(b.slots)
  BY <1>2, SameHasTheShape
<1>4. a.slots \in Seq(Floats) /\ b.slots \in Seq(Floats)
  BY <1>1, <1>3, ComparedHoldFloats DEF OnBoth, Sides
<1>5. Tolerances(RuleOf(q))
  BY <1>1, RulesTolerate DEF DiffInv, DiffTypeOK, DoneIsProduced, Sides
<1>6. ASSUME NEW i \in DOMAIN b.slots, IsFinite(b.slots[i]),
             RuleOf(q).multilinear => EnvelopeSlot(cell, q, i) # Inf
      PROVE  IsFinite(a.slots[i]) /\ SlotsAgree(RuleOf(q), a.slots[i], b.slots[i], EnvelopeSlot(cell, q, i))
  <2>1. a.slots[i] \in Floats /\ b.slots[i] \in Floats
    BY <1>3, <1>4
  <2>2. /\ SlotIsSame(RuleOf(q), a.slots[i], b.slots[i], EnvelopeSlot(cell, q, i))
        /\ RuleOf(q).clauses # {} \/ RuleOf(q).multilinear \/ claim.strategy # "per-slot"
    BY <1>2, <1>3, <1>4, SameIsSlotwise
  <2> HIDE DEF a, b
  <2>3. IsFinite(a.slots[i])
    BY <1>5, <1>6, <2>1, <2>2, PassingSlotIsFinite
  <2> QED BY <1>5, <1>6, <2>1, <2>2, <2>3, FiniteSlot
<1> QED BY <1>3, <1>6

\* Whatever the sides make, in floats that are numbers or not: a claim of "same"
\* that held is within every term of its rule at every slot, of every quantity of
\* every cell, at which the reference and its bound are finite.
THEOREM HeldSameIsAlwaysWithinTheRule ==
    ASSUME ResultsHoldFloats, ClaimsTolerate
    PROVE  DiffSpec => []HeldSameIsWithinTheRule
BY DiffInvHolds, InvHeldSame, PTL

LEMMA InvHeldDifferent ==
    ASSUME ResultsHoldFloats, ClaimsTolerate
    PROVE  DiffInv => HeldDifferentIsADifference
<1> SUFFICES ASSUME DiffInv, verdict = "held", claim.expect = "different"
             PROVE  HeldDifferentIsADifference
  BY DEF HeldDifferentIsADifference
<1>1. Held /\ ~CompareRaises /\ \A side \in Sides : made[side].state = "done"
  BY DEF DiffInv, HeldIsFound
<1>2. PICK cell \in Compared : \E q \in Names(cell) : ~SameQuantity(cell, q)
  BY <1>1 DEF Held, Differing
<1>3. PICK q \in Names(cell) : ~SameQuantity(cell, q)
  BY <1>2
<1> DEFINE a == Tensors("left", cell)[q]
           b == Tensors("right", cell)[q]
           Moved == \E i \in DOMAIN b.slots :
                       \/ ~IsFinite(a.slots[i]) \/ ~IsFinite(b.slots[i])
                       \/ ~SlotsAgree(RuleOf(q), a.slots[i], b.slots[i], EnvelopeSlot(cell, q, i))
<1>4. ~CannotJudge(cell, q)
  BY <1>1 DEF CompareRaises
<1>5. Tolerances(RuleOf(q))
  BY <1>1, RulesTolerate DEF DiffInv, DiffTypeOK, DoneIsProduced, Sides
<1>6. ASSUME OnBoth(cell, q), a.dtype = b.dtype, Len(a.slots) = Len(b.slots), ~Moved
      PROVE  FALSE
  <2>1. a.slots \in Seq(Floats) /\ b.slots \in Seq(Floats)
    BY <1>1, <1>6, ComparedHoldFloats DEF OnBoth, Sides
  <2>2. \A i \in DOMAIN b.slots : SlotIsSame(RuleOf(q), a.slots[i], b.slots[i], EnvelopeSlot(cell, q, i))
    <3>1. ASSUME NEW i \in DOMAIN b.slots
          PROVE  SlotIsSame(RuleOf(q), a.slots[i], b.slots[i], EnvelopeSlot(cell, q, i))
      <4>1. a.slots[i] \in Floats /\ b.slots[i] \in Floats
        BY <1>6, <2>1
      <4> QED BY <1>5, <1>6, <4>1, FiniteSlot
    <3> QED BY <3>1
  <2> QED BY <1>3, <1>4, <1>6, <2>1, <2>2, SameIsSlotwise
<1>7. ~OnBoth(cell, q) \/ a.dtype # b.dtype \/ Len(a.slots) # Len(b.slots) \/ Moved
  BY <1>6
<1> QED BY <1>7 DEF HeldDifferentIsADifference

\* A claim of "different" that held never rests on quantities both sides produced
\* alike: something was produced by one side, or is of another dtype or shape, or
\* a slot is not finite or is outside the rule.
THEOREM HeldDifferentIsAlwaysADifference ==
    ASSUME ResultsHoldFloats, ClaimsTolerate
    PROVE  DiffSpec => []HeldDifferentIsADifference
BY DiffInvHolds, InvHeldDifferent, PTL

-----------------------------------------------------------------------------
(* The timing: least and greatest.                                         *)

LEMMA LeastElement ==
    ASSUME NEW S \in SUBSET Nat, S # {}
    PROVE  \E n \in S : \A m \in S : n <= m
<1>1. PICK n \in S : \A m \in S : ~ (<<m, n>> \in OpToRel(<, Nat))
  BY NatLessThanWellFounded, WFMin
<1>2. \A m \in S : ~ (m < n)
  BY <1>1 DEF OpToRel
<1> QED BY <1>2

LEMMA IndicesAreFinite ==
    ASSUME NEW n \in Nat, NEW S \in SUBSET (1 .. n)
    PROVE  IsFiniteSet(S) /\ Cardinality(S) \in Nat /\ Cardinality(S) <= n
<1>1. IsFiniteSet(1 .. n) /\ Cardinality(1 .. n) = n
  BY FS_Interval
<1>2. IsFiniteSet(S) /\ Cardinality(S) <= n
  BY <1>1, FS_Subset
<1> QED BY <1>2, FS_CardinalityType

LEMMA FewerIndices ==
    ASSUME NEW n \in Nat, NEW S \in SUBSET (1 .. n), NEW T \in SUBSET S
    PROVE  Cardinality(T) <= Cardinality(S)
BY IndicesAreFinite, FS_Subset

LEMMA OtherIndices ==
    ASSUME NEW n \in Nat, NEW S \in SUBSET (1 .. n)
    PROVE  Cardinality((1 .. n) \ S) = n - Cardinality(S)
<1>1. IsFiniteSet(1 .. n) /\ Cardinality(1 .. n) = n
  BY FS_Interval
<1>2. (1 .. n) \cap S = S
  OBVIOUS
<1>3. Cardinality((1 .. n) \ S) = Cardinality(1 .. n) - Cardinality((1 .. n) \cap S)
  BY <1>1, FS_Difference
<1> QED BY <1>1, <1>2, <1>3

\* Some index of a set has the least value, and some the greatest.
LEMMA LeastValue ==
    ASSUME NEW n \in Nat, NEW values \in [1 .. n -> Nat], NEW T \in SUBSET (1 .. n), T # {}
    PROVE  \E j \in T : \A i \in T : values[j] <= values[i]
<1>1. {values[i] : i \in T} \in SUBSET Nat /\ {values[i] : i \in T} # {}
  OBVIOUS
<1>2. PICK v \in {values[i] : i \in T} : \A w \in {values[i] : i \in T} : v <= w
  BY <1>1, LeastElement
<1> QED BY <1>2

LEMMA GreatestValue ==
    ASSUME NEW n \in Nat, NEW values \in [1 .. n -> Nat], NEW T \in SUBSET (1 .. n), T # {}
    PROVE  \E j \in T : \A i \in T : values[i] <= values[j]
<1> DEFINE Most(j, k) == \A i \in T : i <= k => values[i] <= values[j]
           Lacking == {k \in 0 .. n : ~\E j \in T : Most(j, k)}
<1>1. \E j \in T : Most(j, 0)
  <2>1. PICK j \in T : TRUE
    OBVIOUS
  <2>2. \A i \in T : ~(i <= 0)
    OBVIOUS
  <2> QED BY <2>1, <2>2
<1>2. ASSUME NEW k \in 1 .. n, NEW j \in T, Most(j, k - 1)
      PROVE  \E h \in T : Most(h, k)
  <2>1. \A i \in T : i <= k => i = k \/ i <= k - 1
    OBVIOUS
  <2>2. CASE k \in T /\ values[k] > values[j]
    <3>1. Most(k, k)
      BY <1>2, <2>1, <2>2
    <3> QED BY <2>2, <3>1
  <2>3. CASE ~(k \in T /\ values[k] > values[j])
    <3>1. Most(j, k)
      BY <1>2, <2>1, <2>3
    <3> QED BY <3>1
  <2> QED BY <2>2, <2>3
<1> HIDE DEF Most
<1>3. ASSUME Lacking # {} PROVE FALSE
  <2>1. Lacking \in SUBSET Nat
    OBVIOUS
  <2>2. PICK k \in Lacking : \A l \in Lacking : k <= l
    BY <1>3, <2>1, LeastElement
  <2>3. k \in 1 .. n /\ k - 1 \notin Lacking /\ k - 1 \in 0 .. n
    BY <1>1, <2>2
  <2>4. PICK j \in T : Most(j, k - 1)
    BY <2>3
  <2> QED BY <1>2, <2>2, <2>3, <2>4
<1>4. PICK j \in T : Most(j, n)
  <2>1. Lacking = {} /\ n \in 0 .. n
    BY <1>3
  <2> QED BY <2>1
<1> QED BY <1>4 DEF Most

-----------------------------------------------------------------------------
(* Order statistics.                                                       *)

Below(values, v) == {i \in DOMAIN values : values[i] < v}
UpTo(values, v)  == {i \in DOMAIN values : values[i] <= v}

LEMMA OrderedCounts ==
    ASSUME NEW n \in Nat, NEW values \in [1 .. n -> Nat], NEW k \in 0 .. n - 1
    PROVE  /\ Ordered(values, k) \in Nat
           /\ Cardinality(Below(values, Ordered(values, k))) <= k
           /\ Cardinality(UpTo(values, Ordered(values, k))) > k
<1> DEFINE Enough == {i \in 1 .. n : Cardinality(UpTo(values, values[i])) > k}
<1>1. Enough # {}
  <2>1. PICK j \in 1 .. n : \A i \in 1 .. n : values[i] <= values[j]
    <3>1. (1 .. n) \in SUBSET (1 .. n) /\ 1 \in 1 .. n
      OBVIOUS
    <3> QED BY <3>1, GreatestValue
  <2>2. UpTo(values, values[j]) = 1 .. n
    BY <2>1 DEF UpTo
  <2>3. Cardinality(1 .. n) = n
    BY FS_Interval
  <2> QED BY <2>2, <2>3
<1>2. PICK j \in Enough : \A i \in Enough : values[j] <= values[i]
  BY <1>1, LeastValue
<1>3. Cardinality(Below(values, values[j])) <= k
  <2>1. Below(values, values[j]) \in SUBSET (1 .. n)
    BY DEF Below
  <2>2. CASE Below(values, values[j]) = {}
    BY <2>2, FS_EmptySet
  <2>3. CASE Below(values, values[j]) # {}
    <3>1. PICK w \in Below(values, values[j]) : \A i \in Below(values, values[j]) : values[i] <= values[w]
      BY <2>1, <2>3, GreatestValue
    <3>2. w \in 1 .. n /\ values[w] < values[j]
      BY <3>1 DEF Below
    <3>3. Below(values, values[j]) = UpTo(values, values[w])
      BY <3>1, <3>2 DEF Below, UpTo
    <3>4. w \notin Enough
      BY <1>2, <3>2
    <3>5. Cardinality(UpTo(values, values[w])) \in Nat
      BY IndicesAreFinite DEF UpTo
    <3> QED BY <3>2, <3>3, <3>4, <3>5
  <2> QED BY <2>2, <2>3
<1>4. \E v \in {values[i] : i \in DOMAIN values} :
         Cardinality(Below(values, v)) <= k /\ Cardinality(UpTo(values, v)) > k
  BY <1>2, <1>3
<1>5. Ordered(values, k) = CHOOSE v \in {values[i] : i \in DOMAIN values} :
         Cardinality(Below(values, v)) <= k /\ Cardinality(UpTo(values, v)) > k
  BY DEF Ordered, Below, UpTo
<1>6. Ordered(values, k) \in {values[i] : i \in DOMAIN values}
  BY <1>4, <1>5
<1>7. Cardinality(Below(values, Ordered(values, k))) <= k /\ Cardinality(UpTo(values, Ordered(values, k))) > k
  BY <1>4, <1>5
<1> QED BY <1>6, <1>7

\* What more than k values are not above is at least the k-th.
LEMMA OrderedIsAtMost ==
    ASSUME NEW n \in Nat, NEW values \in [1 .. n -> Nat], NEW k \in 0 .. n - 1, NEW v \in Nat,
           NEW S \in SUBSET (1 .. n), Cardinality(S) > k, \A i \in S : values[i] <= v
    PROVE  Ordered(values, k) <= v
<1> SUFFICES ASSUME Ordered(values, k) > v PROVE FALSE
  BY OrderedCounts
<1> DEFINE w == Ordered(values, k)
<1>1. w \in Nat /\ Cardinality(Below(values, w)) <= k
  BY OrderedCounts
<1> HIDE DEF w
<1>2. S \subseteq Below(values, w) /\ Below(values, w) \subseteq 1 .. n
  BY <1>1 DEF Below, w
<1>3. Cardinality(S) <= Cardinality(Below(values, w)) /\ Cardinality(S) \in Nat /\ Cardinality(Below(values, w)) \in Nat
  BY <1>2, FewerIndices, IndicesAreFinite
<1> QED BY <1>1, <1>3

LEMMA OrderedGrows ==
    ASSUME NEW n \in Nat, NEW values \in [1 .. n -> Nat], NEW k \in 0 .. n - 1, NEW l \in k .. n - 1
    PROVE  Ordered(values, k) <= Ordered(values, l)
<1>1. l \in 0 .. n - 1 /\ UpTo(values, Ordered(values, l)) \in SUBSET (1 .. n)
  BY DEF UpTo
<1>2. Cardinality(UpTo(values, Ordered(values, l))) > l /\ Ordered(values, l) \in Nat
  BY <1>1, OrderedCounts
<1>3. Cardinality(UpTo(values, Ordered(values, l))) > k
  <2>1. Cardinality(UpTo(values, Ordered(values, l))) \in Nat
    BY <1>1, IndicesAreFinite
  <2> QED BY <1>2, <2>1
<1>4. \A i \in UpTo(values, Ordered(values, l)) : values[i] <= Ordered(values, l)
  BY DEF UpTo
<1> QED BY <1>1, <1>2, <1>3, <1>4, OrderedIsAtMost

\* At least n - k values are no smaller than the k-th.
LEMMA NotBelowOrdered ==
    ASSUME NEW n \in Nat, NEW values \in [1 .. n -> Nat], NEW k \in 0 .. n - 1
    PROVE  Cardinality({i \in 1 .. n : values[i] >= Ordered(values, k)}) >= n - k
<1> DEFINE w == Ordered(values, k)
<1>1. w \in Nat /\ Cardinality(Below(values, w)) <= k
  BY OrderedCounts
<1> HIDE DEF w
<1> DEFINE Rest == {i \in 1 .. n : values[i] >= w}
<1>2. Rest = (1 .. n) \ Below(values, w)
  BY <1>1 DEF Below
<1>3. Below(values, w) \in SUBSET (1 .. n)
  BY DEF Below
<1>4. Cardinality((1 .. n) \ Below(values, w)) = n - Cardinality(Below(values, w)) /\ Cardinality(Below(values, w)) \in Nat
  BY <1>3, OtherIndices, IndicesAreFinite
<1> HIDE DEF Rest
<1>5. Cardinality(Rest) >= n - k
  BY <1>1, <1>2, <1>4
<1> QED BY <1>5 DEF Rest, w

\* The places of the median and the quartiles.
LEMMA Places ==
    ASSUME NEW n \in Nat \ {0}
    PROVE  /\ n \div 4 \in 0 .. n - 1 /\ (n - 1) \div 2 \in 0 .. n - 1
           /\ n \div 2 \in (n - 1) \div 2 .. n - 1
           /\ n \div 2 \in 0 .. n - 1
           /\ (3 * n) \div 4 \in n \div 2 .. n - 1
           /\ (3 * n) \div 4 \in 0 .. n - 1
           /\ n - n \div 4 > n \div 2 /\ n - n \div 4 >= 3 * (n \div 4) /\ n - n \div 4 > 0
OBVIOUS

-----------------------------------------------------------------------------
(* The quantities of a session.                                            *)

Rounds == Seq(Nat) \ {<<>>}

LEMMA MedianIsNat ==
    ASSUME NEW values \in Rounds
    PROVE  Median2(values) \in Nat
<1>1. Len(values) \in Nat \ {0} /\ values \in [1 .. Len(values) -> Nat]
  BY DEF Rounds
<1>2. /\ (Len(values) - 1) \div 2 \in 0 .. Len(values) - 1
      /\ Len(values) \div 2 \in 0 .. Len(values) - 1
  BY <1>1, Places
<1>3. \A k \in 0 .. Len(values) - 1 : Ordered(values, k) \in Nat
  <2> DEFINE n == Len(values)
  <2>1. n \in Nat \ {0} /\ values \in [1 .. n -> Nat]
    BY <1>1
  <2> HIDE DEF n
  <2>2. \A k \in 0 .. n - 1 : Ordered(values, k) \in Nat
    BY <2>1, OrderedCounts
  <2> QED BY <2>2 DEF n
<1>4. Ordered(values, (Len(values) - 1) \div 2) \in Nat /\ Ordered(values, Len(values) \div 2) \in Nat
  BY <1>2, <1>3
<1> QED BY <1>4 DEF Median2

\* The medians of an arm, the reference's above zero, and their ratios.
LEMMA SessionArms ==
    ASSUME NEW m, {m.candidate, m.reference} \subseteq Arms, Paired(m), Resolved(m), NEW n, n = Len(m.candidate)
    PROVE  /\ n \in Nat \ {0}
           /\ Medians(m.candidate) \in [1 .. n -> Nat]
           /\ Medians(m.reference) \in [1 .. n -> Nat \ {0}]
           /\ Len(Medians(m.candidate)) = n /\ Len(Medians(m.reference)) = n
<1>1. m.candidate \in Seq(Rounds) /\ m.reference \in Seq(Rounds) /\ m.candidate # <<>> /\ Len(m.reference) = n
  BY DEF Paired, Arms, Rounds
<1>2. n \in Nat \ {0} /\ DOMAIN m.candidate = 1 .. n /\ DOMAIN m.reference = 1 .. n
  BY <1>1
<1>3. ASSUME NEW i \in 1 .. n
      PROVE  m.candidate[i] \in Rounds /\ m.reference[i] \in Rounds /\ Median2(m.reference[i]) > 0
  BY <1>1, <1>2 DEF Resolved
<1>4. \A i \in 1 .. n : Median2(m.candidate[i]) \in Nat /\ Median2(m.reference[i]) \in Nat \ {0}
  BY <1>3, MedianIsNat
<1>5. Medians(m.candidate) \in [1 .. n -> Nat] /\ Medians(m.reference) \in [1 .. n -> Nat \ {0}]
  BY <1>2, <1>4 DEF Medians
<1>6. \A f \in [1 .. n -> Nat] : Len(f) = n
  BY <1>2
<1> QED BY <1>2, <1>5, <1>6

LEMMA RatiosAreNat ==
    ASSUME NEW n \in Nat, NEW c \in [1 .. n -> Nat], NEW b \in [1 .. n -> Nat \ {0}]
    PROVE  Ratios(c, b) \in [1 .. n -> Nat] /\ \A i \in 1 .. n : Ratios(c, b)[i] * b[i] <= c[i] * Scale
<1>1. ASSUME NEW x \in Nat, NEW y \in Nat \ {0}
      PROVE  (x * Scale) \div y \in Nat /\ ((x * Scale) \div y) * y <= x * Scale
  <2>1. x * Scale \in Nat
    BY SessionsAssumption
  <2> QED BY <2>1, SessionsAssumption
<1>2. \A i \in 1 .. n : c[i] \in Nat /\ b[i] \in Nat \ {0}
  OBVIOUS
<1> QED BY <1>1, <1>2 DEF Ratios

LEMMA TickIsNat ==
    ASSUME NEW candidate \in Arms, NEW reference \in Arms
    PROVE  Resolution({candidate, reference}) \in Nat
<1> DEFINE Samples(arm) == UNION {{arm[i][j] : j \in DOMAIN arm[i]} : i \in DOMAIN arm}
           gaps == {gap \in UNION {{x - y : x, y \in Samples(arm)} : arm \in {candidate, reference}} : gap > 0}
<1>1. \A arm \in {candidate, reference} : Samples(arm) \subseteq Nat
  BY DEF Arms
<1> HIDE DEF Samples
<1>2. gaps \in SUBSET Nat
  BY <1>1
<1> HIDE DEF gaps
<1>3. ASSUME gaps # {} PROVE Min(gaps) \in Nat
  <2>1. \E x \in gaps : \A y \in gaps : x <= y
    BY <1>2, <1>3, LeastElement
  <2> QED BY <1>2, <2>1 DEF Min
<1>4. Resolution({candidate, reference}) = IF gaps = {} THEN 0 ELSE Min(gaps)
  BY DEF Resolution, gaps, Samples
<1> QED BY <1>3, <1>4

-----------------------------------------------------------------------------
(* The two gates of a violation.                                           *)

QuartileRises(r, n) == 1651 * (Median2(r) - 2 * Scale) < 6000 * (Ordered(r, n \div 4) - Scale)

\* Over a limit of three sigmas of its own spread, the lower quartile of the ratios
\* is above one, by more than a quarter of what twice the median is above two.
LEMMA QuartileIsAbove ==
    ASSUME NEW n \in Nat \ {0}, NEW r \in [1 .. n -> Nat], Len(r) = n, OverSpread(r, Iqr(r))
    PROVE  /\ Median2(r) - 2 * Scale > 0
           /\ QuartileRises(r, n)
<1> DEFINE q == Ordered(r, n \div 4)
           low == Ordered(r, (n - 1) \div 2)
           mid == Ordered(r, n \div 2)
           top == Ordered(r, (3 * n) \div 4)
<1>1. q \in Nat /\ low \in Nat /\ mid \in Nat /\ top \in Nat
  BY Places, OrderedCounts
<1>2. low <= mid /\ mid <= top /\ q <= top
  <2>1. n \div 2 \in n \div 4 .. n - 1 /\ (3 * n) \div 4 \in n \div 4 .. n - 1
    OBVIOUS
  <2> QED BY <2>1, Places, OrderedGrows
<1>3. Median2(r) = low + mid /\ Iqr(r) = top - q
  BY DEF Median2, Iqr
<1> HIDE DEF q, low, mid, top
<1>4. (low + mid - 2 * Scale) * 1349 > 6000 * (top - q) /\ Scale \in Nat
  BY <1>1, <1>3, SessionsAssumption DEF OverSpread
<1>5. low + mid - 2 * Scale > 0 /\ 1651 * (low + mid - 2 * Scale) < 6000 * (q - Scale)
  BY <1>1, <1>2, <1>4
<1>6. Median2(r) - 2 * Scale = low + mid - 2 * Scale
  BY <1>1, <1>3, <1>4
<1>7. QuartileRises(r, n) <=> 1651 * (low + mid - 2 * Scale) < 6000 * (q - Scale)
  BY <1>6 DEF QuartileRises, q
<1> QED BY <1>5, <1>6, <1>7

LEMMA AboveOneIsSlower ==
    ASSUME NEW c \in Nat, NEW b \in Nat \ {0}, NEW ratio \in Nat,
           ratio * b <= c * Scale, ratio > Scale
    PROVE  c > b
<1> SUFFICES ASSUME c <= b PROVE FALSE
  OBVIOUS
<1>1. Scale \in Nat /\ ratio >= Scale + 1
  BY SessionsAssumption
<1>2. c * Scale <= b * Scale
  BY <1>1
<1>3. ratio * b >= (Scale + 1) * b
  BY <1>1
<1> QED BY <1>1, <1>2, <1>3

\* The rounds at or above the lower quartile, at least three of four.
LEMMA UpperRounds ==
    ASSUME NEW n \in Nat \ {0}, NEW c \in [1 .. n -> Nat], NEW b \in [1 .. n -> Nat \ {0}],
           OverSpread(Ratios(c, b), Iqr(Ratios(c, b)))
    PROVE  LET q == Ordered(Ratios(c, b), n \div 4)
               upper == {i \in 1 .. n : Ratios(c, b)[i] >= q}
           IN  /\ Cardinality(upper) >= n - n \div 4
               /\ q > Scale
               /\ \A i \in upper : c[i] > b[i]
<1> DEFINE r == Ratios(c, b)
           q == Ordered(r, n \div 4)
           upper == {i \in 1 .. n : r[i] >= q}
<1>1. r \in [1 .. n -> Nat] /\ Len(r) = n /\ \A i \in 1 .. n : r[i] * b[i] <= c[i] * Scale
  <2>1. \A f \in [1 .. n -> Nat] : Len(f) = n
    OBVIOUS
  <2> QED BY <2>1, RatiosAreNat
<1> HIDE DEF r
<1>2. q \in Nat /\ Cardinality(upper) >= n - n \div 4
  BY <1>1, Places, OrderedCounts, NotBelowOrdered
<1>3. q > Scale
  <2>1. Median2(r) \in Nat
    <3>1. Ordered(r, (n - 1) \div 2) \in Nat /\ Ordered(r, n \div 2) \in Nat
      BY <1>1, Places, OrderedCounts
    <3> QED BY <1>1, <3>1 DEF Median2
  <2>2. Scale \in Nat
    BY SessionsAssumption
  <2>3. OverSpread(r, Iqr(r))
    BY DEF r
  <2>4. Median2(r) - 2 * Scale > 0
    BY <1>1, <2>3, QuartileIsAbove
  <2>5. QuartileRises(r, n)
    BY <1>1, <2>3, QuartileIsAbove
  <2>6. 1651 * (Median2(r) - 2 * Scale) < 6000 * (q - Scale)
    BY <2>5 DEF QuartileRises
  <2> HIDE DEF q
  <2> QED BY <1>2, <2>1, <2>2, <2>4, <2>6
<1>4. ASSUME NEW i \in upper PROVE c[i] > b[i]
  <2>1. c[i] \in Nat /\ b[i] \in Nat \ {0} /\ r[i] \in Nat /\ r[i] > Scale /\ r[i] * b[i] <= c[i] * Scale
    BY <1>1, <1>2, <1>3, SessionsAssumption
  <2> QED BY <2>1, AboveOneIsSlower
<1> QED BY <1>2, <1>3, <1>4 DEF r

-----------------------------------------------------------------------------
(* Signed ranks.                                                           *)

LEMMA DisjointUnion ==
    ASSUME NEW S, NEW T, IsFiniteSet(S), IsFiniteSet(T), S \cap T = {}
    PROVE  Cardinality(S \cup T) = Cardinality(S) + Cardinality(T)
<1>1. Cardinality(S \cup T) = Cardinality(S) + Cardinality(T) - Cardinality(S \cap T)
  BY FS_Union
<1>2. Cardinality(S) \in Nat /\ Cardinality(T) \in Nat /\ Cardinality(S \cap T) = 0
  BY FS_EmptySet, FS_CardinalityType
<1> QED BY <1>1, <1>2

\* Of the pairs of a set with itself, each is smaller one way or not larger the other.
LEMMA PairsOfASet ==
    ASSUME NEW A, IsFiniteSet(A), NEW size \in [A -> Nat]
    PROVE  Cardinality({p \in A \X A : size[p[2]] < size[p[1]]})
             + Cardinality({p \in A \X A : size[p[2]] <= size[p[1]]}) = Cardinality(A) * Cardinality(A)
<1> DEFINE P == A \X A
           Smaller == {p \in P : size[p[2]] < size[p[1]]}
           NotLarger == {p \in P : size[p[2]] <= size[p[1]]}
           Larger == {p \in P : size[p[1]] < size[p[2]]}
<1>1. IsFiniteSet(P) /\ Cardinality(P) = Cardinality(A) * Cardinality(A)
  BY FS_Product
<1>2. IsFiniteSet(Smaller) /\ IsFiniteSet(NotLarger) /\ IsFiniteSet(Larger)
  BY <1>1, FS_Subset
<1>3. Cardinality(Larger) = Cardinality(Smaller)
  <2> DEFINE swap == [p \in Smaller |-> <<p[2], p[1]>>]
  <2>1. swap \in Bijection(Smaller, Larger)
    <3>1. swap \in [Smaller -> Larger]
      OBVIOUS
    <3>2. \A p, s \in Smaller : swap[p] = swap[s] => p = s
      OBVIOUS
    <3>3. \A p \in Larger : \E s \in Smaller : swap[s] = p
      <4>1. ASSUME NEW p \in Larger PROVE \E s \in Smaller : swap[s] = p
        <5>1. <<p[2], p[1]>> \in Smaller /\ swap[<<p[2], p[1]>>] = p
          OBVIOUS
        <5> QED BY <5>1
      <4> QED BY <4>1
    <3> QED BY <3>1, <3>2, <3>3 DEF Bijection, Injection, IsInjective, Surjection
  <2> QED BY <1>2, <2>1, FS_Bijection DEF ExistsBijection
<1>4. P = NotLarger \cup Larger /\ NotLarger \cap Larger = {}
  OBVIOUS
<1> HIDE DEF P, Smaller, NotLarger, Larger
<1>5. Cardinality(P) = Cardinality(NotLarger) + Cardinality(Larger)
  BY <1>2, <1>4, DisjointUnion
<1>6. Cardinality(Smaller) + Cardinality(NotLarger) = Cardinality(A) * Cardinality(A)
  BY <1>1, <1>2, <1>3, <1>5, FS_CardinalityType
<1> QED BY <1>6 DEF P, Smaller, NotLarger
AllSizes(diffs) == [i \in NonZero(diffs) |-> AbsOf(diffs[i])]

\* A set of non-zero differences: its own pairs are in its rank sum, and the sum of
\* a whole is that of a part and of the rest.
LEMMA RankSums ==
    ASSUME NEW n \in Nat, NEW diffs \in [1 .. n -> Int], NEW A \in SUBSET NonZero(diffs)
    PROVE  /\ RankSum(diffs, A) \in Nat
           /\ RankSum(diffs, A) >= Cardinality(A) * Cardinality(A) + Cardinality(A)
           /\ A = NonZero(diffs) => RankSum(diffs, A) = Cardinality(A) * Cardinality(A) + Cardinality(A)
           /\ RankSum(diffs, NonZero(diffs)) = RankSum(diffs, A) + RankSum(diffs, NonZero(diffs) \ A)
<1> DEFINE N == NonZero(diffs)
           size == AllSizes(diffs)
           Smaller(S, T) == {p \in S \X T : size[p[2]] < size[p[1]]}
           NotLarger(S, T) == {p \in S \X T : size[p[2]] <= size[p[1]]}
<1>1. N \subseteq 1 .. n /\ IsFiniteSet(N) /\ size \in [N -> Nat]
  <2>1. N \in SUBSET (1 .. n)
    BY DEF NonZero
  <2>2. \A i \in N : AbsOf(diffs[i]) \in Nat
    BY <2>1 DEF AbsOf
  <2> QED BY <2>1, <2>2, IndicesAreFinite DEF AllSizes
<1>2. ASSUME NEW S \in SUBSET N
      PROVE  RankSum(diffs, S) = Cardinality(Smaller(S, N)) + Cardinality(NotLarger(S, N)) + Cardinality(S)
  <2>1. \A p \in S \X N : size[p[1]] = AbsOf(diffs[p[1]]) /\ size[p[2]] = AbsOf(diffs[p[2]])
    BY DEF AllSizes
  <2>2. Smaller(S, N) = {p \in S \X N : AbsOf(diffs[p[2]]) < AbsOf(diffs[p[1]])}
    BY <2>1
  <2>3. NotLarger(S, N) = {p \in S \X N : AbsOf(diffs[p[2]]) <= AbsOf(diffs[p[1]])}
    BY <2>1
  <2> QED BY <2>2, <2>3 DEF RankSum
<1> HIDE DEF N, size
<1>3. ASSUME NEW S \in SUBSET N, NEW T \in SUBSET N
      PROVE  /\ IsFiniteSet(S) /\ Cardinality(S) \in Nat
             /\ IsFiniteSet(S \X T) /\ IsFiniteSet(Smaller(S, T)) /\ IsFiniteSet(NotLarger(S, T))
             /\ Cardinality(Smaller(S, T)) \in Nat /\ Cardinality(NotLarger(S, T)) \in Nat
  <2>1. IsFiniteSet(S) /\ IsFiniteSet(T)
    BY <1>1, FS_Subset
  <2>2. IsFiniteSet(S \X T)
    BY <2>1, FS_Product
  <2>3. IsFiniteSet(Smaller(S, T)) /\ IsFiniteSet(NotLarger(S, T))
    BY <2>2, FS_Subset
  <2> QED BY <2>1, <2>2, <2>3, FS_CardinalityType
<1>4. ASSUME NEW S \in SUBSET N
      PROVE  Cardinality(Smaller(S, S)) + Cardinality(NotLarger(S, S)) = Cardinality(S) * Cardinality(S)
  <2> DEFINE own == [i \in S |-> size[i]]
  <2>1. IsFiniteSet(S) /\ own \in [S -> Nat]
    BY <1>1, <1>3
  <2>2. Smaller(S, S) = {p \in S \X S : own[p[2]] < own[p[1]]}
    OBVIOUS
  <2>3. NotLarger(S, S) = {p \in S \X S : own[p[2]] <= own[p[1]]}
    OBVIOUS
  <2> HIDE DEF own
  <2> QED BY <2>1, <2>2, <2>3, PairsOfASet
<1>5. Cardinality(Smaller(A, A)) <= Cardinality(Smaller(A, N)) /\ Cardinality(NotLarger(A, A)) <= Cardinality(NotLarger(A, N))
  <2>1. A \in SUBSET N
    BY DEF N
  <2>2. Smaller(A, A) \in SUBSET Smaller(A, N) /\ NotLarger(A, A) \in SUBSET NotLarger(A, N)
    BY <2>1
  <2> QED BY <1>3, <2>1, <2>2, FS_Subset
<1>6. /\ Cardinality(Smaller(N, N)) = Cardinality(Smaller(A, N)) + Cardinality(Smaller(N \ A, N))
      /\ Cardinality(NotLarger(N, N)) = Cardinality(NotLarger(A, N)) + Cardinality(NotLarger(N \ A, N))
      /\ Cardinality(N) = Cardinality(A) + Cardinality(N \ A)
  <2>1. A \in SUBSET N /\ N \ A \in SUBSET N /\ N \in SUBSET N
    BY DEF N
  <2>2. Smaller(N, N) = Smaller(A, N) \cup Smaller(N \ A, N) /\ Smaller(A, N) \cap Smaller(N \ A, N) = {}
    BY <2>1
  <2>3. NotLarger(N, N) = NotLarger(A, N) \cup NotLarger(N \ A, N) /\ NotLarger(A, N) \cap NotLarger(N \ A, N) = {}
    BY <2>1
  <2>4. N = A \cup (N \ A) /\ A \cap (N \ A) = {}
    BY <2>1
  <2> QED BY <1>3, <2>1, <2>2, <2>3, <2>4, DisjointUnion
<1>7. A \in SUBSET N /\ N \ A \in SUBSET N /\ N \in SUBSET N
  BY DEF N
<1>8. /\ Cardinality(Smaller(A, N)) \in Nat /\ Cardinality(NotLarger(A, N)) \in Nat /\ Cardinality(A) \in Nat
      /\ Cardinality(Smaller(N \ A, N)) \in Nat /\ Cardinality(NotLarger(N \ A, N)) \in Nat /\ Cardinality(N \ A) \in Nat
      /\ Cardinality(Smaller(A, A)) \in Nat /\ Cardinality(NotLarger(A, A)) \in Nat
  BY <1>3, <1>7
<1>9. /\ RankSum(diffs, A) = Cardinality(Smaller(A, N)) + Cardinality(NotLarger(A, N)) + Cardinality(A)
      /\ RankSum(diffs, N) = Cardinality(Smaller(N, N)) + Cardinality(NotLarger(N, N)) + Cardinality(N)
      /\ RankSum(diffs, N \ A) = Cardinality(Smaller(N \ A, N)) + Cardinality(NotLarger(N \ A, N)) + Cardinality(N \ A)
  BY <1>2, <1>7
<1>10. Cardinality(Smaller(A, A)) + Cardinality(NotLarger(A, A)) = Cardinality(A) * Cardinality(A)
  BY <1>4, <1>7
<1> HIDE DEF Smaller, NotLarger
<1>11. RankSum(diffs, A) \in Nat /\ RankSum(diffs, A) >= Cardinality(A) * Cardinality(A) + Cardinality(A)
  <2> DEFINE own == Cardinality(A) * Cardinality(A)
  <2>1. Cardinality(Smaller(A, A)) + Cardinality(NotLarger(A, A)) = own
    BY <1>10
  <2> DEFINE s1 == Cardinality(Smaller(A, A))
             s2 == Cardinality(NotLarger(A, A))
             t1 == Cardinality(Smaller(A, N))
             t2 == Cardinality(NotLarger(A, N))
             size1 == Cardinality(A)
  <2>2. /\ s1 \in Nat /\ s2 \in Nat /\ t1 \in Nat /\ t2 \in Nat /\ size1 \in Nat
        /\ s1 <= t1 /\ s2 <= t2 /\ s1 + s2 = own
        /\ RankSum(diffs, A) = t1 + t2 + size1
    BY <1>5, <1>8, <1>9, <2>1
  <2> HIDE DEF own, s1, s2, t1, t2, size1
  <2>3. RankSum(diffs, A) \in Nat /\ RankSum(diffs, A) >= own + size1
    BY <2>2
  <2> QED BY <2>3 DEF own, size1
<1>12. RankSum(diffs, N) = RankSum(diffs, A) + RankSum(diffs, N \ A)
  BY <1>6, <1>8, <1>9
<1>13. A = N => RankSum(diffs, A) = Cardinality(A) * Cardinality(A) + Cardinality(A)
  BY <1>8, <1>9, <1>10
<1> QED BY <1>11, <1>12, <1>13 DEF N

-----------------------------------------------------------------------------
(* What is over its limit.                                                 *)

\* The session of a measurement, by its medians.
LEMMA SessionOf ==
    ASSUME NEW m \in Measurements, Paired(m), Resolved(m)
    PROVE  \E n \in Nat \ {0} : \E c \in [1 .. n -> Nat] : \E b \in [1 .. n -> Nat \ {0}] :
              /\ Session(m).rounds = n
              /\ Session(m).diffs = [i \in 1 .. n |-> c[i] - b[i]]
              /\ Session(m).tick \in Nat
              /\ Session(m).violation = (/\ OverSpread(Ratios(c, b), Iqr(Ratios(c, b)))
                                         /\ OverTick(Ratios(c, b), Session(m).tick, b))
<1> DEFINE n == Len(m.candidate)
           c == Medians(m.candidate)
           b == Medians(m.reference)
<1>1. {m.candidate, m.reference} \subseteq Arms
  BY SessionsAssumption
<1>2. n \in Nat \ {0} /\ c \in [1 .. n -> Nat] /\ b \in [1 .. n -> Nat \ {0}] /\ Len(c) = n
  BY <1>1, SessionArms
<1>3. Resolution({m.candidate, m.reference}) \in Nat
  BY <1>1, TickIsNat
<1> HIDE DEF n, c, b
<1>4. Session(m) = [rounds |-> Len(c), diffs |-> [i \in DOMAIN c |-> c[i] - b[i]],
                    tick |-> Resolution({m.candidate, m.reference}),
                    violation |-> /\ OverSpread(Ratios(c, b), Iqr(Ratios(c, b)))
                                  /\ OverTick(Ratios(c, b), Resolution({m.candidate, m.reference}), b)]
  BY DEF Session, c, b
<1>5. DOMAIN c = 1 .. n
  BY <1>2
<1>6. /\ Session(m).rounds = n
      /\ Session(m).diffs = [i \in 1 .. n |-> c[i] - b[i]]
      /\ Session(m).tick \in Nat
      /\ Session(m).violation = (/\ OverSpread(Ratios(c, b), Iqr(Ratios(c, b)))
                                 /\ OverTick(Ratios(c, b), Session(m).tick, b))
  BY <1>2, <1>3, <1>4, <1>5
<1> QED BY <1>2, <1>6

LEMMA ManyOutrankFew ==
    ASSUME NEW p \in Nat, NEW f \in Nat, p >= 3 * f, p > 0
    PROVE  2 * (p * p + p) > (p + f) * (p + f) + (p + f)
<1>1. PICK k \in Nat : p = 3 * f + k
  <2>1. p - 3 * f \in Nat /\ p = 3 * f + (p - 3 * f)
    OBVIOUS
  <2> QED BY <2>1
<1>2. f * f \in Nat /\ f * k \in Nat /\ k * k \in Nat
  BY <1>1
<1>3. p * p = 9 * (f * f) + 6 * (f * k) + k * k
  BY <1>1
<1>4. (p + f) * (p + f) = 16 * (f * f) + 8 * (f * k) + k * k
  BY <1>1
<1> HIDE <1>1
<1> QED BY <1>1, <1>2, <1>3, <1>4

LEMMA SlowerByRanks ==
    ASSUME NEW n \in Nat \ {0}, NEW diffs \in [1 .. n -> Int], Cardinality(WPlus(diffs)) >= n - n \div 4
    PROVE  2 * RankSum(diffs, WPlus(diffs)) > RankSum(diffs, NonZero(diffs))
<1> DEFINE N == NonZero(diffs)
           A == WPlus(diffs)
<1>1. A \in SUBSET N /\ N \in SUBSET (1 .. n)
  BY DEF WPlus, NonZero
<1>2. IsFiniteSet(A) /\ IsFiniteSet(N \ A) /\ Cardinality(A) \in Nat /\ Cardinality(N \ A) \in Nat
  BY <1>1, IndicesAreFinite
<1>3. Cardinality(N) = Cardinality(A) + Cardinality(N \ A)
  <2>1. N = A \cup (N \ A) /\ A \cap (N \ A) = {}
    BY <1>1
  <2> QED BY <1>2, <2>1, DisjointUnion
<1>4. Cardinality(A) + Cardinality(N \ A) <= n
  BY <1>1, <1>3, IndicesAreFinite
<1>5. RankSum(diffs, A) \in Nat /\ RankSum(diffs, A) >= Cardinality(A) * Cardinality(A) + Cardinality(A)
  BY <1>1, RankSums
<1>6. RankSum(diffs, N) = Cardinality(N) * Cardinality(N) + Cardinality(N)
  BY <1>1, RankSums
<1> HIDE DEF N, A
<1>7. Cardinality(A) >= 3 * Cardinality(N \ A) /\ Cardinality(A) > 0
  <2>1. Cardinality(A) >= n - n \div 4
    BY DEF A
  <2> QED BY <1>2, <1>4, <2>1, Places
<1>8. 2 * (Cardinality(A) * Cardinality(A) + Cardinality(A)) > Cardinality(N) * Cardinality(N) + Cardinality(N)
  BY <1>2, <1>3, <1>7, ManyOutrankFew
<1>9. 2 * RankSum(diffs, A) > RankSum(diffs, N)
  <2>1. Cardinality(A) * Cardinality(A) \in Nat /\ Cardinality(N) * Cardinality(N) \in Nat
    <3> DEFINE a == Cardinality(A)
               m == Cardinality(N)
    <3>1. a \in Nat /\ m \in Nat
      BY <1>2, <1>3
    <3> HIDE DEF a, m
    <3>2. a * a \in Nat /\ m * m \in Nat
      BY <3>1
    <3> QED BY <3>2 DEF a, m
  <2> DEFINE own == Cardinality(A) * Cardinality(A) + Cardinality(A)
             all == Cardinality(N) * Cardinality(N) + Cardinality(N)
  <2>2. own \in Nat /\ all \in Nat
    <3> DEFINE a == Cardinality(A) * Cardinality(A)
               m == Cardinality(N) * Cardinality(N)
    <3>1. a \in Nat /\ m \in Nat /\ Cardinality(A) \in Nat /\ Cardinality(N) \in Nat
      BY <1>2, <1>3, <2>1
    <3> HIDE DEF a, m
    <3>2. a + Cardinality(A) \in Nat /\ m + Cardinality(N) \in Nat
      BY <3>1
    <3> QED BY <3>2 DEF a, m
  <2>3. 2 * own > all
    BY <1>8
  <2>4. RankSum(diffs, A) \in Nat /\ RankSum(diffs, A) >= own
    BY <1>5
  <2>5. RankSum(diffs, N) = all
    BY <1>6
  <2> HIDE DEF own, all
  <2> QED BY <2>2, <2>3, <2>4, <2>5
<1> QED BY <1>9 DEF N, A

LEMMA SessionIsSlower ==
    ASSUME NEW m \in Measurements, Paired(m), Resolved(m), Session(m).violation
    PROVE  /\ Cardinality(WPlus(Session(m).diffs)) >= Session(m).rounds - Session(m).rounds \div 4
           /\ 2 * RankSum(Session(m).diffs, WPlus(Session(m).diffs)) > RankSum(Session(m).diffs, NonZero(Session(m).diffs))
<1>1. PICK n \in Nat \ {0} : \E c \in [1 .. n -> Nat] : \E b \in [1 .. n -> Nat \ {0}] :
              /\ Session(m).rounds = n
              /\ Session(m).diffs = [i \in 1 .. n |-> c[i] - b[i]]
              /\ OverSpread(Ratios(c, b), Iqr(Ratios(c, b)))
  BY SessionOf
<1>2. PICK c \in [1 .. n -> Nat] : \E b \in [1 .. n -> Nat \ {0}] :
              /\ Session(m).rounds = n
              /\ Session(m).diffs = [i \in 1 .. n |-> c[i] - b[i]]
              /\ OverSpread(Ratios(c, b), Iqr(Ratios(c, b)))
  BY <1>1
<1>3. PICK b \in [1 .. n -> Nat \ {0}] :
              /\ Session(m).rounds = n
              /\ Session(m).diffs = [i \in 1 .. n |-> c[i] - b[i]]
              /\ OverSpread(Ratios(c, b), Iqr(Ratios(c, b)))
  BY <1>2
<1> DEFINE diffs == Session(m).diffs
           upper == {i \in 1 .. n : Ratios(c, b)[i] >= Ordered(Ratios(c, b), n \div 4)}
<1>4. diffs \in [1 .. n -> Int] /\ \A i \in 1 .. n : diffs[i] = c[i] - b[i]
  <2>1. \A i \in 1 .. n : c[i] - b[i] \in Int
    OBVIOUS
  <2>2. diffs = [i \in 1 .. n |-> c[i] - b[i]]
    BY <1>3
  <2> HIDE DEF diffs
  <2> QED BY <2>1, <2>2
<1>5. Cardinality(upper) >= n - n \div 4 /\ \A i \in upper : c[i] > b[i]
  <2> HIDE DEF diffs
  <2>1. OverSpread(Ratios(c, b), Iqr(Ratios(c, b)))
    BY <1>3
  <2> QED BY <2>1, UpperRounds
<1> HIDE DEF diffs
<1>6. upper \subseteq WPlus(diffs) /\ WPlus(diffs) \subseteq 1 .. n
  <2>1. ASSUME NEW i \in 1 .. n, c[i] > b[i] PROVE diffs[i] > 0 /\ diffs[i] # 0
    BY <1>4, <2>1
  <2>2. DOMAIN diffs = 1 .. n
    BY <1>4
  <2> QED BY <1>5, <2>1, <2>2 DEF WPlus, NonZero
<1>7. Cardinality(WPlus(diffs)) >= n - n \div 4
  <2>1. Cardinality(upper) <= Cardinality(WPlus(diffs)) /\ Cardinality(upper) \in Nat /\ Cardinality(WPlus(diffs)) \in Nat
    BY <1>6, FewerIndices, IndicesAreFinite
  <2> HIDE DEF upper
  <2> QED BY <1>5, <2>1
<1> QED BY <1>3, <1>4, <1>7, SlowerByRanks DEF diffs

\* What a tick's difference leaves a ratio, in whole numbers.
LEMMA TickBound ==
    ASSUME NEW c \in Nat, NEW b \in Nat, NEW tick \in Nat, NEW ratio \in Nat, NEW q \in Nat, NEW S \in Nat,
           ratio * b <= c * S, c - b <= 2 * tick, q > S, ratio >= q
    PROVE  (q - S) * b <= 2 * (tick * S)
<1>1. c * S <= (b + 2 * tick) * S
  BY Z3
<1>2. (b + 2 * tick) * S = b * S + 2 * (tick * S)
  OBVIOUS
<1>3. q * b <= ratio * b
  OBVIOUS
<1>4. (q - S) * b = q * b - b * S
  OBVIOUS
<1>5. q * b \in Nat /\ ratio * b \in Nat /\ b * S \in Nat /\ c * S \in Nat /\ tick * S \in Nat
  OBVIOUS
<1> QED BY <1>1, <1>2, <1>3, <1>4, <1>5

LEMMA ShorterBound ==
    ASSUME NEW L \in Int, NEW x \in Nat, NEW y \in Nat, NEW W \in Int, L > 0, L * x <= W, L * y > W
    PROVE  x < y
<1> SUFFICES ASSUME y <= x PROVE FALSE
  OBVIOUS
<1>1. L * y <= L * x
  OBVIOUS
<1> QED BY <1>1

\* What the rise is to the quartile, and the quartile to a tick, the rise is to a tick.
GapOf(rise, L, M, w, W) == rise > 0 /\ 1651 * rise < 6000 * L /\ M <= 2 * w /\ L * w <= 2 * W

LEMMA TickGap ==
    ASSUME NEW rise \in Int, NEW L \in Int, NEW M \in Nat, NEW w \in Nat, NEW W \in Nat, GapOf(rise, L, M, w, W)
    PROVE  rise * 1349 * M <= 24000 * W
<1> USE DEF GapOf
<1>1. L > 0
  OBVIOUS
<1>2. rise * M \in Nat /\ L * M \in Nat /\ L * w \in Nat
  BY <1>1
<1>3. 1651 * (rise * M) <= 6000 * (L * M)
  <2>1. (1651 * rise) * M <= (6000 * L) * M
    OBVIOUS
  <2> QED BY <2>1
<1>4. L * M <= 2 * (L * w)
  <2>1. L * M <= L * (2 * w)
    BY <1>1
  <2> QED BY <2>1
<1>5. rise * 1349 * M = 1349 * (rise * M)
  OBVIOUS
<1> QED BY <1>2, <1>3, <1>4, <1>5

\* Where no round is slower by more than a tick, three rounds in four have a
\* reference too short for a tick to be over the limit, and so has its median.
LEMMA OneTickIsWithin ==
    ASSUME NEW n \in Nat \ {0}, NEW c \in [1 .. n -> Nat], NEW b \in [1 .. n -> Nat \ {0}], NEW tick \in Nat,
           OverSpread(Ratios(c, b), Iqr(Ratios(c, b))), \A i \in 1 .. n : c[i] - b[i] <= 2 * tick
    PROVE  ~OverTick(Ratios(c, b), tick, b)
<1> DEFINE r == Ratios(c, b)
           q == Ordered(r, n \div 4)
           upper == {i \in 1 .. n : r[i] >= q}
           low == Ordered(b, (n - 1) \div 2)
           mid == Ordered(b, n \div 2)
<1>1. r \in [1 .. n -> Nat] /\ Len(r) = n /\ Len(b) = n /\ \A i \in 1 .. n : r[i] * b[i] <= c[i] * Scale
  <2>1. \A f \in [1 .. n -> Nat] : Len(f) = n
    OBVIOUS
  <2> QED BY <2>1, RatiosAreNat
<1>2. Cardinality(upper) >= n - n \div 4 /\ q > Scale
  BY UpperRounds
<1>3. OverSpread(r, Iqr(r))
  OBVIOUS
<1> HIDE DEF r
<1>4. q \in Nat /\ Median2(r) \in Nat
  <2>1. \A k \in 0 .. n - 1 : Ordered(r, k) \in Nat
    BY <1>1, OrderedCounts
  <2>2. n \div 4 \in 0 .. n - 1 /\ (n - 1) \div 2 \in 0 .. n - 1 /\ n \div 2 \in 0 .. n - 1
    BY Places
  <2>3. Ordered(r, (n - 1) \div 2) \in Nat /\ Ordered(r, n \div 2) \in Nat /\ q \in Nat
    BY <2>1, <2>2
  <2> DEFINE x == Ordered(r, (n - 1) \div 2)
             y == Ordered(r, n \div 2)
  <2>4. Median2(r) = x + y /\ x \in Nat /\ y \in Nat /\ q \in Nat
    BY <1>1, <2>3 DEF Median2
  <2> HIDE DEF x, y, q
  <2> QED BY <2>4
<1>5. Median2(r) - 2 * Scale > 0 /\ QuartileRises(r, n)
  BY <1>1, <1>3, QuartileIsAbove
<1>6. low \in Nat /\ mid \in Nat /\ low <= mid /\ Median2(b) = low + mid
  <2>1. b \in [1 .. n -> Nat]
    OBVIOUS
  <2>2. low \in Nat /\ mid \in Nat /\ low <= mid
    BY <2>1, Places, OrderedCounts, OrderedGrows
  <2> QED BY <1>1, <2>2 DEF Median2
<1>7. Scale \in Nat
  BY SessionsAssumption
<1>8. 1651 * (Median2(r) - 2 * Scale) < 6000 * (q - Scale)
  BY <1>5 DEF QuartileRises
<1>9. \A i \in upper : (q - Scale) * b[i] <= 2 * (tick * Scale)
  <2>1. ASSUME NEW i \in upper PROVE (q - Scale) * b[i] <= 2 * (tick * Scale)
    <3>1. /\ c[i] \in Nat /\ b[i] \in Nat /\ r[i] \in Nat /\ r[i] >= q
          /\ r[i] * b[i] <= c[i] * Scale /\ c[i] - b[i] <= 2 * tick
      BY <1>1
    <3> HIDE DEF q, upper
    <3> QED BY <1>2, <1>4, <1>7, <3>1, TickBound
  <2> QED BY <2>1
<1> HIDE DEF q
<1>10. (q - Scale) * mid <= 2 * (tick * Scale)
  <2>1. SUFFICES ASSUME (q - Scale) * mid > 2 * (tick * Scale) PROVE FALSE
    BY <1>4, <1>6, <1>7
  <2>2. ASSUME NEW i \in upper PROVE b[i] < mid
    <3>1. b[i] \in Nat /\ q - Scale \in Int /\ q - Scale > 0 /\ tick * Scale \in Nat /\ mid \in Nat
      BY <1>2, <1>4, <1>6, <1>7
    <3>2. (q - Scale) * b[i] <= 2 * (tick * Scale)
      BY <1>9
    <3> DEFINE L == q - Scale
               W == 2 * (tick * Scale)
    <3>3. L \in Int /\ L > 0 /\ W \in Int /\ L * b[i] <= W /\ L * mid > W
      BY <2>1, <3>1, <3>2
    <3> HIDE DEF upper, mid, low, L, W
    <3> QED BY <3>1, <3>3, ShorterBound
  <2>3. upper \subseteq Below(b, mid) /\ Below(b, mid) \subseteq 1 .. n
    BY <2>2 DEF Below
  <2>4. Cardinality(upper) <= Cardinality(Below(b, mid)) /\ Cardinality(upper) \in Nat
    BY <2>3, FewerIndices, IndicesAreFinite
  <2>5. Cardinality(Below(b, mid)) <= n \div 2 /\ Cardinality(Below(b, mid)) \in Nat
    <3>1. b \in [1 .. n -> Nat]
      OBVIOUS
    <3> QED BY <2>3, <3>1, Places, OrderedCounts, IndicesAreFinite
  <2> HIDE DEF upper, mid
  <2> QED BY <1>2, <2>4, <2>5, Places
<1> HIDE DEF low, mid, upper
<1>11. (Median2(r) - 2 * Scale) * 1349 * Median2(b) <= 24000 * (tick * Scale)
  <2> DEFINE rise == Median2(r) - 2 * Scale
             L == q - Scale
             W == tick * Scale
  <2>1. rise \in Int /\ L \in Int /\ Median2(b) \in Nat /\ W \in Nat
    BY <1>4, <1>6, <1>7
  <2>2. Median2(b) <= 2 * mid
    BY <1>6
  <2>3. rise > 0 /\ 1651 * rise < 6000 * L /\ L * mid <= 2 * W
    BY <1>5, <1>8, <1>10
  <2>4. GapOf(rise, L, Median2(b), mid, W)
    BY <2>2, <2>3 DEF GapOf
  <2> HIDE DEF rise, L, W
  <2>5. rise * 1349 * Median2(b) <= 24000 * W
    BY <1>6, <2>1, <2>4, TickGap
  <2> QED BY <2>5 DEF rise, W
<1>12. 24000 * (tick * Scale) = 24000 * Scale * tick
  BY <1>7
<1>13. ~((Median2(r) - 2 * Scale) * 1349 * Median2(b) > 24000 * Scale * tick)
  <2>1. (Median2(r) - 2 * Scale) * 1349 * Median2(b) \in Int /\ 24000 * Scale * tick \in Int
    BY <1>4, <1>6, <1>7
  <2> QED BY <1>11, <1>12, <2>1
<1> QED BY <1>13 DEF OverTick, r

LEMMA SessionIsPastATick ==
    ASSUME NEW m \in Measurements, Paired(m), Resolved(m), Session(m).violation
    PROVE  \E i \in 1 .. Session(m).rounds : Session(m).diffs[i] > 2 * Session(m).tick
<1> DEFINE s == Session(m)
           Fits(n, c, b) == /\ s.rounds = n
                            /\ s.diffs = [i \in 1 .. n |-> c[i] - b[i]]
                            /\ s.tick \in Nat
                            /\ OverSpread(Ratios(c, b), Iqr(Ratios(c, b)))
                            /\ OverTick(Ratios(c, b), s.tick, b)
<1>1. PICK n \in Nat \ {0} : \E c \in [1 .. n -> Nat] : \E b \in [1 .. n -> Nat \ {0}] : Fits(n, c, b)
  BY SessionOf
<1>2. PICK c \in [1 .. n -> Nat] : \E b \in [1 .. n -> Nat \ {0}] : Fits(n, c, b)
  BY <1>1
<1>3. PICK b \in [1 .. n -> Nat \ {0}] : Fits(n, c, b)
  BY <1>2
<1>4. s.tick \in Nat /\ OverSpread(Ratios(c, b), Iqr(Ratios(c, b))) /\ OverTick(Ratios(c, b), s.tick, b)
  BY <1>3
<1>5. s.rounds = n /\ \A i \in 1 .. n : s.diffs[i] = c[i] - b[i]
  BY <1>3
<1> HIDE DEF s, Fits
<1>6. ~\A i \in 1 .. n : c[i] - b[i] <= 2 * s.tick
  BY <1>4, OneTickIsWithin
<1>7. PICK i \in 1 .. n : ~(c[i] - b[i] <= 2 * s.tick)
  BY <1>6
<1>8. s.diffs[i] > 2 * s.tick
  BY <1>4, <1>5, <1>7
<1> QED BY <1>5, <1>8 DEF s

-----------------------------------------------------------------------------
(* How many rounds can decide.                                             *)

LEMMA Powers ==
    ASSUME NEW n \in Nat
    PROVE  2 ^ n \in Nat /\ 2 ^ n >= n /\ \A k \in 0 .. n : 2 ^ k <= 2 ^ n
<1>1. ASSUME NEW k \in Nat
      PROVE  IsFiniteSet(SUBSET (1 .. k)) /\ Cardinality(SUBSET (1 .. k)) = 2 ^ k /\ 2 ^ k \in Nat
  <2>1. IsFiniteSet(1 .. k) /\ Cardinality(1 .. k) = k
    BY FS_Interval
  <2>2. IsFiniteSet(SUBSET (1 .. k)) /\ Cardinality(SUBSET (1 .. k)) = 2 ^ Cardinality(1 .. k)
    BY <2>1, FS_SUBSET
  <2>3. Cardinality(SUBSET (1 .. k)) \in Nat
    BY <2>2, FS_CardinalityType
  <2> QED BY <2>1, <2>2, <2>3
<1>2. 2 ^ n >= n
  <2> DEFINE single == [i \in 1 .. n |-> {i}]
  <2>1. single \in Injection(1 .. n, SUBSET (1 .. n))
    BY DEF Injection, IsInjective
  <2>2. Cardinality(1 .. n) <= Cardinality(SUBSET (1 .. n))
    <3>1. IsFiniteSet(SUBSET (1 .. n)) /\ SUBSET (1 .. n) # {}
      BY <1>1
    <3> HIDE DEF single
    <3> QED BY <2>1, <3>1, FS_Injection
  <2>3. Cardinality(1 .. n) = n
    BY FS_Interval
  <2> QED BY <1>1, <2>2, <2>3
<1>3. ASSUME NEW k \in 0 .. n PROVE 2 ^ k <= 2 ^ n
  <2>1. k \in Nat /\ SUBSET (1 .. k) \in SUBSET SUBSET (1 .. n)
    OBVIOUS
  <2>2. Cardinality(SUBSET (1 .. k)) <= Cardinality(SUBSET (1 .. n))
    BY <1>1, <2>1, FS_Subset
  <2> QED BY <1>1, <2>1, <2>2
<1> QED BY <1>1, <1>2, <1>3

\* That many rounds, every one slower, are significant.
Decides(n) == 2 * AlphaDen <= AlphaNum * 2 ^ n

LEMMA MinRoundsDecides ==
    ASSUME NEW n \in Nat
    PROVE  MinRounds \in Nat /\ (n < MinRounds <=> ~Decides(n))
<1>1. AlphaDen \in Nat /\ AlphaNum \in Nat \ {0} /\ 2 * AlphaDen \in Nat
  BY SessionsAssumption
<1>2. Decides(2 * AlphaDen)
  <2>1. 2 ^ (2 * AlphaDen) \in Nat /\ 2 ^ (2 * AlphaDen) >= 2 * AlphaDen
    BY <1>1, Powers
  <2> DEFINE p == 2 ^ (2 * AlphaDen)
  <2> HIDE DEF p
  <2>2. p \in Nat /\ p >= 2 * AlphaDen
    BY <2>1 DEF p
  <2>3. AlphaNum * p >= p
    BY <1>1, <2>2
  <2>4. 2 * AlphaDen <= AlphaNum * p
    BY <1>1, <2>2, <2>3
  <2> QED BY <2>4 DEF Decides, p
<1>3. ASSUME NEW k \in Nat, NEW l \in Nat, k <= l, Decides(k)
      PROVE  Decides(l)
  <2>1. 2 ^ k \in Nat /\ 2 ^ l \in Nat /\ 2 ^ k <= 2 ^ l
    BY <1>3, Powers
  <2> DEFINE p == 2 ^ k
             q == 2 ^ l
  <2>2. p \in Nat /\ q \in Nat /\ p <= q /\ 2 * AlphaDen <= AlphaNum * p
    BY <1>3, <2>1 DEF Decides
  <2> HIDE DEF p, q
  <2>3. AlphaNum * p <= AlphaNum * q
    BY <1>1, <2>2
  <2>4. 2 * AlphaDen <= AlphaNum * q
    BY <1>1, <2>2, <2>3
  <2> QED BY <2>4 DEF Decides, q
<1>4. PICK least \in 0 .. 2 * AlphaDen : Decides(least) /\ \A m \in 0 .. least - 1 : ~Decides(m)
  <2> DEFINE S == {k \in 0 .. 2 * AlphaDen : Decides(k)}
  <2>1. S \in SUBSET Nat /\ S # {}
    BY <1>1, <1>2
  <2>2. PICK k \in S : \A m \in S : k <= m
    BY <2>1, LeastElement
  <2> QED BY <1>1, <2>2
<1>5. \A m \in 0 .. 2 * AlphaDen : Decides(m) <=> ~(2 * AlphaDen > AlphaNum * 2 ^ m)
  <2>1. ASSUME NEW m \in 0 .. 2 * AlphaDen PROVE Decides(m) <=> ~(2 * AlphaDen > AlphaNum * 2 ^ m)
    <3>1. 2 ^ m \in Nat
      BY <1>1, Powers
    <3> DEFINE p == 2 ^ m
    <3>2. p \in Nat /\ (Decides(m) <=> 2 * AlphaDen <= AlphaNum * p)
      BY <3>1 DEF Decides
    <3> HIDE DEF p
    <3>3. AlphaNum * p \in Nat
      BY <1>1, <3>2
    <3>4. Decides(m) <=> ~(2 * AlphaDen > AlphaNum * p)
      BY <1>1, <3>2, <3>3
    <3> QED BY <3>4 DEF p
  <2> QED BY <2>1
<1> DEFINE Fits(k) == Decides(k) /\ \A m \in 0 .. k - 1 : ~Decides(m)
<1>6. MinRounds = CHOOSE k \in 0 .. 2 * AlphaDen : Fits(k)
  <2>1. ASSUME NEW k \in 0 .. 2 * AlphaDen
        PROVE  Fits(k) <=> /\ 2 * AlphaDen <= AlphaNum * 2 ^ k
                           /\ \A m \in 0 .. k - 1 : 2 * AlphaDen > AlphaNum * 2 ^ m
    <3>1. \A m \in 0 .. k - 1 : m \in 0 .. 2 * AlphaDen
      BY <1>1
    <3> QED BY <1>5, <3>1 DEF Decides
  <2> HIDE DEF Fits
  <2> QED BY <2>1 DEF MinRounds
<1>7. MinRounds \in 0 .. 2 * AlphaDen /\ Fits(MinRounds)
  <2> HIDE DEF Fits
  <2>1. \E k \in 0 .. 2 * AlphaDen : Fits(k)
    BY <1>4 DEF Fits
  <2> QED BY <1>6, <2>1
<1>8. MinRounds \in Nat
  BY <1>1, <1>7
<1> QED BY <1>3, <1>7, <1>8

\* The differences of rounds that are all slower, no two alike.
Ramp(n) == [i \in 1 .. n |-> i]

LEMMA AbsIsNat == ASSUME NEW x \in Int PROVE AbsOf(x) \in Nat /\ (x >= 0 => AbsOf(x) = x) /\ (x <= 0 => AbsOf(x) = -x)
BY DEF AbsOf

\* Only two ways the signs might have fallen are as far from the mean: all one way.
LEMMA OnlyOneWay ==
    ASSUME NEW n \in Nat \ {0}, NEW signs \in SUBSET (1 .. n)
    PROVE  FromMean(Ramp(n), signs) >= FromMean(Ramp(n), 1 .. n) <=> signs \in {{}, 1 .. n}
<1> DEFINE d == Ramp(n)
           N == 1 .. n
           rest == N \ signs
           R(S) == RankSum(d, S)
<1>1. NonZero(d) = N /\ d \in [1 .. n -> Int]
  BY DEF NonZero, Ramp
<1>2. ASSUME NEW S \in SUBSET N
      PROVE  R(S) \in Nat /\ (S # {} => R(S) > 0) /\ R(N) = R(S) + R(N \ S)
  <2>1. S \in SUBSET NonZero(d)
    BY <1>1
  <2>2. R(S) \in Nat /\ R(S) >= Cardinality(S) * Cardinality(S) + Cardinality(S)
    BY <1>1, <2>1, RankSums
  <2>3. R(N) = R(S) + R(N \ S)
    <3>1. RankSum(d, NonZero(d)) = RankSum(d, S) + RankSum(d, NonZero(d) \ S)
      BY <1>1, <2>1, RankSums
    <3> QED BY <1>1, <3>1
  <2>4. IsFiniteSet(S) /\ Cardinality(S) \in Nat
    BY IndicesAreFinite
  <2>5. S # {} => Cardinality(S) > 0
    BY <2>4, FS_EmptySet
  <2>6. Cardinality(S) * Cardinality(S) \in Nat
    BY <2>4
  <2> QED BY <2>2, <2>3, <2>4, <2>5, <2>6
<1>3. R({}) = 0
  <2>1. {} \in SUBSET N /\ N \ {} = N
    OBVIOUS
  <2>2. R({}) \in Nat /\ R(N) \in Nat /\ R(N) = R({}) + R(N)
    BY <1>2, <2>1
  <2> HIDE DEF R
  <2> QED BY <2>2
<1> DEFINE off == 2 * R(signs) - R(N)
           most == 2 * R(N) - R(N)
<1>4. FromMean(d, signs) = AbsOf(off) /\ FromMean(d, N) = AbsOf(most)
  BY <1>1 DEF FromMean
<1>5. /\ R(signs) \in Nat /\ R(rest) \in Nat /\ R(N) \in Nat /\ R(N) = R(signs) + R(rest)
      /\ signs # {} => R(signs) > 0
      /\ rest # {} => R(rest) > 0
      /\ R(N) > 0
  <2>1. signs \in SUBSET N /\ rest \in SUBSET N /\ N \in SUBSET N /\ N # {}
    OBVIOUS
  <2> HIDE DEF N, R
  <2> QED BY <1>2, <2>1 DEF rest
<1>6. signs = {} => R(signs) = 0
  BY <1>3
<1>7. signs = N => R(signs) = R(N)
  OBVIOUS
<1>8. rest = {} => signs = N
  OBVIOUS
<1> HIDE DEF R, rest
<1>9. AbsOf(most) = R(N)
  BY <1>5, AbsIsNat
<1>10. CASE signs = {} \/ signs = N
  <2>1. off = R(N) \/ off = -R(N)
    BY <1>5, <1>6, <1>7, <1>10
  <2>2. AbsOf(off) = R(N)
    <3> HIDE DEF off
    <3> QED BY <1>5, <2>1, AbsIsNat
  <2> HIDE DEF off, most
  <2> QED BY <1>4, <1>5, <1>9, <1>10, <2>2
<1>11. CASE signs # {} /\ signs # N
  <2>1. off \in Int /\ off < R(N) /\ off > -R(N)
    BY <1>5, <1>8, <1>11
  <2> HIDE DEF off, most
  <2>2. AbsOf(off) < R(N) /\ AbsOf(off) \in Nat
    BY <1>5, <2>1 DEF AbsOf
  <2>3. ~(FromMean(d, signs) >= FromMean(d, N))
    BY <1>4, <1>5, <1>9, <2>2
  <2>4. signs \notin {{}, N}
    BY <1>11
  <2> QED BY <2>3, <2>4
<1> QED BY <1>10, <1>11

LEMMA RampDecides ==
    ASSUME NEW n \in Nat \ {0}
    PROVE  Significant(Ramp(n)) <=> Decides(n)
<1> DEFINE d == Ramp(n)
           hits == {signs \in SUBSET NonZero(d) : FromMean(d, signs) >= FromMean(d, WPlus(d))}
<1>1. NonZero(d) = 1 .. n /\ WPlus(d) = 1 .. n
  BY DEF NonZero, WPlus, Ramp
<1>2. hits = {{}, 1 .. n}
  BY <1>1, OnlyOneWay
<1>3. Cardinality(hits) = 2
  <2> DEFINE none == {{}}
             whole == 1 .. n
  <2>1. IsFiniteSet(none) /\ Cardinality(none) = 1
    BY FS_Singleton
  <2>2. hits = none \cup {whole}
    BY <1>2
  <2>3. whole \notin none
    <3>1. 1 \in whole
      OBVIOUS
    <3> QED BY <3>1
  <2> HIDE DEF none, whole, hits
  <2> QED BY <2>1, <2>2, <2>3, FS_AddElement
<1>4. Cardinality(NonZero(d)) = n
  BY <1>1, FS_Interval
<1>5. Significant(d) <=> Cardinality(hits) * AlphaDen <= AlphaNum * 2 ^ Cardinality(NonZero(d))
  BY DEF Significant
<1> HIDE DEF hits, d
<1> QED BY <1>3, <1>4, <1>5 DEF Decides, d

-----------------------------------------------------------------------------
(* The invariant of the verdict.                                           *)

\* What waits to be judged is a session that was measured.
LatestIsMeasured ==
    latest # NoSession =>
        /\ Len(flags) > 0
        /\ \E m \in Measurements : Paired(m) /\ Resolved(m) /\ latest = Session(m)

\* The last session judged, if it was over its limit, was judged so or undecidable.
LastJudged == IF latest = NoSession THEN Len(flags) ELSE Len(flags) - 1

JudgementMatchesFlags ==
    LastJudged > 0 /\ flags[LastJudged] => judged \in {"regression", "flagged_not_confirmed", "insufficient_data"}

VerdictInv == VerdictTypeOK /\ LatestIsMeasured /\ JudgementMatchesFlags

LEMMA VerdictInitInv == VerdictInit => VerdictInv
BY SessionsAssumption DEF VerdictInit, VerdictInv, VerdictTypeOK, LatestIsMeasured, JudgementMatchesFlags, LastJudged, NoSession, Verdicts

LEMMA SessionType ==
    ASSUME NEW m \in Measurements, Paired(m), Resolved(m)
    PROVE  /\ Session(m).rounds \in Nat \ {0} /\ Session(m) # NoSession
           /\ Session(m).diffs \in [1 .. Session(m).rounds -> Int]
           /\ Session(m).violation \in BOOLEAN
<1> DEFINE s == Session(m)
<1>1. PICK n \in Nat \ {0} : \E c \in [1 .. n -> Nat] : \E b \in [1 .. n -> Nat \ {0}] :
              s.rounds = n /\ s.diffs = [i \in 1 .. n |-> c[i] - b[i]] /\ s.violation \in BOOLEAN
  BY SessionOf
<1>2. PICK c \in [1 .. n -> Nat] : \E b \in [1 .. n -> Nat \ {0}] :
              s.rounds = n /\ s.diffs = [i \in 1 .. n |-> c[i] - b[i]] /\ s.violation \in BOOLEAN
  BY <1>1
<1>3. PICK b \in [1 .. n -> Nat \ {0}] :
              s.rounds = n /\ s.diffs = [i \in 1 .. n |-> c[i] - b[i]] /\ s.violation \in BOOLEAN
  BY <1>2
<1> HIDE DEF s
<1>4. s.diffs \in [1 .. n -> Int]
  BY <1>3
<1>5. s # NoSession
  BY <1>3 DEF NoSession
<1> QED BY <1>3, <1>4, <1>5 DEF s

LEMMA MeasureKeeps ==
    ASSUME VerdictInv, NEW m \in Measurements, Measure(m)
    PROVE  VerdictInv'
<1>1. CASE Paired(m) /\ Resolved(m)
  <2> DEFINE s == Session(m)
  <2>1. /\ latest = NoSession /\ latest' = s /\ flags' = Append(flags, s.violation) /\ judged' = judged
        /\ Len(flags) < MaxSessions /\ flags \in Seq(BOOLEAN) /\ judged \in Verdicts
    BY <1>1 DEF Measure, VerdictInv, VerdictTypeOK
  <2>2. /\ s.rounds \in Nat \ {0} /\ s # NoSession /\ s.diffs \in [1 .. s.rounds -> Int] /\ s.violation \in BOOLEAN
    BY <1>1, SessionType
  <2>3. \E o \in Measurements : Paired(o) /\ Resolved(o) /\ s = Session(o)
    BY <1>1
  <2> HIDE DEF s
  <2>4. /\ flags' \in Seq(BOOLEAN) /\ Len(flags') = Len(flags) + 1 /\ flags'[Len(flags')] = s.violation
        /\ \A i \in 1 .. Len(flags) : flags'[i] = flags[i]
    BY <2>1, <2>2
  <2>5. Len(flags') <= MaxSessions
    BY <2>1, <2>4, SessionsAssumption
  <2>6. VerdictTypeOK'
    BY <2>1, <2>2, <2>4, <2>5 DEF VerdictTypeOK
  <2>7. LatestIsMeasured'
    <3>1. Len(flags') > 0
      BY <2>1, <2>4
    <3> QED BY <2>1, <2>3, <3>1 DEF LatestIsMeasured
  <2>8. JudgementMatchesFlags'
    <3>1. LastJudged' = Len(flags) /\ LastJudged = Len(flags) /\ Len(flags) \in Nat
      BY <2>1, <2>2, <2>4 DEF LastJudged
    <3> QED BY <2>1, <2>4, <3>1 DEF VerdictInv, JudgementMatchesFlags
  <2> QED BY <2>6, <2>7, <2>8 DEF VerdictInv
<1>2. CASE ~(Paired(m) /\ Resolved(m))
  <2>1. flags' = flags /\ latest' = latest /\ judged' = judged
    BY <1>2 DEF Measure
  <2> QED BY <2>1 DEF VerdictInv, VerdictTypeOK, LatestIsMeasured, JudgementMatchesFlags, LastJudged
<1> QED BY <1>1, <1>2

\* A session over its limit is never judged free of it.
LEMMA FlaggedIsSaid ==
    ASSUME NEW s, NEW fs, s.rounds \in Nat
    PROVE  /\ Classify(s, fs) \in Verdicts
           /\ s.violation => Classify(s, fs) \in {"regression", "flagged_not_confirmed", "insufficient_data"}
           /\ Classify(s, fs) = "insufficient_data" <=> s.rounds < MinRounds
           /\ Classify(s, fs) = "regression" => s.violation /\ Persistence(fs) = "regression"
<1>1. MinRounds \in Nat
  BY MinRoundsDecides
<1> QED BY <1>1 DEF Classify, Verdicts

LEMMA JudgeKeeps ==
    ASSUME VerdictInv, Judge
    PROVE  VerdictInv'
<1>1. /\ latest # NoSession /\ latest' = NoSession /\ flags' = flags /\ judged' = Classify(latest, flags)
      /\ latest.rounds \in Nat /\ latest.violation = flags[Len(flags)] /\ Len(flags) > 0
  BY DEF Judge, VerdictInv, VerdictTypeOK, LatestIsMeasured
<1>2. judged' \in Verdicts /\ (latest.violation => judged' \in {"regression", "flagged_not_confirmed", "insufficient_data"})
  BY <1>1, FlaggedIsSaid
<1>3. latest'.rounds = 0
  BY <1>1 DEF NoSession
<1> QED BY <1>1, <1>2, <1>3 DEF VerdictInv, VerdictTypeOK, LatestIsMeasured, JudgementMatchesFlags, LastJudged

LEMMA VerdictStepInv == VerdictInv /\ [VerdictNext]_verdictVars => VerdictInv'
<1> SUFFICES ASSUME VerdictInv, [VerdictNext]_verdictVars PROVE VerdictInv'
  OBVIOUS
<1>1. CASE VerdictNext
  BY <1>1, MeasureKeeps, JudgeKeeps DEF VerdictNext
<1>2. CASE UNCHANGED verdictVars
  BY <1>2 DEF verdictVars, VerdictInv, VerdictTypeOK, LatestIsMeasured, JudgementMatchesFlags, LastJudged
<1> QED BY <1>1, <1>2

LEMMA VerdictInvHolds == VerdictSpec => []VerdictInv
BY VerdictInitInv, VerdictStepInv, PTL DEF VerdictSpec

\* Whatever is measured, flags, sessions and judgements are what the verdict is read from.
THEOREM VerdictTypeCorrect == VerdictSpec => []VerdictTypeOK
BY VerdictInvHolds, PTL DEF VerdictInv

\* Whatever is measured: a session over its limit has a slower round, its candidate's
\* rounds outrank the reference's, and it rests on enough rounds to say so.
THEOREM ViolationsAreSlower == VerdictSpec => []ViolationIsSlower
<1>1. VerdictInv => ViolationIsSlower
  BY SessionIsSlower DEF VerdictInv, LatestIsMeasured, ViolationIsSlower
<1> QED BY <1>1, VerdictInvHolds, PTL

\* Whatever is measured: rounds no further apart than one tick of the clock never make a violation.
THEOREM OneTickIsNeverAViolation == VerdictSpec => []OneTickIsNoViolation
<1>1. VerdictInv => OneTickIsNoViolation
  BY SessionIsPastATick DEF VerdictInv, LatestIsMeasured, OneTickIsNoViolation
<1> QED BY <1>1, VerdictInvHolds, PTL

\* For any level and rounds: a session is judged insufficient exactly when as many rounds,
\* every one slower, could not be significant.
THEOREM UndecidableIsAlwaysSaid == VerdictSpec => UndecidableIsSaid
<1>1. VerdictInv /\ [VerdictNext]_verdictVars =>
        [latest # NoSession /\ latest' = NoSession =>
            (judged' = "insufficient_data" <=> ~Significant([i \in 1 .. latest.rounds |-> i]))]_verdictVars
  <2> SUFFICES ASSUME VerdictInv, VerdictNext, latest # NoSession, latest' = NoSession
               PROVE  judged' = "insufficient_data" <=> ~Significant([i \in 1 .. latest.rounds |-> i])
    OBVIOUS
  <2>1. judged' = Classify(latest, flags)
    BY DEF VerdictNext, Measure, Judge
  <2>2. PICK m \in Measurements : Paired(m) /\ Resolved(m) /\ latest = Session(m)
    BY DEF VerdictInv, LatestIsMeasured
  <2>3. latest.rounds \in Nat \ {0}
    BY <2>2, SessionType
  <2>4. Significant(Ramp(latest.rounds)) <=> ~(latest.rounds < MinRounds)
    BY <2>3, RampDecides, MinRoundsDecides
  <2> QED BY <2>1, <2>3, <2>4, FlaggedIsSaid DEF Ramp
<1> QED BY <1>1, VerdictInvHolds, PTL DEF VerdictSpec, UndecidableIsSaid

\* A trailing run of two ends in two sessions over their limit.
LEMMA TrailingTwo ==
    ASSUME NEW fs \in Seq(BOOLEAN), Persistence(fs) = "regression"
    PROVE  Len(fs) >= 2 /\ fs[Len(fs) - 1]
<1>1. Len(fs) >= 2 /\ TrailingRun(fs) >= 2
  BY DEF Persistence
<1> DEFINE n == Len(fs)
           within == {0} \union {i \in DOMAIN fs : ~fs[i]}
<1>2. n \in Nat /\ DOMAIN fs = 1 .. n
  OBVIOUS
<1>3. within \in SUBSET (0 .. n) /\ 0 \in within
  BY <1>2
<1>4. \E x \in within : \A y \in within : x >= y
  <2> DEFINE from == {n - x : x \in within}
  <2>1. from \in SUBSET Nat /\ from # {}
    BY <1>2, <1>3
  <2>2. PICK l \in from : \A k \in from : l <= k
    BY <2>1, LeastElement
  <2>3. PICK x \in within : l = n - x
    BY <2>2
  <2>4. \A y \in within : n - x <= n - y
    BY <2>2, <2>3
  <2> QED BY <1>2, <1>3, <2>3, <2>4
<1>5. Max(within) \in within /\ \A y \in within : Max(within) >= y
  <2> HIDE DEF within
  <2> QED BY <1>4 DEF Max
<1>6. TrailingRun(fs) = n - Max(within)
  BY DEF TrailingRun
<1>7. n >= 2 /\ n - Max(within) >= 2
  BY <1>1, <1>6
<1>8. n - 1 \notin within
  <2> HIDE DEF within, n
  <2>1. Max(within) \in 0 .. n
    BY <1>3, <1>5
  <2>2. n - 1 \in within => Max(within) >= n - 1
    BY <1>5
  <2> QED BY <1>2, <1>7, <2>1, <2>2
<1> QED BY <1>2, <1>7, <1>8

\* A regression follows a judgement of a session over its limit, of however many sessions.
THEOREM NoRegressionIsSudden == VerdictSpec => NoSuddenRegression
<1>1. VerdictInv /\ [VerdictNext]_verdictVars =>
        [judged' = "regression" => judged \in {"regression", "flagged_not_confirmed", "insufficient_data"}]_verdictVars
  <2> SUFFICES ASSUME VerdictInv, VerdictNext, judged' = "regression"
               PROVE  judged \in {"regression", "flagged_not_confirmed", "insufficient_data"}
    OBVIOUS
  <2>1. CASE \E m \in Measurements : Measure(m)
    BY <2>1 DEF Measure
  <2>2. CASE Judge
    <3>1. latest # NoSession /\ latest.rounds \in Nat /\ flags \in Seq(BOOLEAN) /\ Classify(latest, flags) = "regression"
      BY <2>2 DEF Judge, VerdictInv, VerdictTypeOK
    <3>2. Len(flags) >= 2 /\ flags[Len(flags) - 1]
      BY <3>1, FlaggedIsSaid, TrailingTwo
    <3>3. LastJudged > 0 /\ flags[LastJudged]
      BY <3>1, <3>2 DEF LastJudged
    <3> QED BY <3>3 DEF VerdictInv, JudgementMatchesFlags
  <2> QED BY <2>1, <2>2 DEF VerdictNext
<1> QED BY <1>1, VerdictInvHolds, PTL DEF VerdictSpec, NoSuddenRegression

-----------------------------------------------------------------------------
(* The three together.                                                     *)

\* A behaviour of the gates is one of each of them, so what each keeps they keep.
THEOREM GatesAreThree == GatesSpec => CellSpec /\ DiffSpec /\ VerdictSpec
<1>1. GatesInit => CellInit /\ DiffInit /\ VerdictInit
  BY DEF GatesInit
<1>2. [GatesNext]_<<gate, cellVars, diffVars, verdictVars>> =>
          [CellNext]_cellVars /\ [DiffNext]_diffVars /\ [VerdictNext]_verdictVars
  BY DEF GatesNext
<1> QED BY <1>1, <1>2, PTL DEF GatesSpec, CellSpec, DiffSpec, VerdictSpec
=============================================================================
