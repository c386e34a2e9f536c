----------------------------- MODULE CarryCell ------------------------------
(***************************************************************************)
(* rola_devtools/cells/carry.py and regimes.py: a carry cell is declared,  *)
(* drawn plane by plane, and proven to sit in its declared regime before   *)
(* any reader sees it.                                                     *)
(*                                                                         *)
(* A plane is one side's amplitudes at one level: of every token and head, *)
(* the row of the digits that are live, or NaNRow where no digit was left  *)
(* to normalise by.  What the amplitudes measure beyond their support (the *)
(* coherence ratio, the concentration) is a band, chosen freely within     *)
(* what the support allows.  One sequence is drawn (B = 1).                *)
(***************************************************************************)
EXTENDS Integers, Sequences, FiniteSets, FiniteSetsExt

CONSTANTS
    Records,        \* the records a registry may hold
    Window,         \* WINDOW
    DepositToken    \* DEPOSIT_TOKEN

VARIABLES
    declared,       \* the record declared, or NoCell
    read, write,    \* the planes drawn so far, level by level
    stage           \* "none", "refused" (carry_cell), "drawing", "raised", "unproven" (prove), "seen"

cellVars == <<declared, read, write, stage>>

NoCell == [draw |-> "none"]

\* support is in eighths; k_tok and cohort are 0 where a record has None.
ASSUME RecordsAssumption ==
    /\ \A r \in Records :
          /\ r.widths \in Seq(Nat \ {0}) /\ r.widths # <<>>
          /\ r.tokens \in Nat \ {0} /\ r.support \in 0 .. 8
          /\ r.k_tok \in Nat /\ r.cohort \in Nat
          /\ r.group \in Int /\ r.heads \in Int
    /\ Window \in Nat \ {0}

-----------------------------------------------------------------------------
(* carry_cell: the declaration.                                            *)

Degenerate == {"dead", "deposit"}
Alternating == {"alt", "cohort"}
FirstLevel == {"both", "read", "write"}
Counted == Alternating \cup FirstLevel \cup {"tied"}
Draws == Degenerate \cup Counted \cup {"dense", "anti", "cold", "readonly", "concentrated", "onehot", "flip"}

RegimeAxes ==
    [density |-> {"dense", "sparse"}, coherence |-> {"iid", "coherent"},
     rw_correlation |-> {"tied", "independent", "anti"}, mass |-> {"spread", "concentrated", "cold_read"},
     tail |-> {"divisible", "ragged"}, support |-> {"singleton", "partial", "full"}]

NoRegime == <<>>

Accepted(r) ==
    /\ (r.draw \in Degenerate) = (r.regime = NoRegime)
    /\ r.regime # NoRegime => /\ DOMAIN r.regime = DOMAIN RegimeAxes
                              /\ \A axis \in DOMAIN r.regime : r.regime[axis] \in RegimeAxes[axis]
    /\ r.draw \in Draws
    /\ r.state \in {"none", "fresh", "carried"}
    /\ r.group >= 1
    /\ r.group > 1 => r.draw \in {"dense", "alt", "both", "cohort"}
    /\ r.heads >= 1
    /\ (r.draw = "cohort") = (r.cohort # 0)
    /\ (r.draw \in Counted) = (r.k_tok # 0)

D == Len(declared.widths)

\* declared_sparsity: the sides a kernel may skip on, level by level (levels count from 0).
DeclaredSparse(side, level) ==
    CASE declared.draw \in FirstLevel  -> level = 0 /\ declared.draw \in {"both", side}
      [] declared.draw \in Alternating -> (side = "read") = (level % 2 = 1)
      [] OTHER                     -> FALSE

-----------------------------------------------------------------------------
(* The draws: the planes a call may return.                                *)

Digits(width) == 0 .. width - 1

NaNMark == -1
NaNRow(width) == Digits(width) \cup {NaNMark}

\* x / x.sum(-1): a row with nothing live divides zero by zero.
Normalised(row, width) == IF row = {} THEN NaNRow(width) ELSE row

\* Which digits read as nonzero: every one of a NaN row.
Live(row) == row \ {NaNMark}

At(heads) == (0 .. declared.tokens - 1) \X (0 .. heads - 1)

Fixed(heads, row, width) == {[at \in At(heads) |-> Normalised(row, width)]}

LiveDigits(width) == Max({1, (width * declared.support) \div 8})

\* Of a row, the digits kept of those before `live`.
Simplex(heads, width, k, live) ==
    [At(heads) -> {Normalised({d \in kept : d < live}, width) :
                      kept \in IF k # 0 /\ k < width THEN kSubset(k, Digits(width)) ELSE {Digits(width)}}]

Labellings(width) == {f \in [Digits(width) -> Digits(width)] : \A i, j \in Digits(width) : f[i] = f[j] => i = j}

Clustered(heads, width, k) ==
    {[at \in At(heads) |-> {labels[(starts[at[1] \div declared.cohort] + i) % width] : i \in 0 .. k - 1}] :
        labels \in Labellings(width), starts \in [0 .. declared.tokens \div declared.cohort - 1 -> Digits(width)]}

Half(width, second) == IF second THEN (width \div 2) .. width - 1 ELSE 0 .. (width \div 2) - 1

OneHot(heads, width) == [At(heads) -> {{d} : d \in Digits(width)}]

Dense(heads, width) == Fixed(heads, Digits(width), width)

OddWindow(token) == (token \div Window) % 2 = 1

\* _corner's own planes at a level; its simplex draws are of the whole level whatever `support` is.
Corner(side, level, width) ==
    LET heads == declared.heads IN
    CASE declared.draw = "tied" /\ side = "read" -> Simplex(heads, width, declared.k_tok, width)
      [] declared.draw = "tied" /\ side = "write" -> {read[level + 1]}
      [] declared.draw = "onehot" -> OneHot(heads, width)
      [] declared.draw = "anti" /\ level = 0 -> Fixed(heads, Half(width, side = "write"), width)
      [] declared.draw = "cold" /\ level = 0 /\ side = "write" -> Fixed(heads, 0 .. LiveDigits(width) - 1, width)
      [] declared.draw = "readonly" /\ side = "write" -> Fixed(heads, {0}, width)
      [] declared.draw = "flip" /\ level = 0 /\ side = "write" ->
            {[at \in At(heads) |-> Normalised(Half(width, OddWindow(at[1])), width)]}
      [] OTHER -> Dense(heads, width)

DegeneratePlane(side) ==
    {[at \in At(declared.heads) |-> IF declared.draw = "deposit" /\ side = "write" /\ at[1] = DepositToken THEN {0} ELSE {}]}

\* The k_tok realize gives a plane, or 0: THE ALTERNATION, and the draws that are sparse at level zero alone.
CountAtSwapped(side, level) ==
    IF \/ declared.draw \in Alternating /\ (side = "read") = (level % 2 = 0)
       \/ declared.draw \in FirstLevel /\ level = 0 /\ declared.draw \in {"both", side}
    THEN declared.k_tok ELSE 0

CountAt(side, level) ==
    IF \/ declared.draw \in Alternating /\ (side = "read") = (level % 2 = 1)
       \/ declared.draw \in FirstLevel /\ level = 0 /\ declared.draw \in {"both", side}
    THEN declared.k_tok ELSE 0

Sampled(side, level, width) ==
    LET heads == IF side = "read" THEN declared.heads * declared.group ELSE declared.heads
        k == CountAt(side, level)
    IN  IF declared.draw = "cohort" /\ k # 0 /\ k < width THEN Clustered(heads, width, k)
        ELSE Simplex(heads, width, k, LiveDigits(width))

Planes(side, level) ==
    LET width == declared.widths[level + 1] IN
    CASE declared.draw \in Degenerate -> DegeneratePlane(side)
      [] declared.draw \in Alternating \cup FirstLevel \cup {"dense"} -> Sampled(side, level, width)
      [] OTHER -> Corner(side, level, width)

\* A deposit of a token the cell does not have, or cohorts that do not fill the tokens, cannot be drawn.
CannotDraw(side, level) ==
    \/ declared.draw = "deposit" /\ side = "write" /\ declared.tokens <= DepositToken
    \/ /\ declared.draw = "cohort"
       /\ CountAt(side, level) \in 1 .. declared.widths[level + 1] - 1
       /\ declared.tokens % declared.cohort # 0

-----------------------------------------------------------------------------
(* regimes.check: what the drawn planes demonstrate.                       *)

Levels == 1 .. D

Rows(side) == UNION {{<<level, side[level][at]>> : at \in DOMAIN side[level]} : level \in Levels}

HasNaN(side) == \E row \in Rows(side) : NaNMark \in row[2]

\* How many digits of a row are live, and how many it has.
Counts(side) == {<<Cardinality(Live(row[2])), declared.widths[row[1]]>> : row \in Rows(side)}

\* The write head a query head meets: each one's queries are consecutive.
WriteHeadRepeated(q) == q % declared.heads

WriteHead(q) == q \div declared.group

TokenOverlap ==
    \E t \in 0 .. declared.tokens - 1, q \in 0 .. declared.heads * declared.group - 1 :
        \A level \in Levels : Live(read[level][<<t, q>>]) \cap Live(write[level][<<t, WriteHead(q)>>]) # {}

\* Some digit is read at a level where no token of the sequence writes it.
ColdRead ==
    \E level \in Levels :
        (UNION {Live(read[level][at]) : at \in DOMAIN read[level]})
            \ (UNION {Live(write[level][at]) : at \in DOMAIN write[level]}) # {}

\* coherence: a side whose values never change, or cannot be averaged, reads as persistent.
NeverChanges(side) ==
    \/ declared.tokens = 1
    \/ \A level \in Levels : \A at \in DOMAIN side[level] :
          Cardinality(side[level][at]) = 1 /\ side[level][at] = side[level][<<0, at[2]>>]

CoherenceBands ==
    IF \E side \in {read, write} : NeverChanges(side) \/ HasNaN(side)
    THEN {"coherent"} ELSE {"iid", "between", "coherent"}

\* concentration: 1 where every row has one digit, no number where a row is NaN or a level has one digit only.
MassBands ==
    IF HasNaN(read) \/ HasNaN(write) \/ 1 \in {declared.widths[level] : level \in Levels} THEN {"nan"}
    ELSE IF declared.draw = "concentrated" \/ \A row \in Rows(read) \cup Rows(write) : Cardinality(row[2]) = 1
    THEN {"concentrated"} ELSE {"spread", "between", "concentrated"}

\* Amplitudes drawn apart are equal only where both are one digit's 1.0; a NaN equals nothing.
Tied == /\ read = write /\ ~HasNaN(read)
        /\ declared.draw = "tied" \/ \A n \in Counts(read) : n[1] <= 1

CheckCorrelation(value) ==
    CASE value = "tied" -> Tied
      [] value = "independent" -> ~Tied /\ TokenOverlap
      [] value = "anti" -> ~TokenOverlap

CheckSupport(value) ==
    CASE value = "singleton" -> \E side \in {read, write} : \A n \in Counts(side) : n[1] = 1
      [] value = "partial" -> \E n \in Counts(read) \cup Counts(write) : n[1] > 1 /\ n[1] < n[2]
      [] value = "full" -> \A n \in Counts(read) \cup Counts(write) : n[1] = n[2]

HasZeros == \E row \in Rows(read) \cup Rows(write) : Live(row[2]) # Digits(declared.widths[row[1]])

Check(axis, value, bands) ==
    CASE axis = "density" -> (value = "sparse") = HasZeros
      [] axis = "coherence" -> bands.coherence = value
      [] axis = "rw_correlation" -> CheckCorrelation(value)
      [] axis = "mass" -> IF value = "cold_read" THEN ColdRead /\ declared.state = "carried" ELSE bands.mass = value
      [] axis = "tail" -> (value = "ragged") = (declared.tokens % Window # 0)
      [] axis = "support" -> CheckSupport(value)

-----------------------------------------------------------------------------

CellTypeOK ==
    /\ stage \in {"none", "refused", "drawing", "raised", "unproven", "seen"}
    /\ declared \in Records \cup {NoCell}
    /\ stage \notin {"none", "refused"} => declared # NoCell /\ Len(read) <= D /\ Len(write) <= D

CellInit == declared = NoCell /\ read = <<>> /\ write = <<>> /\ stage = "none"

DeclareCell(r) ==
    /\ stage = "none"
    /\ IF Accepted(r) THEN declared' = r /\ stage' = "drawing" ELSE declared' = NoCell /\ stage' = "refused"
    /\ UNCHANGED <<read, write>>

\* Every level of the read side, then every level of the write side.
DrawPlane ==
    /\ stage = "drawing"
    /\ Len(write) < D
    /\ LET side == IF Len(read) < D THEN "read" ELSE "write"
           level == IF Len(read) < D THEN Len(read) ELSE Len(write)
       IN  IF CannotDraw(side, level)
           THEN stage' = "raised" /\ UNCHANGED <<read, write>>
           ELSE /\ \E plane \in Planes(side, level) :
                      IF side = "read" THEN read' = Append(read, plane) /\ UNCHANGED write
                                       ELSE write' = Append(write, plane) /\ UNCHANGED read
                /\ UNCHANGED stage
    /\ UNCHANGED declared

Prove ==
    /\ stage = "drawing"
    /\ Len(write) = D
    /\ \E coherence \in CoherenceBands, mass \in MassBands :
          stage' = IF declared.regime = NoRegime \/ \A axis \in DOMAIN declared.regime :
                        Check(axis, declared.regime[axis], [coherence |-> coherence, mass |-> mass])
                   THEN "seen" ELSE "unproven"
    /\ UNCHANGED <<declared, read, write>>

CellNext == (\E r \in Records : DeclareCell(r)) \/ DrawPlane \/ Prove

CellSpec == CellInit /\ [][CellNext]_cellVars

-----------------------------------------------------------------------------
(* Properties.  A leaf is a digit at every level; the checks above read    *)
(* levels only, these read leaves.                                         *)

Leaves(side, at) ==
    {leaf \in [Levels -> UNION {Digits(declared.widths[level]) : level \in Levels}] :
        \A level \in Levels : leaf[level] \in Live(side[level][at])}

Tokens == 0 .. declared.tokens - 1
WriteHeads == 0 .. declared.heads - 1
Queries(h) == h * declared.group .. h * declared.group + declared.group - 1

Written == UNION {Leaves(write, <<t, h>>) : t \in Tokens, h \in WriteHeads}
ReadLeaves == UNION {UNION {Leaves(read, <<t, q>>) : t \in Tokens, q \in Queries(h)} : h \in WriteHeads}

\* Some query head, at some token, reads a leaf its own write head writes there.
SomeLeafIsReadAsWritten ==
    \E t \in Tokens, h \in WriteHeads : \E q \in Queries(h) : Leaves(read, <<t, q>>) \cap Leaves(write, <<t, h>>) # {}

OneLeafEach(side) == \A at \in DOMAIN side[1] : Cardinality(Leaves(side, at)) = 1

\* What a seen cell declares of its leaves is so of the leaves, though the proof
\* "reads the per-level amplitudes and never a leaf product": which query meets
\* which write head, disjoint and cold reads, singletons and full supports.
RegimeHoldsAtTheLeaves ==
    stage = "seen" /\ declared.regime # NoRegime =>
        /\ declared.regime.rw_correlation = "tied" => \A at \in DOMAIN read[1] : Leaves(read, at) = Leaves(write, at)
        /\ declared.regime.rw_correlation = "independent" => SomeLeafIsReadAsWritten
        /\ declared.regime.rw_correlation = "anti" => ~SomeLeafIsReadAsWritten
        /\ declared.regime.mass = "cold_read" => ReadLeaves \ Written # {}
        /\ declared.regime.support = "singleton" => OneLeafEach(read) \/ OneLeafEach(write)
        /\ declared.regime.support = "full" => \A t, u \in Tokens, h \in WriteHeads :
                \A q \in Queries(h) : Leaves(read, <<t, q>>) = Leaves(write, <<u, h>>)

\* A seen draw sits where it is named for.  A level declared sparse carries
\* exactly k_tok digits a row, on the side declared, so a kernel may skip on it
\* (of draws that thin at all: a k_tok short of the width, no truncation); every
\* leaf anti reads is cold; cold and readonly leave the other leaves unwritten;
\* and flip changes which leaves are written exactly at a window line.
DrawsAreWhereTheySay ==
    stage = "seen" =>
        /\ declared.support = 8 =>
              \A level \in Levels : declared.k_tok < declared.widths[level] =>
                  /\ DeclaredSparse("read", level - 1) =>
                        \A at \in DOMAIN read[level] : Cardinality(read[level][at]) = declared.k_tok
                  /\ DeclaredSparse("write", level - 1) =>
                        \A at \in DOMAIN write[level] : Cardinality(write[level][at]) = declared.k_tok
        /\ declared.draw = "anti" => ReadLeaves \cap Written = {}
        /\ declared.draw = "cold" => \A leaf \in Written : leaf[1] < LiveDigits(declared.widths[1])
        /\ declared.draw = "readonly" => Written = {[level \in Levels |-> 0]}
        /\ declared.draw = "flip" => \A t \in Tokens \ {0}, h \in WriteHeads :
                t % Window = 0 <=> Leaves(write, <<t, h>>) \cap Leaves(write, <<t - 1, h>>) = {}
=============================================================================
