-------------------------------- MODULE Diff --------------------------------
(***************************************************************************)
(* rola_devtools/diff: a diff target compares what two side targets        *)
(* produced over their cells, under one strategy, and says whether its     *)
(* claim held.                                                             *)
(*                                                                         *)
(* A side is a function it runs and the library it binds; what that        *)
(* function makes of a cell is the environment's choice: it raises, it     *)
(* returns nothing to compare, or it returns named tensors.                *)
(***************************************************************************)
EXTENDS Strategies, FiniteSets, Functions

CONSTANTS
    Claims,     \* the diffs that may be declared, each with its two sides
    Results     \* what a side's function may make of a cell

Sides == {"left", "right"}

VARIABLES
    claim,      \* the diff and its sides, or NoClaim
    made,       \* by side: its state, and what it made of each of its cells
    verdict     \* "none", "refused" (at declaration), "raised", "held", "failed" (recorded)

diffVars == <<claim, made, verdict>>

NoClaim == <<>>

-----------------------------------------------------------------------------
(* Declaration and the sides.                                              *)

Declarable(c) ==
    /\ c.expect \in {"same", "different"}
    /\ c.on_difference \in {"fail", "record"}
    /\ c.minimum >= 1

\* _binding: a side that binds a library must have imported its own checkout's.
ImportsAnother(side) == claim[side].binds /\ claim[side].imported # claim[side].checkout

\* produce over every cell, under the binding's guard; a result that is no
\* dict of tensors is the side's failure, a raise is its cell's alone.
Produced(side, results) ==
    IF ImportsAnother(side) \/ \E cell \in DOMAIN results : results[cell].status = "nothing"
    THEN [state |-> "raised", cells |-> <<>>]
    ELSE [state |-> "done", cells |-> results]

-----------------------------------------------------------------------------
(* The comparison (compare).                                               *)

Made(side, cell) == cell \in DOMAIN made[side].cells

Ok(side, cell) == Made(side, cell) /\ made[side].cells[cell].status = "ok"

Tensors(side, cell) == made[side].cells[cell].tensors

\* One function of one file, on both sides: whatever they agreed on is nothing.
RanOneTree ==
    /\ claim.left.binds /\ claim.right.binds
    /\ claim.left.checkout = claim.right.checkout
    /\ claim.left.library = claim.right.library
    /\ claim.left.executor = claim.right.executor

Listed == DOMAIN made.left.cells \cup DOMAIN made.right.cells

RefusedCells == {cell \in Listed : \A side \in Sides : Made(side, cell) /\ ~Ok(side, cell)}

OneDraw(cell) == claim.left.draw = claim.right.draw

Usable(cell) == Ok("left", cell) /\ Ok("right", cell) /\ OneDraw(cell)

UnusableIfOneSideIs == {cell \in Listed : ~Usable(cell) /\ \E side \in Sides : Ok(side, cell)}

Unusable == {cell \in Listed : ~Usable(cell)} \ RefusedCells

Compared == {cell \in Listed : Usable(cell)}

\* The parameters of the diff, but for what per_quantity gives of its own.
RuleOf(q) ==
    LET own == IF q \in DOMAIN claim.per_quantity THEN claim.per_quantity[q] ELSE <<>>
    IN  [field \in DOMAIN claim.rule \cup DOMAIN own |-> IF field \in DOMAIN own THEN own[field] ELSE claim.rule[field]]

\* Bounds the reference side supplies, never compared themselves.
EnvelopeNames == {claim.rule.envelope_from} \cup {RuleOf(q).envelope_from : q \in DOMAIN claim.per_quantity}

Names(cell) == (DOMAIN Tensors("left", cell) \cup DOMAIN Tensors("right", cell)) \ EnvelopeNames

OnBoth(cell, q) == q \in DOMAIN Tensors("left", cell) /\ q \in DOMAIN Tensors("right", cell)

NoEnvelope(cell, q) == RuleOf(q).envelope_from # "none" /\ RuleOf(q).envelope_from \notin DOMAIN Tensors("right", cell)

EnvelopeOf(cell, q) == IF RuleOf(q).envelope_from = "none" THEN <<>> ELSE Tensors("right", cell)[RuleOf(q).envelope_from]

CannotJudge(cell, q) ==
    OnBoth(cell, q) /\ \/ NoEnvelope(cell, q)
                       \/ Raises(claim.strategy, Tensors("left", cell)[q], Tensors("right", cell)[q], RuleOf(q), EnvelopeOf(cell, q))

\* A quantity only one side produced is a difference.
SameQuantity(cell, q) ==
    OnBoth(cell, q) /\ Same(claim.strategy, Tensors("left", cell)[q], Tensors("right", cell)[q], RuleOf(q), EnvelopeOf(cell, q))

Differing == {cell \in Compared : \E q \in Names(cell) : ~SameQuantity(cell, q)}

Total(count) == FoldFunction(LAMBDA n, sum : n + sum, 0, count)

Quantities == Total([cell \in Compared |-> Cardinality(Names(cell))])

Held ==
    /\ IF claim.expect = "same" THEN Differing = {} ELSE Differing # {}
    /\ Unusable = {}
    /\ Quantities >= claim.minimum

CompareRaises == RanOneTree \/ \E cell \in Compared : \E q \in Names(cell) : CannotJudge(cell, q)

-----------------------------------------------------------------------------

DiffTypeOK ==
    /\ claim \in Claims \cup {NoClaim}
    /\ \A side \in Sides : made[side].state = "done" => DOMAIN made[side].cells = claim[side].cells
    /\ verdict \in {"none", "refused", "raised", "held", "failed"}

DiffInit == claim = NoClaim /\ made = [side \in Sides |-> [state |-> "waiting", cells |-> <<>>]] /\ verdict = "none"

Declare(c) ==
    /\ claim = NoClaim /\ verdict = "none"
    /\ IF Declarable(c) THEN claim' = c /\ UNCHANGED verdict ELSE verdict' = "refused" /\ UNCHANGED claim
    /\ UNCHANGED made

Produce(side) ==
    /\ claim # NoClaim
    /\ made[side].state = "waiting"
    /\ \E results \in [claim[side].cells -> Results] : made' = [made EXCEPT ![side] = Produced(side, results)]
    /\ UNCHANGED <<claim, verdict>>

\* The build runs it once both sides have succeeded.
Compare ==
    /\ \A side \in Sides : made[side].state = "done"
    /\ verdict = "none"
    /\ verdict' = CASE CompareRaises -> "raised"
                    [] ~CompareRaises /\ Held -> "held"
                    [] OTHER -> IF claim.on_difference = "fail" THEN "raised" ELSE "failed"
    /\ UNCHANGED <<claim, made>>

DiffNext ==
    \/ \E c \in Claims : Declare(c)
    \/ \E side \in Sides : Produce(side)
    \/ Compare

DiffSpec == DiffInit /\ [][DiffNext]_diffVars

-----------------------------------------------------------------------------
(* Properties.                                                             *)

\* A claim that held was answered for by every cell either side lists: it was
\* produced by both from one draw, or both refused it; and it was not one tree
\* against itself.  A claim of "same" compared as many quantities as it needs.
HeldMeansCompared ==
    verdict = "held" =>
        /\ \A cell \in claim.left.cells \cup claim.right.cells :
              /\ \A side \in Sides : cell \in claim[side].cells
              /\ \/ \A side \in Sides : made[side].cells[cell].status = "failed"
                 \/ /\ \A side \in Sides : made[side].cells[cell].status = "ok"
                    /\ claim.left.draw = claim.right.draw
        /\ ~RanOneTree
        /\ claim.expect = "same" =>
              Total([cell \in Compared |-> Cardinality({q \in Names(cell) : OnBoth(cell, q)})]) >= claim.minimum

Distance(x, y) == IF x[2] > y[2] THEN x[2] - y[2] ELSE y[2] - x[2]

Size(x) == Distance(x, Num(0))

EnvelopeSlot(cell, q, i) == IF EnvelopeOf(cell, q) = <<>> THEN Num(0) ELSE EnvelopeOf(cell, q).slots[i]

\* Two finite slots are as near as the rule asks, by whole numbers.
SlotsAgree(rule, x, y, bound) ==
    CASE claim.strategy = "bit-identical" -> x[2] = y[2]
      [] claim.strategy = "per-slot" ->
            /\ \A clause \in rule.clauses :
                  Distance(x, y) <= clause[1] * Size(y) \/ Distance(x, y) <= clause[2] + rule.derived_atol
            /\ rule.multilinear => bound[1] # "nan" /\ (bound = Inf \/ Distance(x, y) <= bound[2])
      [] OTHER -> (x[2] = 0) = (y[2] = 0) /\ (Distance(x, y) <= rule.rtol * Size(y) \/ Distance(x, y) <= rule.atol)

\* A claim of "same" that held: on every slot of every quantity the reference
\* and its bound are finite at, the candidate is too and is within every term of
\* the rule.
HeldSameIsWithinTheRule ==
    verdict = "held" /\ claim.expect = "same" =>
        \A cell \in Compared : \A q \in Names(cell) :
            LET a == Tensors("left", cell)[q]
                b == Tensors("right", cell)[q]
            IN  /\ OnBoth(cell, q) /\ Len(a.slots) = Len(b.slots)
                /\ \A i \in DOMAIN b.slots :
                      IsFinite(b.slots[i]) /\ (RuleOf(q).multilinear => EnvelopeSlot(cell, q, i) # Inf) =>
                          /\ IsFinite(a.slots[i])
                          /\ SlotsAgree(RuleOf(q), a.slots[i], b.slots[i], EnvelopeSlot(cell, q, i))

\* A claim of "different" that held saw a difference: where both sides produce
\* the same quantities, some slot of one moved or is not finite.
HeldDifferentIsADifference ==
    verdict = "held" /\ claim.expect = "different" =>
        \E cell \in Compared : \E q \in Names(cell) :
            \/ ~OnBoth(cell, q)
            \/ LET a == Tensors("left", cell)[q]
                   b == Tensors("right", cell)[q]
               IN  \/ a.dtype # b.dtype \/ Len(a.slots) # Len(b.slots)
                   \/ \E i \in DOMAIN b.slots :
                         \/ ~IsFinite(a.slots[i]) \/ ~IsFinite(b.slots[i])
                         \/ ~SlotsAgree(RuleOf(q), a.slots[i], b.slots[i], EnvelopeSlot(cell, q, i))

\* What declare.diff says of `minimum`: how many quantities a comparison "must
\* actually have compared for its verdict to mean anything".
MinimumWasCompared ==
    verdict = "held" =>
        Total([cell \in Compared |-> Cardinality({q \in Names(cell) : OnBoth(cell, q)})]) >= claim.minimum
=============================================================================
