----------------------------- MODULE Strategies -----------------------------
(***************************************************************************)
(* rola_devtools/diff/strategies.py: when two tensors are the same under a *)
(* rule.  A tensor is its dtype and its slots; a slot is a float of a few  *)
(* magnitudes, with the values that are not numbers to an order: a         *)
(* negative zero, the infinities, and NaN.                                 *)
(***************************************************************************)
EXTENDS Integers, Sequences

Num(n)  == <<"num", n>>
NegZero == <<"negzero", 0>>
Inf     == <<"inf", 1>>
NegInf  == <<"inf", -1>>
NaN     == <<"nan", 0>>

IsFinite(x) == x[1] \in {"num", "negzero"}

\* IEEE equality: the zeros are equal, a NaN equals nothing.
Equal(x, y) == \/ IsFinite(x) /\ IsFinite(y) /\ x[2] = y[2]
               \/ x[1] = "inf" /\ x = y

IsZero(x) == Equal(x, Num(0))

Magnitude(x) == IF x[2] < 0 THEN <<x[1], -x[2]>> ELSE x

\* |x - y|; infinities of one sign leave no difference to speak of.
AbsErr(x, y) ==
    CASE x[1] = "nan" \/ y[1] = "nan" -> NaN
      [] IsFinite(x) /\ IsFinite(y) -> Magnitude(Num(x[2] - y[2]))
      [] x[1] = "inf" /\ x = y -> NaN
      [] OTHER -> Inf

AllowanceCapped(r, s, floor) ==
    CASE s[1] = "nan" \/ (s[1] = "inf" /\ r = 0) -> NaN
      [] OTHER -> Num(IF r * s[2] > floor THEN floor ELSE r * s[2])

\* A tolerance r of a magnitude, but at least floor: torch.clamp(r * s, min=floor).
Allowance(r, s, floor) ==
    CASE s[1] = "nan" \/ (s[1] = "inf" /\ r = 0) -> NaN
      [] s[1] = "inf" /\ r # 0 -> Inf
      [] OTHER -> Num(IF r * s[2] < floor THEN floor ELSE r * s[2])

\* err <= allowance, as floats compare; both are magnitudes.
Within(err, allowance) ==
    /\ err[1] # "nan" /\ allowance[1] # "nan"
    /\ allowance = Inf \/ (err # Inf /\ err[2] <= allowance[2])

SameShape(a, b) == Len(a.slots) = Len(b.slots)

BitIdentical(a, b) == SameShape(a, b) /\ a.dtype = b.dtype /\ \A i \in DOMAIN a.slots : Equal(a.slots[i], b.slots[i])

PerSlotOfAnyTerm(a, b, rule, envelope) ==
    /\ SameShape(a, b)
    /\ \A i \in DOMAIN a.slots : \E clause \in rule.clauses :
          Within(AbsErr(a.slots[i], b.slots[i]), Allowance(clause[1], Magnitude(b.slots[i]), clause[2] + rule.derived_atol))

\* A clause is <<r, at>>.  The smallest term binds: a slot is within every one.
\* The rule is multilinear if it gives rtol; the envelope comes multiplied by it.
PerSlot(a, b, rule, envelope) ==
    /\ SameShape(a, b)
    /\ \A i \in DOMAIN a.slots :
          LET err == AbsErr(a.slots[i], b.slots[i]) IN
          /\ \A clause \in rule.clauses :
                Within(err, Allowance(clause[1], Magnitude(b.slots[i]), clause[2] + rule.derived_atol))
          /\ rule.multilinear => Within(err, envelope.slots[i])

\* What per_slot is given too little to judge by.
PerSlotRaises(a, b, rule, envelope) ==
    SameShape(a, b) /\ ((rule.multilinear /\ envelope = <<>>) \/ (rule.clauses = {} /\ ~rule.multilinear))

SupportMoved(a, b) == \E i \in DOMAIN a.slots : IsZero(a.slots[i]) # IsZero(b.slots[i])

SupportEqual(a, b, rule) ==
    /\ SameShape(a, b)
    /\ ~SupportMoved(a, b)
    /\ \A i \in DOMAIN a.slots :
          IsZero(a.slots[i]) \/ Within(AbsErr(a.slots[i], b.slots[i]), Allowance(rule.rtol, Magnitude(b.slots[i]), rule.atol))

\* `envelope` is <<>> where the rule names none.
Same(strategy, a, b, rule, envelope) ==
    CASE strategy = "bit-identical" -> BitIdentical(a, b)
      [] strategy = "per-slot"      -> PerSlot(a, b, rule, envelope)
      [] strategy = "support-equal" -> SupportEqual(a, b, rule)

Raises(strategy, a, b, rule, envelope) ==
    \/ strategy \notin {"bit-identical", "per-slot", "support-equal"}
    \/ strategy = "per-slot" /\ PerSlotRaises(a, b, rule, envelope)
=============================================================================
