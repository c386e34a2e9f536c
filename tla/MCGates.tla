------------------------------ MODULE MCGates ------------------------------
(* The instances of the three gates a change is judged by, for TLC: records, *)
(* claims and sessions.                                                      *)
EXTENDS Gates

(* The draw: scaled-down records of carry.json, one of each draw and regime.  *)

Regime(density, coherence, rw, mass, tail, support) ==
    [density |-> density, coherence |-> coherence, rw_correlation |-> rw, mass |-> mass, tail |-> tail, support |-> support]

Record(draw, widths, tokens, regime) ==
    [draw |-> draw, widths |-> widths, tokens |-> tokens, k_tok |-> 0, cohort |-> 0, support |-> 8,
     state |-> "fresh", regime |-> regime, group |-> 1, heads |-> 1]

MCRegistry ==
    {Record("dead", <<2, 2>>, 2, NoRegime),
     Record("deposit", <<2, 2>>, 2, NoRegime),
     Record("deposit", <<2, 2>>, 1, NoRegime),
     Record("dense", <<2, 3>>, 3, Regime("dense", "iid", "independent", "spread", "ragged", "full")),
     [Record("dense", <<4, 2>>, 2, Regime("sparse", "iid", "independent", "spread", "divisible", "partial"))
         EXCEPT !.support = 4, !.state = "carried"],
     [Record("cold", <<4, 2>>, 2, Regime("sparse", "iid", "independent", "cold_read", "divisible", "partial"))
         EXCEPT !.support = 4, !.state = "carried"],
     [Record("readonly", <<2, 2>>, 2, Regime("sparse", "coherent", "independent", "cold_read", "divisible", "singleton"))
         EXCEPT !.state = "carried"],
     [Record("anti", <<4, 2>>, 2, Regime("sparse", "iid", "anti", "cold_read", "divisible", "partial"))
         EXCEPT !.state = "carried"],
     Record("flip", <<4, 2>>, 5, Regime("sparse", "coherent", "independent", "spread", "ragged", "partial")),
     [Record("anti", <<1, 2>>, 2, Regime("dense", "coherent", "independent", "cold_read", "divisible", "full"))
         EXCEPT !.state = "carried"],
     Record("flip", <<1, 2>>, 3, Regime("dense", "coherent", "independent", "concentrated", "ragged", "full")),
     Record("onehot", <<2, 2>>, 2, Regime("sparse", "iid", "independent", "concentrated", "divisible", "singleton")),
     Record("concentrated", <<2, 2>>, 2, Regime("dense", "iid", "independent", "concentrated", "divisible", "full")),
     [Record("tied", <<3, 2>>, 2, Regime("sparse", "iid", "tied", "spread", "divisible", "partial")) EXCEPT !.k_tok = 2],
     [Record("read", <<4, 2>>, 2, Regime("sparse", "coherent", "independent", "cold_read", "divisible", "partial"))
         EXCEPT !.k_tok = 1, !.support = 4, !.state = "carried"],
     [Record("cohort", <<3, 3>>, 4, Regime("sparse", "coherent", "independent", "spread", "divisible", "partial"))
         EXCEPT !.k_tok = 2, !.cohort = 2],
     [Record("cohort", <<3, 2>>, 3, Regime("sparse", "coherent", "independent", "spread", "divisible", "partial"))
         EXCEPT !.k_tok = 2, !.cohort = 2]}
    \cup {[Record(draw, <<3, 3>>, 2, Regime("sparse", "iid", "independent", "spread", "divisible", "partial"))
             EXCEPT !.k_tok = 2] : draw \in {"alt", "both", "read", "write"}}
    \cup {[Record(draw, <<2>>, 2, Regime("sparse", "iid", "independent", "concentrated", "divisible", "singleton"))
             EXCEPT !.k_tok = 1, !.group = group, !.heads = heads] : draw \in {"both"}, group \in 1 .. 2, heads \in 1 .. 2}

\* Records carry_cell refuses: a regime of a degenerate draw, a count of a dense one, a cohort of no cohort draw.
MCRefused ==
    {Record("dead", <<2>>, 1, Regime("sparse", "iid", "anti", "spread", "ragged", "partial")),
     [Record("dense", <<2>>, 1, Regime("dense", "iid", "independent", "spread", "ragged", "full")) EXCEPT !.k_tok = 1],
     [Record("alt", <<2>>, 1, Regime("dense", "iid", "independent", "spread", "ragged", "full")) EXCEPT !.k_tok = 1, !.cohort = 1]}

MCRecords == MCRegistry \cup MCRefused

-----------------------------------------------------------------------------
(* The comparison.                                                           *)

Tensor(slots) == [dtype |-> "bf16", slots |-> slots]

Showing(tensors) == [status |-> "ok", tensors |-> tensors]

Out(slots) == Showing([out |-> Tensor(slots)])

MCResults ==
    {[status |-> "failed", tensors |-> <<>>], [status |-> "nothing", tensors |-> <<>>],
     Out(<<Num(4), Num(0)>>), Out(<<Num(5), Num(0)>>), Out(<<Num(-4), NegZero>>), Out(<<Num(4), Num(1)>>),
     Out(<<Num(4), NaN>>), Out(<<Inf, Num(0)>>), Out(<<NegInf, Num(0)>>), Out(<<Num(4)>>),
     Showing([out |-> [dtype |-> "fp64", slots |-> <<Num(4), Num(0)>>]]),
     Showing([state |-> Tensor(<<Num(4), Num(0)>>)]),
     Showing([out |-> Tensor(<<Num(4), Num(0)>>), envelope |-> Tensor(<<Num(1), Num(0)>>)])}

Side(cells, checkout, executor) ==
    [cells |-> cells, binds |-> TRUE, checkout |-> checkout, imported |-> checkout, library |-> "rola", executor |-> executor,
     draw |-> "carry"]

Rule == [clauses |-> {}, multilinear |-> FALSE, derived_atol |-> 0, rtol |-> 0, atol |-> 0, envelope_from |-> "none"]

Claim(strategy, rule, expect) ==
    [left |-> Side({"x"}, "worktree", "kernel"), right |-> Side({"x"}, "trunk", "kernel"),
     strategy |-> strategy, rule |-> rule, per_quantity |-> <<>>, expect |-> expect, on_difference |-> "fail", minimum |-> 1]

\* Every rule on one cell, and what each can be wrong about.
MCRules ==
    {<<"bit-identical", Rule>>, <<"support-equal", Rule>>, <<"support-equal", [Rule EXCEPT !.atol = 1]>>,
     <<"per-slot", Rule>>, <<"per-slot", [Rule EXCEPT !.clauses = {<<0, 0>>}]>>,
     <<"per-slot", [Rule EXCEPT !.clauses = {<<0, 1>>, <<2, 0>>}]>>,
     <<"per-slot", [Rule EXCEPT !.clauses = {<<1, 0>>}, !.derived_atol = 1, !.multilinear = TRUE, !.envelope_from = "envelope"]>>,
     <<"per-slot", [Rule EXCEPT !.multilinear = TRUE]>>,
     <<"nearly", Rule>>}

MCOneCell == {Claim(rule[1], rule[2], expect) : rule \in MCRules, expect \in {"same", "different"}}

\* Two cells, listed by both sides or by one, under the oracle rule.
MCTwoCells ==
    {[Claim("per-slot", [Rule EXCEPT !.clauses = {<<0, 1>>}], expect) EXCEPT
        !.left.cells = {"x", "y"}, !.right.cells = right, !.minimum = minimum, !.on_difference = "record",
        !.per_quantity = [state |-> [clauses |-> {<<0, 0>>}]]] :
        expect \in {"same", "different"}, right \in {{"x"}, {"x", "y"}}, minimum \in 1 .. 2}

Plain == Claim("bit-identical", Rule, "same")

\* Declarations that are refused, and sides that cannot be compared.
MCMisdeclared ==
    {[Plain EXCEPT !.minimum = 0], [Plain EXCEPT !.expect = "faster"], [Plain EXCEPT !.on_difference = "ignore"],
     [Plain EXCEPT !.left.imported = "trunk"], [Plain EXCEPT !.right.draw = "another carry"],
     [Plain EXCEPT !.left.checkout = "trunk", !.left.imported = "trunk"],
     [Plain EXCEPT !.left.checkout = "trunk", !.left.imported = "trunk", !.left.executor = "reference"],
     [Plain EXCEPT !.left.binds = FALSE]}

MCClaims == MCOneCell \cup MCTwoCells \cup MCMisdeclared

NoRecords == {}

MCMutant == {Claim("bit-identical", Rule, "different")}

-----------------------------------------------------------------------------
(* The timing.                                                               *)

\* A round: the candidate's reps against the reference's, in milliseconds.
MCRounds ==
    <<[c |-> <<1>>, b |-> <<2>>], [c |-> <<2>>, b |-> <<2>>], [c |-> <<3>>, b |-> <<2>>], [c |-> <<5>>, b |-> <<2>>],
      [c |-> <<9>>, b |-> <<6>>], [c |-> <<5>>, b |-> <<6>>], [c |-> <<1, 2>>, b |-> <<2, 2>>],
      [c |-> <<1>>, b |-> <<0>>]>>

\* A session's quantities do not depend on the order of its rounds.
MCSessions == UNION {{s \in [1 .. n -> DOMAIN MCRounds] : \A i, j \in 1 .. n : i < j => s[i] <= s[j]} : n \in 1 .. 5}

MCMeasurements ==
    {[candidate |-> [i \in DOMAIN s |-> MCRounds[s[i]].c], reference |-> [i \in DOMAIN s |-> MCRounds[s[i]].b]] : s \in MCSessions}
    \cup {[candidate |-> <<>>, reference |-> <<>>], [candidate |-> <<<<2>>>>, reference |-> <<<<2>>, <<2>>>>]}
=============================================================================
