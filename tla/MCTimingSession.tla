-------------------------- MODULE MCTimingSession --------------------------
(* An instance of TimingSession for TLC: two entries of one checkout and   *)
(* one of another.                                                         *)
EXTENDS TimingSession

ThreeEntries == <<"left", "left", "right">>
AllOrOfEach == {<<1, 2, 3>>, <<2, 3>>}
TheFirst == {<<1>>}
=============================================================================
