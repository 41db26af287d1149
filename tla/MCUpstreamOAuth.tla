---------------------------- MODULE MCUpstreamOAuth ----------------------------
(***************************************************************************)
(* Instances of UpstreamOAuth for TLC.                                     *)
(***************************************************************************)
EXTENDS UpstreamOAuth, TLC

CONSTANTS r1, w1, a1, b1, b2, k1, k2

None == {}
OneRequest == {r1}
OneSweep == {w1}
OneAdmin == {a1}
OneStarter == {b1}
TwoStarters == {b1, b2}
OneCallback == {k1}
TwoCallbacks == {k1, k2}

LoginSymmetry == Permutations(TwoStarters) \cup Permutations(TwoCallbacks)
=============================================================================
