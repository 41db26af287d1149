---------------------------- MODULE MCSupervisor ----------------------------
(***************************************************************************)
(* Instances of Supervisor for TLC.                                        *)
(***************************************************************************)
EXTENDS Supervisor, TLC

CONSTANTS s1, s2, c1, c2, w1

OneServer == {s1}
TwoServers == {s1, s2}
NoServers == {}
OneCaller == {c1}
TwoCallers == {c1, c2}
NoCallers == {}
OneSweeper == {w1}
NoSweepers == {}

CallerSymmetry == Permutations(TwoCallers)
=============================================================================
