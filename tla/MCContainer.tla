------------------------------ MODULE MCContainer ------------------------------
(***************************************************************************)
(* An instance of Container for TLC: two servers, three names for them,    *)
(* two containers, two failed calls and one crash.                         *)
(***************************************************************************)
EXTENDS Container, TLC

CONSTANTS s1, s2, a, b, c

MCInitialNames == s1 :> a @@ s2 :> b
=================================================================================
