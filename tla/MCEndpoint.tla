------------------------------- MODULE MCEndpoint -------------------------------
(***************************************************************************)
(* An instance of Endpoint for TLC: two endpoints and one more to create,  *)
(* two slugs, a key, a token for the first slug and three requests.        *)
(***************************************************************************)
EXTENDS Endpoint, TLC

CONSTANTS e1, e2, e3, x, y, k, j, q1, q2, q3, here

MCAudience == j :> x
MCInitialSlug == e1 :> x @@ e2 :> y
RequestSymmetry == Permutations(Requests)
=================================================================================
