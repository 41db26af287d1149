------------------------------ MODULE MCAuthServer ------------------------------
(***************************************************************************)
(* Instances of AuthServer for TLC: two calls race for the same code or    *)
(* the same refresh token, two clients may present each other's.           *)
(***************************************************************************)
EXTENDS AuthServer, TLC

CONSTANTS c1, c2, g1, g2, k1, k2, endpoint, other, read, write

\* Calls, grants and scopes are told apart by what is done to them only.
Interchangeable == Permutations(Calls) \cup Permutations(Grants) \cup Permutations(Scopes)
                   \cup Permutations(Resources)
=================================================================================
