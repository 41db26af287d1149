--------------------------------- MODULE MCPool ---------------------------------
(***************************************************************************)
(* Instances of Pool for TLC.  Two requests meet one connect, or one       *)
(* entry; with four clients a new connection always has an identity.       *)
(***************************************************************************)
EXTENDS Pool

CONSTANTS r1, r2, c1, c2, c3, c4
=================================================================================
