------------------------------ MODULE MCNamespaces ------------------------------
(***************************************************************************)
(* Instances of Namespaces for TLC: two servers whose names are a, a_, a-  *)
(* or b and whose prefixes are those or a-, the tools t, _t and one with   *)
(* no name, the separators __ and -, and two requests in flight.           *)
(***************************************************************************)
EXTENDS Namespaces, TLC

CONSTANTS s1, s2, n1, o1, o2

A == <<"a">>
AUnderscore == <<"a", "_">>
ADash == <<"a", "-">>
MCNames == {A, AUnderscore, ADash, <<"b">>}
MCPrefixes == {ADash}
MCSeparators == << <<"_", "_">>, <<"-">> >>
MCCatalog == (s1 :> {<<"t">>, <<>>}) @@ (s2 :> {<<"_", "t">>})

Interchangeable == Permutations(Ops)
=================================================================================
