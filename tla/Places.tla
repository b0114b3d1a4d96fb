-------------------------------- MODULE Places --------------------------------
(***************************************************************************)
(* A list from which some of the links are taken out: what is left keeps   *)
(* its order.  Loops over a GList that delete or copy links are this.      *)
(***************************************************************************)
EXTENDS Naturals, Sequences, FiniteSets

\* The n-th of the places P.
NthPlace(P, n) == CHOOSE i \in P : Cardinality({j \in P : j <= i}) = n

\* The list s with nothing but the links at P.
AtPlaces(s, P) == [n \in 1 .. Cardinality(P) |-> s[NthPlace(P, n)]]
=============================================================================
