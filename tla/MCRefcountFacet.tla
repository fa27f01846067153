---------------------------- MODULE MCRefcountFacet ----------------------------
(* RefcountFacet with a few objects of each kind, and at most one argument. *)
EXTENDS RefcountFacet, TLC

MCArgChoices == {S \in SUBSET Objects : Cardinality(S) <= 1}

Symmetry == Permutations(Atoms)
=============================================================================
