------------------------------- MODULE MCReports -------------------------------
(***************************************************************************)
(* Two traces for a function, each with up to four reports, suffice for a  *)
(* class of four and for classes that overlap; a second function for what  *)
(* the first leaves behind.                                                *)
(***************************************************************************)
EXTENDS Reports, TLC

CONSTANTS o1, o2, a, b

MCMaxTraces == <<2, 1>>

MCBalances == {-1, 0, 1}

MCComplaints == {<<>>, <<"deallocated">>, <<"sets">>, <<"NULL", "sets">>}

Symmetry == Permutations(Objects) \cup Permutations(Descs)
================================================================================
