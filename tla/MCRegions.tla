------------------------------- MODULE MCRegions -------------------------------
(***************************************************************************)
(* An array of two elements and ints of three values, so that a range can  *)
(* be split and still be one, and can go beyond the array.                 *)
(***************************************************************************)
EXTENDS Regions
================================================================================
