----------------------------- MODULE MCConversions -----------------------------
(***************************************************************************)
(* Conversions between two types of three bits, for TLC.                   *)
(***************************************************************************)
EXTENDS MCValueRanges, Conversions

ThreeBitsMin == -4
=============================================================================
