------------------------------ MODULE MCWrapperGC ------------------------------
(* WrapperGC with the constants of its .cfg files, for TLC.                *)
EXTENDS WrapperGC
=============================================================================
