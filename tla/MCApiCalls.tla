------------------------------- MODULE MCApiCalls -------------------------------
(***************************************************************************)
(* Two objects and a block of memory, of which an object and the block may *)
(* be arguments.  Every handler treats the objects alike, so that they are *)
(* interchangeable.                                                        *)
(***************************************************************************)
EXTENDS ApiCalls, TLC

CONSTANTS o1, o2, b1

MCArgChoices == {{}, {o1, b1}, {o2, b1}}

MCSymmetry == Permutations(Objects)

================================================================================
