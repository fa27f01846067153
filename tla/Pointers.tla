------------------------------- MODULE Pointers -------------------------------
(***************************************************************************)
(* What can be reached by following pointers, in a heap or in a list.      *)
(***************************************************************************)
CONSTANT NULL

\* Following f leads nowhere out of T.
Closed(f, T) == \A t \in T : f[t] \in T \cup {NULL}

\* The members of D that the pointers f lead to from S, with S.
Reach(f, D, S) ==
    {d \in D : \A T \in SUBSET D : S \subseteq T /\ Closed(f, T) => d \in T}
=============================================================================
