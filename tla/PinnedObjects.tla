----------------------------- MODULE PinnedObjects -----------------------------
(***************************************************************************)
(* What the wrappers promise to Python (docs/0.9.rst: "Python wrapper      *)
(* objects keep their underlying GCC objects alive when GCC's garbage      *)
(* collector runs"): a GCC object that some Python object uses, and what   *)
(* can be reached from it, is never collected.                             *)
(***************************************************************************)
EXTENDS Pointers

CONSTANTS Wrappers, Addrs

VARIABLES
    alive,  \* addresses at which there is a GCC object
    refs,   \* the pointer that a GCC object has to another one
    roots,  \* GCC objects that GCC's own variables point at
    wraps   \* the GCC object that a Python object uses

vars == <<alive, refs, roots, wraps>>

Used == {wraps[w] : w \in Wrappers} \ {NULL}

Init ==
    /\ alive = {} /\ roots = {}
    /\ refs = [a \in Addrs |-> NULL]
    /\ wraps = [w \in Wrappers |-> NULL]

\* A Python object comes to use a GCC object, which may be a new one.
Acquire(w, a) ==
    /\ wraps[w] = NULL /\ wraps' = [wraps EXCEPT ![w] = a]
    /\ \/ a \in alive /\ UNCHANGED <<alive, refs>>
       \/ /\ a \notin alive /\ alive' = alive \cup {a}
          /\ \E b \in alive : refs' = [refs EXCEPT ![a] = b]
    /\ UNCHANGED roots

Release(w) == wraps' = [wraps EXCEPT ![w] = NULL] /\ UNCHANGED <<alive, refs, roots>>

\* GCC makes a new object.
Allocate(a) ==
    /\ a \notin alive /\ alive' = alive \cup {a} /\ roots' = roots \cup {a}
    /\ refs' = [refs EXCEPT ![a] = NULL]
    /\ UNCHANGED wraps

\* GCC changes what its variables and its objects point at.
Mutate ==
    /\ roots' \subseteq alive
    /\ \E a \in alive, b \in alive \cup {NULL} : refs' \in {refs, [refs EXCEPT ![a] = b]}
    /\ UNCHANGED <<alive, wraps>>

\* Any other object may be collected.
Collect ==
    /\ alive' \subseteq alive
    /\ Reach(refs, Addrs, roots \cup Used) \subseteq alive'
    /\ UNCHANGED <<refs, roots, wraps>>

Next ==
    \/ \E w \in Wrappers : Release(w) \/ \E a \in Addrs : Acquire(w, a)
    \/ \E a \in Addrs : Allocate(a)
    \/ Mutate \/ Collect

Spec == Init /\ [][Next]_vars
=============================================================================
