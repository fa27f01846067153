------------------------------- MODULE WrapperGC -------------------------------
(***************************************************************************)
(* The wrappers of gcc-python-wrapper.c: Python objects that point at GCC  *)
(* objects, the doubly linked list of those that are live, the caches      *)
(* (gcc-python-cfg.c) and the hook by which GCC's garbage collector, when  *)
(* it marks, finds what they wrap.                                         *)
(*                                                                         *)
(* Python code runs between two steps of GCC, and also in the callbacks    *)
(* that the collector makes before and after marking.                      *)
(***************************************************************************)
EXTENDS Naturals, FiniteSets, Pointers

CONSTANTS
    Wrappers,     \* memory for Python objects
    Addrs,        \* memory for GCC objects
    MaxRefs,      \* bound: references that Python code has to one object
    AllowReinit,  \* whether Python code calls __init__ on an object again
    sentinel

Nodes == Wrappers \cup {sentinel}

ASSUME ConstantsAssumption ==
    /\ IsFiniteSet(Wrappers) /\ sentinel \notin Wrappers
    /\ NULL \notin Nodes \cup Addrs
    /\ MaxRefs \in Nat \ {0} /\ AllowReinit \in BOOLEAN

VARIABLES
    next, prev,   \* wr_next and wr_prev
    live,         \* the Python objects that exist
    own,          \* those of a type with an __init__: gcc.Pass and gcc.Option
    pyrefs,       \* references that Python code has to an object
    wraps,        \* the pointer inside a wrapper of a type with a wrtp_mark
    cache,        \* gimple_wrapper_cache and its like, by address
    passes,       \* the values of pass_wrapper_cache
    alive,        \* GCC: addresses of objects
    refs,         \* GCC: the pointer from one object to another
    roots,        \* GCC: objects its own variables point at
    phase,        \* how far a collection is
    marked,       \* the objects it has marked
    iter          \* my_walker's position

list == <<next, prev>>
python == <<live, own, pyrefs, wraps, cache, passes>>
heap == <<alive, refs, roots>>
gc == <<phase, marked, iter>>
vars == <<list, python, heap, gc>>

HeapReach(S) == Reach(refs, Addrs, S)

\* Python code runs: called by GCC, or by the collector.
PythonRuns == phase \in {"run", "start", "marking"}

\* The objects that Python code can ask for a wrapper of.
Accessible == HeapReach(roots \cup ({wraps[w] : w \in {v \in live : pyrefs[v] > 0}} \ {NULL}))

Cached(w) == w \in passes \/ \E a \in Addrs : cache[a] = w

Tracked == {w \in live : prev[w] # NULL}

-----------------------------------------------------------------------------
(***************************************************************************)
(* The list.                                                               *)
(***************************************************************************)
\* Mutant of Track: the object does not point on to the sentinel.
TrackUnlinked(w) ==
    /\ next' = [next EXCEPT ![prev[sentinel]] = w]
    /\ prev' = [prev EXCEPT ![w] = prev[sentinel], ![sentinel] = w]

\* Mutant of Track: the sentinel is made to point at the object too early.
TrackMisordered(w) ==
    /\ next' = [next EXCEPT ![w] = sentinel]
    /\ prev' = [prev EXCEPT ![w] = w, ![sentinel] = w]

\* PyGccWrapper_Track: at the end of the list.
Track(w) ==
    /\ next' = [[next EXCEPT ![prev[sentinel]] = w] EXCEPT ![w] = sentinel]
    /\ prev' = [prev EXCEPT ![w] = prev[sentinel], ![sentinel] = w]

\* Mutant of Untrack: the element behind the object keeps its pointer to it.
UntrackHalf(w) ==
    /\ next' = [[next EXCEPT ![prev[w]] = next[w]] EXCEPT ![w] = NULL]
    /\ prev' = [prev EXCEPT ![w] = NULL]

\* PyGcc_wrapper_untrack, of an object that is in the list.
Untrack(w) ==
    /\ next' = [[next EXCEPT ![prev[w]] = next[w]] EXCEPT ![w] = NULL]
    /\ prev' = [[prev EXCEPT ![next[w]] = prev[w]] EXCEPT ![w] = NULL]

-----------------------------------------------------------------------------
Init ==
    /\ next = [n \in Nodes |-> IF n = sentinel THEN sentinel ELSE NULL]
    /\ prev = next
    /\ live = {} /\ own = {} /\ passes = {}
    /\ pyrefs = [w \in Wrappers |-> 0]
    /\ wraps = [w \in Wrappers |-> NULL]
    /\ cache = [a \in Addrs |-> NULL]
    /\ alive = {} /\ roots = {} /\ refs = [a \in Addrs |-> NULL]
    /\ phase = "run" /\ marked = {} /\ iter = sentinel

(***************************************************************************)
(* What Python code does.                                                  *)
(***************************************************************************)
\* _PyGccWrapper_New and the assignment of the pointer that follows it.
NewWrapper(w, a) ==
    /\ w \notin live /\ live' = live \cup {w}
    /\ Track(w)
    /\ pyrefs' = [pyrefs EXCEPT ![w] = 1]
    /\ wraps' = [wraps EXCEPT ![w] = a]

\* PyGcc_LazilyCreateWrapper, the first time.
WrapCached(w, a) ==
    /\ PythonRuns /\ a \in Accessible /\ cache[a] = NULL
    /\ NewWrapper(w, a)
    /\ cache' = [cache EXCEPT ![a] = w]
    /\ UNCHANGED <<own, passes, heap, gc>>

\* PyGcc_LazilyCreateWrapper, when the cache has the wrapper.
WrapAgain(a) ==
    /\ PythonRuns /\ a \in Accessible /\ cache[a] # NULL
    /\ pyrefs[cache[a]] < MaxRefs
    /\ pyrefs' = [pyrefs EXCEPT ![cache[a]] = @ + 1]
    /\ UNCHANGED <<list, live, own, wraps, cache, passes, heap, gc>>

\* A wrapper that is not cached: of a function, a variable, an instruction of
\* RTL, or of what GCC does not collect: a location, an option, a parameter.
WrapUncached(w, a) ==
    /\ PythonRuns /\ a \in Accessible \cup {NULL}
    /\ NewWrapper(w, a)
    /\ UNCHANGED <<own, passes, cache, heap, gc>>

\* A wrapper of one of GCC's own passes: its cache is keyed by a pointer that
\* GCC never frees.
WrapPass(w) ==
    /\ PythonRuns
    /\ NewWrapper(w, NULL)
    /\ own' = own \cup {w} /\ passes' = passes \cup {w}
    /\ UNCHANGED <<cache, heap, gc>>

PassAgain(w) ==
    /\ PythonRuns /\ w \in passes /\ pyrefs[w] < MaxRefs
    /\ pyrefs' = [pyrefs EXCEPT ![w] = @ + 1]
    /\ UNCHANGED <<list, live, own, wraps, cache, passes, heap, gc>>

\* PyGccTree_get_pointer and its like: GCC makes a tree about the one that is
\* wrapped and the new one is wrapped at once.  An object that is made while
\* the collector has marked is not collected.
WrapNew(w, a) ==
    /\ PythonRuns /\ a \notin alive /\ cache[a] = NULL
    /\ \E v \in live :
           /\ pyrefs[v] > 0 /\ wraps[v] # NULL
           /\ refs' = [refs EXCEPT ![a] = wraps[v]]
    /\ alive' = alive \cup {a}
    /\ NewWrapper(w, a)
    /\ cache' = [cache EXCEPT ![a] = w]
    /\ marked' = IF phase = "marking" THEN marked \cup {a} ELSE marked
    /\ UNCHANGED <<own, passes, roots, phase, iter>>

\* Python makes an object of a type with an __init__: tp_alloc clears it, and
\* a subclass need not call __init__.
Construct(w) ==
    /\ PythonRuns /\ w \notin live
    /\ live' = live \cup {w} /\ own' = own \cup {w}
    /\ pyrefs' = [pyrefs EXCEPT ![w] = 1]
    /\ UNCHANGED <<list, wraps, cache, passes, heap, gc>>

\* do_pass_init and PyGccOption_init: the object is tracked before the
\* arguments are looked at; a pass that is accepted goes into its cache.
ObjectInit(w) ==
    /\ PythonRuns /\ w \in own /\ pyrefs[w] > 0
    /\ AllowReinit \/ prev[w] = NULL
    /\ Track(w)
    /\ passes' \in {passes, passes \cup {w}}
    /\ UNCHANGED <<live, own, pyrefs, wraps, cache, heap, gc>>

\* Mutant of LastRef: the cache's own reference is not counted.
LastRefUncached(w) == pyrefs[w] = 1

LastRef(w) == pyrefs[w] = 1 /\ ~Cached(w)

\* A reference is dropped; with the last one PyGccWrapper_Dealloc.
Decref(w) ==
    /\ PythonRuns /\ w \in live /\ pyrefs[w] > 0
    /\ pyrefs' = [pyrefs EXCEPT ![w] = @ - 1]
    /\ IF LastRef(w)
       THEN /\ live' = live \ {w} /\ own' = own \ {w}
            /\ wraps' = [wraps EXCEPT ![w] = NULL]
            /\ IF prev[w] # NULL THEN Untrack(w) ELSE UNCHANGED list
       ELSE UNCHANGED <<list, live, own, wraps>>
    /\ UNCHANGED <<cache, passes, heap, gc>>

(***************************************************************************)
(* What GCC does between two calls of Python code.                         *)
(***************************************************************************)
GccNew(a) ==
    /\ phase = "run" /\ a \notin alive
    /\ alive' = alive \cup {a} /\ roots' = roots \cup {a}
    /\ refs' = [refs EXCEPT ![a] = NULL]
    /\ UNCHANGED <<list, python, gc>>

GccForget(a) ==
    /\ phase = "run" /\ a \in roots
    /\ roots' = roots \ {a}
    /\ UNCHANGED <<list, python, alive, refs, gc>>

GccAssign(a, b) ==
    /\ phase = "run"
    /\ a \in HeapReach(roots) /\ b \in HeapReach(roots) \cup {NULL}
    /\ refs' = [refs EXCEPT ![a] = b]
    /\ UNCHANGED <<list, python, alive, roots, gc>>

(***************************************************************************)
(* A collection: ggc_collect, also by _force_garbage_collection.           *)
(***************************************************************************)
\* PLUGIN_GGC_START: Python callbacks.
GgcStart ==
    /\ phase = "run" /\ phase' = "start"
    /\ UNCHANGED <<list, python, heap, marked, iter>>

\* GCC's own roots are marked, then my_walker is called.
GgcMarkRoots ==
    /\ phase = "start" /\ phase' = "walk"
    /\ marked' = HeapReach(roots)
    /\ iter' = next[sentinel]
    /\ UNCHANGED <<list, python, heap>>

\* Mutant of WalkStep: the walk returns to the head of the list.
WalkStepRestarting ==
    /\ phase = "walk" /\ iter \in Wrappers
    /\ marked' = marked \cup HeapReach({wraps[iter]} \ {NULL})
    /\ iter' = next[sentinel]
    /\ UNCHANGED <<list, python, heap, phase>>

\* Mutant of WalkStep: a marking hook that does not recurse into the fields.
WalkStepShallow ==
    /\ phase = "walk" /\ iter \in Wrappers
    /\ marked' = marked \cup ({wraps[iter]} \ {NULL})
    /\ iter' = next[iter]
    /\ UNCHANGED <<list, python, heap, phase>>

\* my_walker: wrtp_mark of one wrapper, which marks also what it reaches.
WalkStep ==
    /\ phase = "walk" /\ iter \in Wrappers
    /\ marked' = marked \cup HeapReach({wraps[iter]} \ {NULL})
    /\ iter' = next[iter]
    /\ UNCHANGED <<list, python, heap, phase>>

\* PLUGIN_GGC_MARKING: Python callbacks.
WalkEnd ==
    /\ phase = "walk" /\ iter = sentinel
    /\ phase' = "marking"
    /\ UNCHANGED <<list, python, heap, marked, iter>>

\* What is not marked is collected.
GgcSweep ==
    /\ phase = "marking" /\ phase' = "run"
    /\ alive' = alive \cap marked /\ marked' = {}
    /\ UNCHANGED <<list, python, refs, roots, iter>>

Collector == GgcMarkRoots \/ WalkStep \/ WalkEnd \/ GgcSweep

Next ==
    \/ \E w \in Wrappers :
           \/ \E a \in Addrs : WrapCached(w, a) \/ WrapNew(w, a)
           \/ \E a \in Addrs \cup {NULL} : WrapUncached(w, a)
           \/ WrapPass(w) \/ PassAgain(w)
           \/ Construct(w) \/ ObjectInit(w) \/ Decref(w)
    \/ \E a \in Addrs : WrapAgain(a) \/ GccNew(a) \/ GccForget(a)
    \/ \E a \in Addrs, b \in Addrs \cup {NULL} : GccAssign(a, b)
    \/ GgcStart \/ Collector

\* The collector is not interrupted, and the callbacks it makes return.
Spec == Init /\ [][Next]_vars /\ WF_vars(Collector)

-----------------------------------------------------------------------------
TypeOK ==
    /\ next \in [Nodes -> Nodes \cup {NULL}] /\ prev \in [Nodes -> Nodes \cup {NULL}]
    /\ live \subseteq Wrappers /\ own \subseteq live /\ passes \subseteq own
    /\ pyrefs \in [Wrappers -> 0..MaxRefs]
    /\ wraps \in [Wrappers -> Addrs \cup {NULL}]
    /\ cache \in [Addrs -> Wrappers \cup {NULL}]
    /\ alive \subseteq Addrs /\ refs \in [Addrs -> Addrs \cup {NULL}] /\ roots \subseteq alive
    /\ phase \in {"run", "start", "walk", "marking"}
    /\ marked \subseteq Addrs /\ iter \in Nodes

\* ListIsLive: following wr_next from the sentinel passes every object that was
\* tracked and is not yet deallocated, and nothing else, and wr_prev leads the
\* same way back.
ListIsLive ==
    LET linked == Tracked \cup {sentinel}
    IN  /\ Reach(next, Nodes, {sentinel}) = linked
        /\ \A n \in linked : next[prev[n]] = n /\ prev[next[n]] = n

\* WrappedSurvive: the GCC object inside a wrapper that exists is never
\* collected, nor anything that can be reached from it.
WrappedSurvive ==
    \A w \in live : wraps[w] # NULL => HeapReach({wraps[w]}) \subseteq alive

\* CacheIsCurrent: what the cache returns for an address is a wrapper that still
\* exists, of the object that is now at that address: an address is not used
\* again as long as its wrapper is in the cache.
CacheIsCurrent ==
    \A a \in Addrs : cache[a] # NULL =>
        cache[a] \in live /\ wraps[cache[a]] = a /\ a \in alive

\* CollectionEnds: the walk comes back to the sentinel and the collection ends.
CollectionEnds == phase # "run" ~> phase = "run"

\* LiveAreMarked: "when it starts marking, we iterate through all our live
\* wrapper objects, marking the underlying GCC objects".
LiveAreMarked ==
    phase = "marking" => \A w \in live : wraps[w] # NULL => wraps[w] \in marked

\* Pins: the wrappers keep the promise of PinnedObjects.
Pinned == INSTANCE PinnedObjects WITH Wrappers <- Wrappers, Addrs <- Addrs, NULL <- NULL,
              alive <- alive, refs <- refs, roots <- roots, wraps <- wraps
Pins == Pinned!Spec
=============================================================================
