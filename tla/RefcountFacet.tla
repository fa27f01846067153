----------------------------- MODULE RefcountFacet -----------------------------
(***************************************************************************)
(* The CPython facet of libcpychecker/refcounts.py along one path of one   *)
(* function: what each call of the C API does to the checker's account of  *)
(* the references, and the verdict at the return statement.                *)
(*                                                                         *)
(* Beside the checker's state the module keeps what really happens to the  *)
(* objects when the same calls are executed: their ob_refcnt, what the     *)
(* containers hold, and how many references the function must give up.     *)
(* The path followed is always the one that is really taken.               *)
(***************************************************************************)
EXTENDS Integers, FiniteSets

CONSTANTS
    Atoms,      \* objects that hold no references
    Lists,      \* PyListObjects
    Tuples,     \* PyTupleObjects
    ArgChoices, \* the sets of objects it may be given as arguments
    TupleLen,   \* length of the tuples that it makes
    MaxOutside, \* bound: references held outside on a borrowed object at first
    MaxOps,     \* bound: statements of the path
    NULL

Containers == Lists \cup Tuples
Objects    == Atoms \cup Containers
Indices    == 0..TupleLen      \* the last one is out of range

ASSUME ConstantsAssumption ==
    /\ IsFiniteSet(Objects)
    /\ Atoms \cap Containers = {} /\ Lists \cap Tuples = {}
    /\ ArgChoices \subseteq SUBSET Objects /\ NULL \notin Objects
    /\ TupleLen \in Nat \ {0} /\ MaxOps \in Nat /\ MaxOutside \in Nat \ {0}

VARIABLES
    \* the checker's State and its CPython facet
    attrs,      \* the function: its arguments and how it is marked
    seen,       \* objects with a region
    rel, ext,   \* RefcountValue: relvalue and external.minvalue
    dead,       \* regions holding DeallocatedMemory
    slot,       \* pointers in ob_item arrays, by container and index
    glob,       \* the pointer in a global variable
    exception,  \* whether exception_rvalue is non-NULL
    pc, result, \* how the trace ends, and the value returned
    \* the execution
    count,      \* ob_refcnt
    held,       \* how many references a container has to an object
    owed,       \* how many references the function has to give up
    escaped,    \* objects that unknown code has taken new references to
    released,   \* objects dropped by a container, or by a call that failed
    fixme,      \* objects concerned by a FIXME of impl_PyTuple_SetItem
    uncounted,  \* objects in a container whose slot does not stand for them
    ops

checker == <<attrs, seen, rel, ext, dead, slot, glob, exception, pc, result>>
vars == <<checker, count, held, owed, escaped, released, fixme, uncounted, ops>>

-----------------------------------------------------------------------------
(***************************************************************************)
(* RefcountValue: ob_refcnt is known to be at least rel + ext.             *)
(***************************************************************************)
MinValue(o) == rel[o] + ext[o]

AddRef(o) == rel' = [rel EXCEPT ![o] = @ + 1] /\ UNCHANGED ext

DecRef(o) == rel' = [rel EXCEPT ![o] = @ - 1] /\ UNCHANGED ext

\* Mutant of AddExternalRef: counted as the function's own as well.
AddExternalRefTwice(o) ==
    /\ rel' = [rel EXCEPT ![o] = @ + 1]
    /\ ext' = [ext EXCEPT ![o] = @ + 1]

AddExternalRef(o) == ext' = [ext EXCEPT ![o] = @ + 1] /\ UNCHANGED rel

\* Mutant of StealReference: given up twice, and kept by nobody.
StealReferenceTwice(o) ==
    /\ rel' = [rel EXCEPT ![o] = @ - 1]
    /\ ext' = [ext EXCEPT ![o] = @ - 1]

StealReference(o) ==
    /\ rel' = [rel EXCEPT ![o] = @ - 1]
    /\ ext' = [ext EXCEPT ![o] = @ + 1]

\* Mutant of MayBe: off by one at the lower bound.
MayBeBelow(min, n) == min < n

\* eval_comparison('eq', n) of a RefcountValue: False or "don't know".
MayBe(min, n) == min <= n

-----------------------------------------------------------------------------
(***************************************************************************)
(* CPython: a reference to an object is dropped, and with the last one the *)
(* references that a container has.                                        *)
(***************************************************************************)
Monus(m, n) == IF m > n THEN m - n ELSE 0

\* What a container holds when it stores x in the place of y, which may be NULL.
Exchange(h, x, y) ==
    [o \in Objects |-> Monus(h[o] + (IF o = x THEN 1 ELSE 0), IF o = y THEN 1 ELSE 0)]

Args == attrs.args

\* A function marked as stealing an argument owns a reference to it.
Stolen(o) == IF o \in attrs.steals THEN 1 ELSE 0

\* What the function may hand to its caller.
Due(o) == IF o = result /\ ~attrs.borrowed THEN 1 ELSE 0

Usable(S) == S \subseteq seen \ dead /\ \A o \in S : count[o] > 0

Step == pc = "run" /\ ops < MaxOps /\ ops' = ops + 1

Attributes ==
    UNION {[args : {A}, borrowed : BOOLEAN, steals : SUBSET A] : A \in ArgChoices}

\* CPython.init_for_function: borrowed references to the arguments.
Init ==
    /\ attrs \in Attributes
    /\ seen = Args
    /\ rel = [o \in Objects |-> 0]
    /\ ext = [o \in Objects |-> IF o \in Args THEN 1 ELSE 0]
    /\ dead = {}
    /\ slot = [ci \in Containers \X Indices |-> NULL]
    /\ glob = NULL /\ exception = FALSE
    /\ pc = "run" /\ result = NULL
    /\ \E outside \in [Args -> 1..MaxOutside] :
           count = [o \in Objects |-> IF o \in Args THEN outside[o] ELSE 0]
    /\ held = [c \in Containers |-> [o \in Objects |-> 0]]
    /\ owed = [o \in Objects |-> Stolen(o)]
    /\ escaped = {} /\ released = {} /\ fixme = {} /\ uncounted = {}
    /\ ops = 0

\* The call fails with NULL or -1 and an exception.
Fails ==
    /\ exception' = TRUE
    /\ UNCHANGED <<attrs, seen, rel, ext, dead, slot, glob, pc, result,
                   count, held, owed, escaped, released, fixme, uncounted>>

\* A call returns a new reference (object_ctor, PyList_New, PyTuple_New, any
\* unknown function that returns a PyObject*), or fails.
NewRef(o) ==
    /\ Step /\ o \notin seen
    /\ \/ /\ seen' = seen \cup {o}
          /\ rel' = [rel EXCEPT ![o] = 1] /\ ext' = [ext EXCEPT ![o] = 0]
          /\ count' = [count EXCEPT ![o] = 1] /\ owed' = [owed EXCEPT ![o] = 1]
          /\ UNCHANGED <<attrs, dead, slot, glob, exception, pc, result,
                         held, escaped, released, fixme, uncounted>>
       \/ Fails

\* A call returns a borrowed reference, or NULL and no exception, or fails.
BorrowedRef(o) ==
    /\ Step /\ o \in Atoms \ seen
    /\ \/ /\ seen' = seen \cup {o}
          /\ rel' = [rel EXCEPT ![o] = 0] /\ ext' = [ext EXCEPT ![o] = 1]
          /\ \E n \in 1..MaxOutside : count' = [count EXCEPT ![o] = n]
          /\ UNCHANGED <<attrs, dead, slot, glob, exception, pc, result,
                         held, owed, escaped, released, fixme, uncounted>>
       \/ UNCHANGED <<checker, count, held, owed, escaped, released, fixme, uncounted>>
       \/ Fails

\* Py_INCREF.
Incref(o) ==
    /\ Step /\ Usable({o})
    /\ AddRef(o)
    /\ count' = [count EXCEPT ![o] = @ + 1]
    /\ owed' = [owed EXCEPT ![o] = @ + 1]
    /\ UNCHANGED <<attrs, seen, dead, slot, glob, exception, pc, result,
                   held, escaped, released, fixme, uncounted>>

\* Py_DECREF.  When ob_refcnt may be zero the checker follows both branches;
\* the generic tp_dealloc marks the region, that of an argument is unknown.
Decref(o) ==
    LET freed == count[o] = 1
        drop(x) == IF freed /\ o \in Containers THEN held[o][x] ELSE 0
    IN  /\ Step /\ Usable({o})
        /\ DecRef(o)
        /\ dead' = IF freed /\ MayBe(MinValue(o) - 1, 0) /\ o \notin Args
                   THEN dead \cup {o} ELSE dead
        /\ count' = [x \in Objects |-> IF x = o THEN count[o] - 1
                                       ELSE Monus(count[x], drop(x))]
        /\ held' = [c \in Containers |-> IF freed /\ c = o THEN [x \in Objects |-> 0]
                                         ELSE held[c]]
        /\ released' = released \cup {x \in Objects : drop(x) > 0}
        /\ owed' = [owed EXCEPT ![o] = @ - 1]
        /\ UNCHANGED <<attrs, seen, slot, glob, exception, pc, result,
                       escaped, fixme, uncounted>>

\* PyList_Append: the list gets a reference of its own, which the pointer at
\* index ob_size stands for; ob_size remains as it was.
ListAppend(l, x) ==
    /\ Step /\ Usable({l, x})
    /\ \/ /\ AddRef(x)
          /\ slot' = [slot EXCEPT ![<<l, 0>>] = x]
          /\ count' = [count EXCEPT ![x] = @ + 1]
          /\ held' = [held EXCEPT ![l][x] = @ + 1]
          /\ uncounted' = uncounted \cup
                 (IF l \in Args THEN {x} ELSE {slot[<<l, 0>>]} \ {NULL})
          /\ UNCHANGED <<attrs, seen, dead, glob, exception, pc, result,
                         owed, escaped, released, fixme>>
       \/ Fails

\* PyList_SetItem replaces an item that the list holds, and is taken to
\* succeed: it steals the reference.
ListSetItem(l, x) ==
    /\ Step /\ Usable({l, x})
    /\ StealReference(x)
    /\ owed' = [owed EXCEPT ![x] = @ - 1]
    /\ \E old \in {y \in Atoms : held[l][y] > 0} :
           /\ held' = [held EXCEPT ![l] = Exchange(@, x, old)]
           /\ count' = [count EXCEPT ![old] = Monus(@, 1)]
           /\ released' = released \cup {old}
    /\ UNCHANGED <<attrs, seen, dead, slot, glob, exception, pc, result,
                   escaped, fixme, uncounted>>

\* PyDict_SetItem: the dictionary takes a new reference, or the call fails.
DictSetItem(x) ==
    /\ Step /\ Usable({x})
    /\ \/ /\ AddExternalRef(x)
          /\ count' = [count EXCEPT ![x] = @ + 1]
          /\ UNCHANGED <<attrs, seen, dead, slot, glob, exception, pc, result,
                         held, owed, escaped, released, fixme, uncounted>>
       \/ Fails

\* PyModule_AddObject: steals the reference unless it fails.
ModuleAddObject(x) ==
    /\ Step /\ Usable({x})
    /\ \/ /\ StealReference(x)
          /\ owed' = [owed EXCEPT ![x] = @ - 1]
          /\ UNCHANGED <<attrs, seen, dead, slot, glob, exception, pc, result,
                         count, held, escaped, released, fixme, uncounted>>
       \/ Fails

\* A function that is not known: it may keep new references, and steals the
\* one it is given if it is marked so.
CallUnknown(x, steals) ==
    /\ Step /\ Usable({x})
    /\ IF steals THEN StealReference(x) ELSE UNCHANGED <<rel, ext>>
    /\ owed' = [owed EXCEPT ![x] = @ - (IF steals THEN 1 ELSE 0)]
    /\ \E keeps \in {0, 1} :
           /\ count' = [count EXCEPT ![x] = @ + keeps]
           /\ escaped' = IF keeps = 1 THEN escaped \cup {x} ELSE escaped
    /\ UNCHANGED <<attrs, seen, dead, slot, glob, exception, pc, result,
                   held, released, fixme, uncounted>>

-----------------------------------------------------------------------------
(***************************************************************************)
(* PyTuple_SetItem, which steals the reference whether it fails or not.    *)
(***************************************************************************)
\* Mutant of TupleOutcomes: a refcount that might be 1 is taken to be.
TupleOutcomesUnchecked(t, i) ==
    (IF t \in Args THEN {"badcall", "range", "ok"} ELSE {})
      \cup (IF i < TupleLen THEN {"ok"} ELSE {"range"})

\* The outcomes that the checker follows: of an argument neither the type nor
\* the length is known.
TupleOutcomes(t, i) ==
    IF ~MayBe(MinValue(t), 1) THEN {"badcall"}
    ELSE (IF t \in Args THEN {"badcall", "range", "ok"} ELSE {})
           \cup (IF i < TupleLen THEN {"ok"} ELSE {"range"})

\* Those that are possible.
RealOutcomes(t, i) ==
    IF count[t] # 1 THEN {"badcall"}
    ELSE IF t \in Args THEN {"range", "ok"}
    ELSE IF i < TupleLen THEN {"ok"} ELSE {"range"}

\* The item replaces the old one; the old one is dropped, which the checker
\* does not follow.
TupleStores(t, i, x) ==
    LET old == slot[<<t, i>>]
    IN  /\ slot' = [slot EXCEPT ![<<t, i>>] = x]
        /\ held' = [held EXCEPT ![t] = Exchange(@, x, old)]
        /\ count' = [y \in Objects |-> IF y = old THEN Monus(count[y], 1) ELSE count[y]]
        /\ released' = released \cup ({old} \ {NULL})
        /\ fixme' = fixme \cup ({old} \ {NULL})
        /\ uncounted' = IF t \in Args THEN uncounted \cup {x} ELSE uncounted
        /\ UNCHANGED exception

\* The item is dropped, which the checker does not follow either.
TupleRefuses(x) ==
    /\ exception' = TRUE
    /\ count' = [count EXCEPT ![x] = Monus(@, 1)]
    /\ released' = released \cup {x}
    /\ fixme' = fixme \cup {x}
    /\ UNCHANGED <<slot, held, uncounted>>

TupleSetItem(t, i, x) ==
    /\ Step /\ Usable({t, x})
    /\ \E r \in RealOutcomes(t, i) \cap TupleOutcomes(t, i) :
           IF r = "ok" THEN TupleStores(t, i, x) ELSE TupleRefuses(x)
    /\ owed' = [owed EXCEPT ![x] = @ - 1]
    /\ UNCHANGED <<attrs, seen, rel, ext, dead, glob, pc, result, escaped>>

\* What really happens is not among the traces: they end here.
TupleUnforeseen(t, i, x) ==
    /\ Step /\ Usable({t, x})
    /\ ~(RealOutcomes(t, i) \subseteq TupleOutcomes(t, i))
    /\ pc' = "missed" /\ result' = t
    /\ UNCHANGED <<attrs, seen, rel, ext, dead, slot, glob, exception,
                   count, held, owed, escaped, released, fixme, uncounted>>

-----------------------------------------------------------------------------
\* A global variable is assigned: it takes over a reference, and the one to
\* the object it pointed at is the function's.
StoreGlobal(x) ==
    /\ Step /\ Usable({x} \ {NULL})
    /\ glob' = x
    /\ owed' = [o \in Objects |->
           owed[o] + (IF o = glob THEN 1 ELSE 0) - (IF o = x THEN 1 ELSE 0)]
    /\ UNCHANGED <<attrs, seen, rel, ext, dead, slot, exception, pc, result,
                   count, held, escaped, released, fixme, uncounted>>

\* PyErr_Clear.
ErrClear ==
    /\ Step /\ exception
    /\ exception' = FALSE
    /\ UNCHANGED <<attrs, seen, rel, ext, dead, slot, glob, pc, result,
                   count, held, owed, escaped, released, fixme, uncounted>>

\* ReadFromDeallocatedMemory, PassingPointerToDeallocatedMemory: the trace ends
\* with an error.
UseDeallocated(o) ==
    /\ Step /\ o \in dead
    /\ pc' = "error" /\ result' = o
    /\ UNCHANGED <<attrs, seen, rel, ext, dead, slot, glob, exception,
                   count, held, owed, escaped, released, fixme, uncounted>>

Returns(x) ==
    /\ pc = "run" /\ x \in seen \cup {NULL}
    /\ pc' = "returned" /\ result' = x
    /\ UNCHANGED <<attrs, seen, rel, ext, dead, slot, glob, exception,
                   count, held, owed, escaped, released, fixme, uncounted, ops>>

Next ==
    \/ \E o \in Objects : NewRef(o) \/ Incref(o) \/ Decref(o) \/ UseDeallocated(o)
    \/ \E x \in Atoms : \/ BorrowedRef(x) \/ DictSetItem(x) \/ ModuleAddObject(x)
                        \/ \E l \in Lists : ListAppend(l, x) \/ ListSetItem(l, x)
                        \/ \E t \in Tuples, i \in Indices :
                               TupleSetItem(t, i, x) \/ TupleUnforeseen(t, i, x)
    \/ \E o \in Objects, steals \in BOOLEAN : CallUnknown(o, steals)
    \/ \E x \in Atoms \cup {NULL} : StoreGlobal(x)
    \/ \E x \in Objects \cup {NULL} : Returns(x)
    \/ ErrClear

Spec == Init /\ [][Next]_vars

-----------------------------------------------------------------------------
(***************************************************************************)
(* check_refcount_for_one_object.  The object an argument points at is     *)
(* made with a region on the stack, so its slots are not persistent.       *)
(***************************************************************************)
HeapSlots == (Containers \ Args) \X Indices

\* get_persistent_refs_for_region.
PersistentSlots(o) == {ci \in HeapSlots : slot[ci] = o}
PersistentRefs(o) == Cardinality(PersistentSlots(o)) + (IF glob = o THEN 1 ELSE 0)

\* Mutant of Expected: an object marked as stolen is expected like any other.
ExpectedUnstolen(o) == Due(o) + PersistentRefs(o)

Expected(o) == Due(o) + PersistentRefs(o) - Stolen(o)

Verdict(o) ==
    IF o \in dead THEN "unknown"
    ELSE IF rel[o] > Expected(o) THEN "memory leak"
    ELSE IF rel[o] < Expected(o) THEN "future use-after-free"
    ELSE "balanced"

-----------------------------------------------------------------------------
TypeOK ==
    /\ attrs \in Attributes
    /\ seen \subseteq Objects /\ dead \subseteq Objects
    /\ rel \in [Objects -> Int] /\ ext \in [Objects -> Nat]
    /\ slot \in [Containers \X Indices -> Atoms \cup {NULL}]
    /\ glob \in Atoms \cup {NULL} /\ exception \in BOOLEAN
    /\ pc \in {"run", "returned", "error", "missed"}
    /\ result \in Objects \cup {NULL}
    /\ count \in [Objects -> Nat] /\ owed \in [Objects -> Int]
    /\ held \in [Containers -> [Objects -> Nat]]
    /\ escaped \subseteq Objects /\ released \subseteq Objects
    /\ fixme \subseteq Objects /\ uncounted \subseteq Objects
    /\ ops \in 0..MaxOps

\* LowerBound: as long as no container and no failed call has dropped a
\* reference to the object, ob_refcnt is at least what the RefcountValue says,
\* also when other code has taken more references.
LowerBound ==
    \A o \in seen \ (dead \cup released) : MinValue(o) <= count[o]

\* FreedIsKnown: an object is really gone exactly if its region is marked as
\* deallocated, unless it is an argument or was dropped behind the checker's
\* back: every use of it is then reported, and no other.
FreedIsKnown ==
    \A o \in seen \ (Args \cup released) : count[o] = 0 <=> o \in dead

\* NoSurprise: what PyTuple_SetItem really does is always among the outcomes
\* the checker follows, unless unknown code has kept references to the tuple.
NoSurprise == pc = "missed" => result \in escaped

\* The truth about an object when the function returns.
Truth(o) ==
    IF owed[o] > Due(o) THEN "memory leak"
    ELSE IF owed[o] < Due(o) THEN "future use-after-free"
    ELSE "balanced"

\* VerdictExact: at the return statement the checker reports of each object
\* exactly whether the function gives up as many references as it owes; only
\* those a tuple was made to drop (the FIXMEs) and those in a container whose
\* slot does not stand for them are left out.
VerdictExact ==
    pc = "returned" =>
        \A o \in seen \ (dead \cup fixme \cup uncounted) : Verdict(o) = Truth(o)
=============================================================================
