----------------------------- MODULE States_proofs -----------------------------
(***************************************************************************)
(* The State of a path.  Its memory: what it has for the Regions is right  *)
(* for every execution that takes the path, for any number of elements,    *)
(* ints, paths and statements.  Its account of references agrees with the  *)
(* execution, for any number of objects, any length of tuples and any      *)
(* number of statements.                                                   *)
(***************************************************************************)
EXTENDS RefcountFacet, Regions, FiniteSetTheorems, SequenceTheorems, WellFoundedInduction,
        TLAPS

-----------------------------------------------------------------------------
(***************************************************************************)
(* The inductive invariant, in parts.                                      *)
(***************************************************************************)
\* What is stored anywhere is an object with a region.
Known ==
    /\ dead \subseteq seen /\ Args \subseteq seen
    /\ glob \in seen \cup {NULL}
    /\ \A ci \in Containers \X Indices : slot[ci] \in seen \cup {NULL}

\* Containers hold atoms only: nothing drops a container but its DECREF.
Flat ==
    /\ released \subseteq Atoms
    /\ \A c \in Containers, d \in Containers : held[c][d] = 0

\* The refcount of a container of the function's own is known exactly, as long
\* as no code that is unknown has got hold of it.
OwnExact ==
    \A c \in (Containers \cap seen) \ (Args \cup escaped) : count[c] = MinValue(c)

\* No reference moves in the account without moving in the execution: the
\* difference between what is owned and what is owed is what is stored.
Balance ==
    /\ \A o \in Objects \ seen : owed[o] = 0
    /\ \A o \in seen \ (fixme \cup uncounted) :
           rel[o] + Stolen(o) = owed[o] + PersistentRefs(o)

IInv ==
    /\ TypeOK /\ Known /\ LowerBound /\ FreedIsKnown
    /\ Flat /\ OwnExact /\ NoSurprise /\ Balance

-----------------------------------------------------------------------------
(***************************************************************************)
(* The steps, and what the function's marks are.                           *)
(***************************************************************************)
\* A step that moves no reference: a call that fails, the end of the trace.
Quiet == UNCHANGED <<attrs, seen, rel, ext, dead, slot, glob, count, held, owed,
                     escaped, released, fixme, uncounted>>

\* The steps that the lemmas below distinguish.
LEMMA NextCases ==
    [Next]_vars =>
        \/ \E o \in Objects : NewRef(o) \/ Incref(o) \/ Decref(o)
        \/ \E x \in Atoms : \/ BorrowedRef(x) \/ DictSetItem(x) \/ ModuleAddObject(x)
                            \/ \E l \in Lists : ListAppend(l, x) \/ ListSetItem(l, x)
                            \/ \E t \in Tuples, i \in Indices : TupleSetItem(t, i, x)
        \/ \E o \in Objects, steals \in BOOLEAN : CallUnknown(o, steals)
        \/ \E x \in Atoms \cup {NULL} : StoreGlobal(x)
        \/ Quiet
BY DEF Next, Quiet, vars, checker, UseDeallocated, Returns, ErrClear, TupleUnforeseen

\* The function is given some objects, and marked as stealing some of them.
LEMMA AttrType ==
    ASSUME attrs \in Attributes
    PROVE  /\ Args \subseteq Objects /\ attrs.steals \subseteq Args
           /\ attrs.borrowed \in BOOLEAN
BY ConstantsAssumption DEF Attributes, Args

\* A function steals at most one reference to an object.
LEMMA StolenType == \A o : Stolen(o) \in {0, 1}
BY DEF Stolen

\* A reference is never dropped below zero.
LEMMA MonusType ==
    ASSUME NEW m \in Nat, NEW n \in Nat
    PROVE  Monus(m, n) \in Nat /\ Monus(m, n) <= m /\ (n = 0 => Monus(m, n) = m)
BY DEF Monus

\* A function changed at one point.
LEMMA ExceptType ==
    ASSUME NEW S, NEW T, NEW f \in [S -> T], NEW a \in S, NEW b \in T
    PROVE  [f EXCEPT ![a] = b] \in [S -> T]
OBVIOUS

\* A container that exchanges an item holds the others as before.
LEMMA ExchangeType ==
    ASSUME NEW h \in [Objects -> Nat], NEW x, NEW y
    PROVE  /\ Exchange(h, x, y) \in [Objects -> Nat]
           /\ \A o \in Objects \ {x, y} : Exchange(h, x, y)[o] = h[o]
BY DEF Exchange, Monus

\* The function starts with an account that agrees.
LEMMA InitAccount == Init => TypeOK
<1> SUFFICES ASSUME Init PROVE TypeOK
  OBVIOUS
<1>1. /\ Args \subseteq Objects /\ Objects = Atoms \cup Containers
      /\ MaxOutside \in Nat /\ MaxOps \in Nat
  BY AttrType, ConstantsAssumption DEF Init, Objects
<1>2. count \in [Objects -> Nat]
  <2> PICK outside \in [Args -> 1..MaxOutside] :
             count = [o \in Objects |-> IF o \in Args THEN outside[o] ELSE 0]
    BY DEF Init
  <2> QED
    BY <1>1
<1>3. owed \in [Objects -> Int] /\ held \in [Containers -> [Objects -> Nat]]
  BY StolenType DEF Init
<1>4. rel \in [Objects -> Int] /\ ext \in [Objects -> Nat]
  BY DEF Init
<1>5. slot \in [Containers \X Indices -> Atoms \cup {NULL}]
  BY DEF Init
<1>6. attrs \in Attributes /\ seen = Args /\ 0 \in 0..MaxOps
  BY <1>1 DEF Init
<1> QED
  BY <1>1, <1>2, <1>3, <1>4, <1>5, <1>6 DEF Init, TypeOK

-----------------------------------------------------------------------------
\* How the trace ends, and whether an exception is set.
LEMMA ControlType ==
    ASSUME TypeOK, [Next]_vars
    PROVE  /\ exception' \in BOOLEAN /\ ops' \in 0..MaxOps
           /\ pc' \in {"run", "returned", "error", "missed"}
           /\ result' \in Objects \cup {NULL}
<1>1. /\ ops \in 0..MaxOps /\ MaxOps \in Nat /\ exception \in BOOLEAN /\ seen \subseteq Objects
      /\ pc \in {"run", "returned", "error", "missed"} /\ result \in Objects \cup {NULL}
      /\ Tuples \subseteq Objects
  BY ConstantsAssumption DEF TypeOK, Objects, Containers
<1> DEFINE Control == /\ exception' \in BOOLEAN /\ ops' \in 0..MaxOps
                      /\ pc' \in {"run", "returned", "error", "missed"}
                      /\ result' \in Objects \cup {NULL}
<1>2. ASSUME NEW o \in Objects, NewRef(o)
      PROVE  Control
  <2>1. exception' \in BOOLEAN
    BY <1>1, <1>2, Zenon DEF NewRef, Fails, Step
  <2> QED
    BY <1>1, <1>2, <2>1 DEF NewRef, Fails, Step
<1>3. ASSUME NEW x \in Atoms, BorrowedRef(x)
      PROVE  Control
  <2>1. exception' \in BOOLEAN
    BY <1>1, <1>3, Zenon DEF BorrowedRef, Fails, Step, checker
  <2> QED
    BY <1>1, <1>3, <2>1 DEF BorrowedRef, Fails, Step, checker
<1>4. ASSUME NEW o \in Objects, Incref(o)
      PROVE  Control
  BY <1>1, <1>4 DEF Incref, AddRef, Usable, Step
<1>5. ASSUME NEW o \in Objects, Decref(o)
      PROVE  Control
  BY <1>1, <1>5 DEF Decref, DecRef, Usable, Step
<1>6. ASSUME NEW l \in Lists, NEW x \in Atoms, ListAppend(l, x)
      PROVE  Control
  <2>1. exception' \in BOOLEAN
    BY <1>1, <1>6, Zenon DEF ListAppend, AddRef, Fails, Usable, Step
  <2> QED
    BY <1>1, <1>6, <2>1 DEF ListAppend, AddRef, Fails, Usable, Step
<1>7. ASSUME NEW l \in Lists, NEW x \in Atoms, ListSetItem(l, x)
      PROVE  Control
  BY <1>1, <1>7 DEF ListSetItem, StealReference, Usable, Step
<1>8. ASSUME NEW x \in Atoms, DictSetItem(x)
      PROVE  Control
  <2>1. exception' \in BOOLEAN
    BY <1>1, <1>8, Zenon DEF DictSetItem, AddExternalRef, Fails, Usable, Step
  <2> QED
    BY <1>1, <1>8, <2>1 DEF DictSetItem, AddExternalRef, Fails, Usable, Step
<1>9. ASSUME NEW x \in Atoms, ModuleAddObject(x)
      PROVE  Control
  <2>1. exception' \in BOOLEAN
    BY <1>1, <1>9, Zenon DEF ModuleAddObject, StealReference, Fails, Usable, Step
  <2> QED
    BY <1>1, <1>9, <2>1 DEF ModuleAddObject, StealReference, Fails, Usable, Step
<1>10. ASSUME NEW o \in Objects, NEW steals \in BOOLEAN, CallUnknown(o, steals)
      PROVE  Control
  BY <1>1, <1>10 DEF CallUnknown, StealReference, Usable, Step
<1>11. ASSUME NEW t \in Tuples, NEW i \in Indices, NEW x \in Atoms, TupleSetItem(t, i, x)
      PROVE  Control
  <2>1. exception' \in BOOLEAN
    BY <1>1, <1>11, Zenon DEF TupleSetItem, TupleStores, TupleRefuses, Usable, Step
  <2> QED
    BY <1>1, <1>11, <2>1 DEF TupleSetItem, TupleStores, TupleRefuses, Usable, Step
<1>12. ASSUME NEW x \in Atoms \cup {NULL}, StoreGlobal(x)
      PROVE  Control
  BY <1>1, <1>12 DEF StoreGlobal, Usable, Step
<1>13. ASSUME NEW o \in Objects, UseDeallocated(o)
      PROVE  Control
  BY <1>1, <1>13 DEF UseDeallocated, Step
<1>14. ASSUME NEW t \in Tuples, NEW i \in Indices, NEW x \in Atoms, TupleUnforeseen(t, i, x)
      PROVE  Control
  BY <1>1, <1>14 DEF TupleUnforeseen, Step
<1>15. ASSUME NEW x \in Objects \cup {NULL}, Returns(x)
      PROVE  Control
  BY <1>1, <1>15 DEF Returns
<1>16. ASSUME ErrClear
      PROVE  Control
  <2>1. exception' \in BOOLEAN
    BY <1>1, <1>16, Zenon DEF ErrClear, Step
  <2> QED
    BY <1>1, <1>16, <2>1 DEF ErrClear, Step
<1>17. ASSUME UNCHANGED vars
      PROVE  Control
  BY <1>1, <1>17 DEF vars, checker
<1> HIDE DEF Control
<1>20. Control
  BY <1>2, <1>3, <1>4, <1>5, <1>6, <1>7, <1>8, <1>9, <1>10, <1>11, <1>12, <1>13, <1>14, <1>15, <1>16, <1>17 DEF Next
<1> QED
  BY <1>20 DEF Control

\* The account and the execution keep their types.
DataType ==
    /\ attrs \in Attributes
    /\ seen \subseteq Objects /\ dead \subseteq Objects
    /\ rel \in [Objects -> Int] /\ ext \in [Objects -> Nat]
    /\ slot \in [Containers \X Indices -> Atoms \cup {NULL}] /\ glob \in Atoms \cup {NULL}
    /\ count \in [Objects -> Nat] /\ owed \in [Objects -> Int]
    /\ held \in [Containers -> [Objects -> Nat]]
    /\ escaped \subseteq Objects /\ released \subseteq Objects
    /\ fixme \subseteq Objects /\ uncounted \subseteq Objects

\* Every step keeps the account and the execution well typed.
LEMMA NextData ==
    ASSUME DataType, [Next]_vars
    PROVE  DataType'
<1> USE DEF DataType
<1>0. /\ Objects = Atoms \cup Containers /\ Containers = Lists \cup Tuples
      /\ \A l \in Lists : <<l, 0>> \in Containers \X Indices
      /\ MaxOutside \in Nat
  BY ConstantsAssumption DEF Objects, Containers, Indices
<1>1. ASSUME NEW o \in Objects, NewRef(o)
      PROVE  DataType'
  BY <1>1 DEF NewRef, Fails, Step
<1>2. ASSUME NEW x \in Atoms, BorrowedRef(x)
      PROVE  DataType'
  <2>1. CASE Fails \/ UNCHANGED <<checker, count, held, owed, escaped, released, fixme, uncounted>>
    BY <2>1 DEF Fails, checker
  <2>2. CASE ~(Fails \/ UNCHANGED <<checker, count, held, owed, escaped, released, fixme, uncounted>>)
    <3>1. PICK n \in 1..MaxOutside : count' = [count EXCEPT ![x] = n]
      BY <1>2, <2>2 DEF BorrowedRef
    <3>2. x \in Objects /\ n \in Nat
      BY <1>0, <3>1
    <3>3. count' \in [Objects -> Nat]
      BY <3>1, <3>2
    <3>4. rel' \in [Objects -> Int] /\ ext' \in [Objects -> Nat]
      BY <1>2, <2>2, <3>2 DEF BorrowedRef
    <3> QED
      BY <1>2, <2>2, <3>2, <3>3, <3>4 DEF BorrowedRef
  <2> QED
    BY <2>1, <2>2
<1>3. ASSUME NEW o \in Objects, Incref(o)
      PROVE  DataType'
  BY <1>3 DEF Incref, AddRef, Usable, Step
<1>4. ASSUME NEW o \in Objects, Decref(o)
      PROVE  DataType'
  <2>1. count[o] \in Nat /\ count[o] > 0 /\ count[o] - 1 \in Nat
    BY <1>4 DEF Decref, Usable
  <2>2. \A x \in Objects : count'[x] \in Nat
    <3>1. \A x \in Objects : (IF count[o] = 1 /\ o \in Containers THEN held[o][x] ELSE 0) \in Int
      OBVIOUS
    <3> QED
      BY <1>4, <2>1, <3>1 DEF Decref, Monus
  <2>3. count' \in [Objects -> Nat] /\ held' \in [Containers -> [Objects -> Nat]]
    BY <1>4, <2>2 DEF Decref
  <2>4. rel' \in [Objects -> Int] /\ owed' \in [Objects -> Int] /\ ext' = ext
    BY <1>4 DEF Decref, DecRef
  <2>5. dead' \subseteq Objects /\ released' \subseteq Objects
    BY <1>4 DEF Decref
  <2> QED
    BY <1>4, <2>3, <2>4, <2>5 DEF Decref
<1>5. ASSUME NEW l \in Lists, NEW x \in Atoms, ListAppend(l, x)
      PROVE  DataType'
  <2>1. CASE Fails
    BY <2>1 DEF Fails
  <2>2. CASE ~Fails
    <3>1. x \in Objects /\ l \in Containers /\ <<l, 0>> \in Containers \X Indices
      BY <1>0
    <3>2. held' \in [Containers -> [Objects -> Nat]]
      <4>1. held' = [held EXCEPT ![l][x] = @ + 1]
        BY <1>5, <2>2 DEF ListAppend
      <4>2. [held[l] EXCEPT ![x] = @ + 1] \in [Objects -> Nat]
        BY <3>1
      <4> QED
        BY <3>1, <4>1, <4>2
    <3>3. slot' \in [Containers \X Indices -> Atoms \cup {NULL}]
      <4>1. slot' = [slot EXCEPT ![<<l, 0>>] = x] /\ x \in Atoms \cup {NULL}
        BY <1>5, <2>2 DEF ListAppend
      <4>2. slot \in [Containers \X Indices -> Atoms \cup {NULL}]
        OBVIOUS
      <4> QED
        BY <3>1, <4>1, <4>2, ExceptType
    <3>4. rel' \in [Objects -> Int] /\ ext' = ext /\ count' \in [Objects -> Nat]
      BY <1>5, <2>2, <3>1 DEF ListAppend, AddRef
    <3>5. uncounted' \subseteq Objects
      BY <1>5, <2>2, <3>1, <1>0 DEF ListAppend
    <3> QED
      BY <1>5, <2>2, <3>2, <3>3, <3>4, <3>5 DEF ListAppend
  <2> QED
    BY <2>1, <2>2
<1>6. ASSUME NEW l \in Lists, NEW x \in Atoms, ListSetItem(l, x)
      PROVE  DataType'
  <2>1. x \in Objects /\ l \in Containers
    BY <1>0
  <2>2. PICK old \in Atoms :
           /\ held' = [held EXCEPT ![l] = Exchange(@, x, old)]
           /\ count' = [count EXCEPT ![old] = Monus(@, 1)]
           /\ released' = released \cup {old}
    BY <1>6 DEF ListSetItem
  <2>3. old \in Objects /\ Monus(count[old], 1) \in Nat
    BY <1>0 DEF Monus
  <2>4. held' \in [Containers -> [Objects -> Nat]] /\ count' \in [Objects -> Nat]
    BY <2>1, <2>2, <2>3, ExchangeType
  <2>5. rel' \in [Objects -> Int] /\ ext' \in [Objects -> Nat] /\ owed' \in [Objects -> Int]
    BY <1>6, <2>1 DEF ListSetItem, StealReference
  <2> QED
    BY <1>6, <2>2, <2>3, <2>4, <2>5 DEF ListSetItem
<1>7. ASSUME NEW x \in Atoms, DictSetItem(x)
      PROVE  DataType'
  <2>1. CASE Fails
    BY <2>1 DEF Fails
  <2>2. CASE ~Fails
    <3>1. rel' = rel /\ ext' \in [Objects -> Nat] /\ count' \in [Objects -> Nat]
      BY <1>0, <1>7, <2>2 DEF DictSetItem, AddExternalRef
    <3> QED
      BY <1>7, <2>2, <3>1 DEF DictSetItem
  <2> QED
    BY <2>1, <2>2
<1>8. ASSUME NEW x \in Atoms, ModuleAddObject(x)
      PROVE  DataType'
  <2>1. CASE Fails
    BY <2>1 DEF Fails
  <2>2. CASE ~Fails
    <3>1. rel' \in [Objects -> Int] /\ ext' \in [Objects -> Nat] /\ owed' \in [Objects -> Int]
      BY <1>0, <1>8, <2>2 DEF ModuleAddObject, StealReference
    <3> QED
      BY <1>8, <2>2, <3>1 DEF ModuleAddObject
  <2> QED
    BY <2>1, <2>2
<1>9. ASSUME NEW o \in Objects, NEW steals \in BOOLEAN, CallUnknown(o, steals)
      PROVE  DataType'
  <2>1. rel' \in [Objects -> Int] /\ ext' \in [Objects -> Nat]
    BY <1>9 DEF CallUnknown, StealReference
  <2>2. owed' \in [Objects -> Int] /\ count' \in [Objects -> Nat]
    BY <1>9 DEF CallUnknown
  <2>3. escaped' \subseteq Objects
    BY <1>9 DEF CallUnknown
  <2> QED
    BY <1>9, <2>1, <2>2, <2>3 DEF CallUnknown
<1>10. ASSUME NEW t \in Tuples, NEW i \in Indices, NEW x \in Atoms, TupleSetItem(t, i, x)
      PROVE  DataType'
  <2>0. t \in Containers /\ x \in Objects /\ <<t, i>> \in Containers \X Indices /\ Monus(count[x], 1) \in Nat
    BY <1>0, MonusType
  <2>1. owed' \in [Objects -> Int]
    BY <1>10, <2>0 DEF TupleSetItem
  <2>2. CASE TupleRefuses(x)
    BY <1>10, <2>0, <2>1, <2>2 DEF TupleSetItem, TupleRefuses
  <2>3. CASE TupleStores(t, i, x)
    <3> DEFINE old == slot[<<t, i>>]
    <3>1. old \in Atoms \cup {NULL}
      BY <2>0
    <3>2. slot' \in [Containers \X Indices -> Atoms \cup {NULL}]
      BY <2>3, <2>0 DEF TupleStores
    <3>3. held' \in [Containers -> [Objects -> Nat]]
      BY <2>3, <2>0, ExchangeType DEF TupleStores
    <3>4. count' \in [Objects -> Nat]
      BY <2>3, MonusType DEF TupleStores
    <3>5. released' \subseteq Objects /\ fixme' \subseteq Objects /\ uncounted' \subseteq Objects
      BY <2>3, <2>0, <3>1, <1>0 DEF TupleStores
    <3> QED
      BY <1>10, <2>1, <2>3, <3>2, <3>3, <3>4, <3>5 DEF TupleSetItem, TupleStores
  <2> QED
    BY <1>10, <2>2, <2>3 DEF TupleSetItem
<1>11. ASSUME NEW x \in Atoms \cup {NULL}, StoreGlobal(x)
      PROVE  DataType'
  <2>1. owed' \in [Objects -> Int] /\ glob' \in Atoms \cup {NULL}
    BY <1>11 DEF StoreGlobal
  <2> QED
    BY <1>11, <2>1 DEF StoreGlobal
<1>12. ASSUME Quiet
      PROVE  DataType'
  BY <1>12 DEF Quiet
<1> QED
  BY <1>1, <1>2, <1>3, <1>4, <1>5, <1>6, <1>7, <1>8, <1>9, <1>10, <1>11, <1>12, NextCases

\* What the provers need to know of the constants.
LEMMA ObjectKinds ==
    /\ Objects = Atoms \cup Containers /\ Containers = Lists \cup Tuples
    /\ Atoms \cap Containers = {} /\ Lists \cap Tuples = {} /\ NULL \notin Objects
    /\ \A l \in Lists : <<l, 0>> \in Containers \X Indices
BY ConstantsAssumption DEF Objects, Containers, Indices

\* What Py_DECREF does to the counts: an object that loses more than the one
\* reference is dropped by the container that is freed.
LEMMA DecrefEffect ==
    ASSUME DataType, NEW o \in Objects, Decref(o)
    PROVE  /\ o \in seen \ dead /\ count[o] > 0 /\ count'[o] = count[o] - 1
           /\ rel'[o] = rel[o] - 1 /\ ext' = ext /\ released \subseteq released'
           /\ dead' = IF count[o] = 1 /\ MinValue(o) <= 1 /\ o \notin Args
                      THEN dead \cup {o} ELSE dead
           /\ \A x \in Objects \ {o} :
                 /\ rel'[x] = rel[x]
                 /\ count'[x] # count[x] => x \in released'
           /\ \A x \in released' \ released :
                 x \in Objects /\ o \in Containers /\ held[o][x] > 0
           /\ \A c \in Containers : held'[c] = held[c] \/ held'[c] = [x \in Objects |-> 0]
<1> USE DEF DataType
<1>1. o \in seen \ dead /\ count[o] > 0 /\ count'[o] = count[o] - 1
  BY DEF Decref, Usable
<1>2. /\ rel'[o] = rel[o] - 1 /\ ext' = ext /\ released \subseteq released'
      /\ \A x \in Objects \ {o} : rel'[x] = rel[x]
  BY DEF Decref, DecRef
<1>3. dead' = IF count[o] = 1 /\ MinValue(o) <= 1 /\ o \notin Args
              THEN dead \cup {o} ELSE dead
  BY DEF Decref, MayBe, MinValue
<1>4. ASSUME NEW x \in Objects \ {o}, count'[x] # count[x]
      PROVE  x \in released'
  BY <1>4 DEF Decref, Monus
<1>5. \A x \in released' \ released :
          x \in Objects /\ o \in Containers /\ held[o][x] > 0
  BY DEF Decref
<1>6. \A c \in Containers : held'[c] = held[c] \/ held'[c] = [x \in Objects |-> 0]
  BY DEF Decref
<1> QED
  BY <1>1, <1>2, <1>3, <1>4, <1>5, <1>6

\* What PyTuple_SetItem does to the counts, if it succeeds or fails: whatever
\* loses a reference is an atom, and known to have been dropped.
LEMMA TupleEffect ==
    ASSUME DataType, NEW t \in Tuples, NEW i \in Indices, NEW x \in Atoms,
           TupleSetItem(t, i, x)
    PROVE  /\ UNCHANGED <<attrs, seen, dead, rel, ext, glob, escaped>>
           /\ released \subseteq released' /\ released' \ released \subseteq Atoms
           /\ \A o \in Objects : count'[o] # count[o] => o \in released'
           /\ \A c \in Containers, d \in Containers : held'[c][d] = held[c][d]
<1> USE DEF DataType
<1>0. /\ Objects = Atoms \cup Containers /\ t \in Containers
      /\ Atoms \cap Containers = {} /\ NULL \notin Objects
      /\ slot[<<t, i>>] \in Atoms \cup {NULL}
  BY ObjectKinds
<1>1. UNCHANGED <<attrs, seen, dead, rel, ext, glob, escaped>>
  BY DEF TupleSetItem
<1>2. CASE TupleRefuses(x)
  BY <1>0, <1>1, <1>2 DEF TupleRefuses
<1>3. CASE TupleStores(t, i, x)
  <2>1. \A o \in Objects : count'[o] # count[o] => o \in released'
    BY <1>0, <1>3 DEF TupleStores
  <2>2. released \subseteq released' /\ released' \ released \subseteq Atoms
    BY <1>0, <1>3 DEF TupleStores
  <2>3. held[t] \in [Objects -> Nat] /\ held' = [held EXCEPT ![t] = Exchange(held[t], x, slot[<<t, i>>])]
    BY <1>0, <1>3 DEF TupleStores
  <2>4. \A d \in Containers : Exchange(held[t], x, slot[<<t, i>>])[d] = held[t][d]
    <3> DEFINE old == slot[<<t, i>>]
    <3>1. \A d \in Containers : d \in Objects \ {x, old}
      BY <1>0
    <3> HIDE DEF old
    <3>2. \A o \in Objects \ {x, old} : Exchange(held[t], x, old)[o] = held[t][o]
      <4>1. held[t] \in [Objects -> Nat]
        BY <2>3
      <4> QED
        BY <4>1 DEF Exchange, Monus
    <3>3. \A d \in Containers : Exchange(held[t], x, old)[d] = held[t][d]
      BY <3>1, <3>2
    <3> QED
      BY <3>3 DEF old
  <2> QED
    BY <1>0, <1>1, <2>1, <2>2, <2>3, <2>4
<1> QED
  BY <1>2, <1>3 DEF TupleSetItem
\* The type invariant, in its two halves.
LEMMA NextType == TypeOK /\ [Next]_vars => TypeOK'
BY NextData, ControlType DEF TypeOK, DataType

-----------------------------------------------------------------------------
(***************************************************************************)
(* What is stored anywhere has a region, and containers are flat.          *)
(***************************************************************************)
\* A freed object, an argument and whatever a slot or a global variable points
\* at has a region.
LEMMA NextKnown ==
    ASSUME DataType, Known, [Next]_vars
    PROVE  Known'
<1> USE DEF DataType, Known, Args
<1>0. /\ Objects = Atoms \cup Containers /\ Containers = Lists \cup Tuples
      /\ \A l \in Lists : <<l, 0>> \in Containers \X Indices
  BY ObjectKinds
<1>1. ASSUME NEW o \in Objects, NewRef(o)
      PROVE  Known'
  BY <1>1 DEF NewRef, Fails, Step
<1>2. ASSUME NEW x \in Atoms, BorrowedRef(x)
      PROVE  Known'
  BY <1>2 DEF BorrowedRef, Fails, Step, checker
<1>3. ASSUME NEW o \in Objects, Incref(o)
      PROVE  Known'
  BY <1>3 DEF Incref, AddRef, Usable, Step
<1>4. ASSUME NEW o \in Objects, Decref(o)
      PROVE  Known'
  BY <1>4 DEF Decref, DecRef, Usable, Step
<1>5. ASSUME NEW l \in Lists, NEW x \in Atoms, ListAppend(l, x)
      PROVE  Known'
  BY <1>5 DEF ListAppend, AddRef, Fails, Usable, Step
<1>6. ASSUME NEW l \in Lists, NEW x \in Atoms, ListSetItem(l, x)
      PROVE  Known'
  BY <1>6 DEF ListSetItem, StealReference, Usable, Step
<1>7. ASSUME NEW x \in Atoms, DictSetItem(x)
      PROVE  Known'
  BY <1>7 DEF DictSetItem, AddExternalRef, Fails, Usable, Step
<1>8. ASSUME NEW x \in Atoms, ModuleAddObject(x)
      PROVE  Known'
  BY <1>8 DEF ModuleAddObject, StealReference, Fails, Usable, Step
<1>9. ASSUME NEW o \in Objects, NEW steals \in BOOLEAN, CallUnknown(o, steals)
      PROVE  Known'
  BY <1>9 DEF CallUnknown, StealReference, Usable, Step
<1>10. ASSUME NEW t \in Tuples, NEW i \in Indices, NEW x \in Atoms, TupleSetItem(t, i, x)
      PROVE  Known'
  BY <1>10 DEF TupleSetItem, TupleStores, TupleRefuses, Usable, Step
<1>11. ASSUME NEW x \in Atoms \cup {NULL}, StoreGlobal(x)
      PROVE  Known'
  BY <1>11 DEF StoreGlobal, Usable, Step
<1>12. ASSUME Quiet
      PROVE  Known'
  BY <1>12 DEF Quiet
<1> QED
  BY <1>1, <1>2, <1>3, <1>4, <1>5, <1>6, <1>7, <1>8, <1>9, <1>10, <1>11, <1>12, NextCases

\* No container is ever stored in a container, nor dropped with one.
LEMMA NextFlat ==
    ASSUME DataType, Flat, [Next]_vars
    PROVE  Flat'
<1> USE DEF DataType, Flat
<1>0. /\ Objects = Atoms \cup Containers /\ Containers = Lists \cup Tuples
      /\ Atoms \cap Containers = {} /\ NULL \notin Objects
  BY ObjectKinds
<1>1. ASSUME NEW o \in Objects, NewRef(o)
      PROVE  Flat'
  BY <1>1 DEF NewRef, Fails, Step
<1>2. ASSUME NEW x \in Atoms, BorrowedRef(x)
      PROVE  Flat'
  BY <1>2 DEF BorrowedRef, Fails, Step, checker
<1>3. ASSUME NEW o \in Objects, Incref(o)
      PROVE  Flat'
  BY <1>3 DEF Incref, AddRef, Usable, Step
<1>4. ASSUME NEW o \in Objects, Decref(o)
      PROVE  Flat'
  <2>0. /\ \A x \in released' \ released :
               x \in Objects /\ o \in Containers /\ held[o][x] > 0
        /\ \A c \in Containers : held'[c] = held[c] \/ held'[c] = [x \in Objects |-> 0]
    BY <1>4, DecrefEffect
  <2>1. \A c \in Containers, d \in Containers : held'[c][d] = 0
    BY <1>0, <2>0
  <2>2. \A x \in released' \ released : x \in Atoms
    <3> SUFFICES ASSUME NEW x \in released' \ released, x \in Containers
                 PROVE  FALSE
      BY <1>0, <2>0
    <3>1. held[o][x] > 0 /\ o \in Containers
      BY <2>0
    <3>2. held[o][x] = 0
      BY <3>1
    <3> QED
      BY <3>1, <3>2
  <2> QED
    BY <2>1, <2>2
<1>5. ASSUME NEW l \in Lists, NEW x \in Atoms, ListAppend(l, x)
      PROVE  Flat'
  <2>1. released' = released
    BY <1>5 DEF ListAppend, Fails
  <2>2. \/ held' = held
        \/ held' = [held EXCEPT ![l] = [held[l] EXCEPT ![x] = held[l][x] + 1]]
    BY <1>5, Zenon DEF ListAppend, Fails
  <2>3. \A d \in Containers : d # x
    BY <1>0
  <2> QED
    BY <1>0, <2>1, <2>2, <2>3
<1>6. ASSUME NEW l \in Lists, NEW x \in Atoms, ListSetItem(l, x)
      PROVE  Flat'
  <2>1. PICK old \in Atoms : /\ held' = [held EXCEPT ![l] = Exchange(held[l], x, old)]
                            /\ released' = released \cup {old}
    BY <1>6 DEF ListSetItem
  <2>2. \A d \in Containers : d \in Objects \ {x, old}
    BY <1>0
  <2>3. \A d \in Containers : Exchange(held[l], x, old)[d] = held[l][d]
    <3>1. held[l] \in [Objects -> Nat]
      BY <1>0
    <3> QED
      BY <2>2, <3>1, ExchangeType
  <2> QED
    BY <1>0, <2>1, <2>3
<1>7. ASSUME NEW x \in Atoms, DictSetItem(x)
      PROVE  Flat'
  BY <1>7 DEF DictSetItem, AddExternalRef, Fails, Usable, Step
<1>8. ASSUME NEW x \in Atoms, ModuleAddObject(x)
      PROVE  Flat'
  BY <1>8 DEF ModuleAddObject, StealReference, Fails, Usable, Step
<1>9. ASSUME NEW o \in Objects, NEW steals \in BOOLEAN, CallUnknown(o, steals)
      PROVE  Flat'
  BY <1>9 DEF CallUnknown, StealReference, Usable, Step
<1>10. ASSUME NEW t \in Tuples, NEW i \in Indices, NEW x \in Atoms, TupleSetItem(t, i, x)
      PROVE  Flat'
  <2>1. released' \subseteq Atoms
    BY <1>10, TupleEffect
  <2>2. \A c \in Containers, d \in Containers : held'[c][d] = 0
    BY <1>10, TupleEffect
  <2> QED
    BY <2>1, <2>2
<1>11. ASSUME NEW x \in Atoms \cup {NULL}, StoreGlobal(x)
      PROVE  Flat'
  BY <1>11 DEF StoreGlobal, Usable, Step
<1>12. ASSUME Quiet
      PROVE  Flat'
  BY <1>12 DEF Quiet
<1> QED
  BY <1>1, <1>2, <1>3, <1>4, <1>5, <1>6, <1>7, <1>8, <1>9, <1>10, <1>11, <1>12, NextCases

-----------------------------------------------------------------------------
(***************************************************************************)
(* The account is a lower bound, and tells what is freed.                  *)
(***************************************************************************)
\* Every step changes the account of an object by no more than its refcount, or
\* drops a reference behind the checker's back.
LEMMA NextLowerBound ==
    ASSUME DataType, DataType', Known, LowerBound, [Next]_vars
    PROVE  LowerBound'
<1> USE DEF DataType, LowerBound, MinValue
<1>0. Objects = Atoms \cup Containers /\ Containers = Lists \cup Tuples /\ NULL \notin Objects
  BY ObjectKinds
<1>1. ASSUME NEW o \in Objects, NewRef(o)
      PROVE  LowerBound'
  BY <1>1 DEF NewRef, Fails, Step
<1>2. ASSUME NEW x \in Atoms, BorrowedRef(x)
      PROVE  LowerBound'
  BY <1>2 DEF BorrowedRef, Fails, Step, checker
<1>3. ASSUME NEW o \in Objects, Incref(o)
      PROVE  LowerBound'
  BY <1>3 DEF Incref, AddRef, Usable, Step
<1>4. ASSUME NEW o \in Objects, Decref(o)
      PROVE  LowerBound'
  <2> SUFFICES ASSUME NEW y \in seen' \ (dead' \cup released')
               PROVE  MinValue(y)' <= count'[y]
    OBVIOUS
  <2>1. seen' = seen /\ attrs' = attrs /\ y \in Objects
    BY <1>4 DEF Decref
  <2>2. CASE y = o
    BY <1>4, <2>1, <2>2, DecrefEffect
  <2>3. CASE y # o
    BY <1>4, <2>1, <2>3, DecrefEffect
  <2> QED
    BY <2>2, <2>3
<1>5. ASSUME NEW l \in Lists, NEW x \in Atoms, ListAppend(l, x)
      PROVE  LowerBound'
  BY <1>5 DEF ListAppend, AddRef, Fails, Usable, Step
<1>6. ASSUME NEW l \in Lists, NEW x \in Atoms, ListSetItem(l, x)
      PROVE  LowerBound'
  BY <1>6 DEF ListSetItem, StealReference, Usable, Step
<1>7. ASSUME NEW x \in Atoms, DictSetItem(x)
      PROVE  LowerBound'
  BY <1>7 DEF DictSetItem, AddExternalRef, Fails, Usable, Step
<1>8. ASSUME NEW x \in Atoms, ModuleAddObject(x)
      PROVE  LowerBound'
  BY <1>8 DEF ModuleAddObject, StealReference, Fails, Usable, Step
<1>9. ASSUME NEW o \in Objects, NEW steals \in BOOLEAN, CallUnknown(o, steals)
      PROVE  LowerBound'
  BY <1>9 DEF CallUnknown, StealReference, Usable, Step
<1>10. ASSUME NEW t \in Tuples, NEW i \in Indices, NEW x \in Atoms, TupleSetItem(t, i, x)
      PROVE  LowerBound'
  BY <1>10, TupleEffect DEF TupleSetItem
<1>11. ASSUME NEW x \in Atoms \cup {NULL}, StoreGlobal(x)
      PROVE  LowerBound'
  BY <1>11 DEF StoreGlobal, Usable, Step
<1>12. ASSUME Quiet
      PROVE  LowerBound'
  BY <1>12 DEF Quiet
<1> QED
  BY <1>1, <1>2, <1>3, <1>4, <1>5, <1>6, <1>7, <1>8, <1>9, <1>10, <1>11, <1>12, NextCases

\* The last reference to an object is dropped exactly when its region is marked.
LEMMA NextFreed ==
    ASSUME DataType, DataType', Known, Flat, LowerBound, FreedIsKnown, [Next]_vars
    PROVE  FreedIsKnown'
<1> USE DEF DataType, Known, LowerBound, MinValue, FreedIsKnown, Args
<1>0. Objects = Atoms \cup Containers /\ Containers = Lists \cup Tuples /\ NULL \notin Objects
  BY ObjectKinds
<1>1. ASSUME NEW o \in Objects, NewRef(o)
      PROVE  FreedIsKnown'
  BY <1>1 DEF NewRef, Fails, Step
<1>2. ASSUME NEW x \in Atoms, BorrowedRef(x)
      PROVE  FreedIsKnown'
  BY <1>2 DEF BorrowedRef, Fails, Step, checker
<1>3. ASSUME NEW o \in Objects, Incref(o)
      PROVE  FreedIsKnown'
  BY <1>3 DEF Incref, AddRef, Usable, Step
<1>4. ASSUME NEW o \in Objects, Decref(o)
      PROVE  FreedIsKnown'
  <2> SUFFICES ASSUME NEW y \in seen' \ (Args' \cup released')
               PROVE  count'[y] = 0 <=> y \in dead'
    OBVIOUS
  <2>1. seen' = seen /\ attrs' = attrs /\ y \in Objects
    BY <1>4 DEF Decref
  <2>2. CASE y = o
    BY <1>4, <2>1, <2>2, DecrefEffect
  <2>3. CASE y # o
    BY <1>4, <2>1, <2>3, DecrefEffect
  <2> QED
    BY <2>2, <2>3
<1>5. ASSUME NEW l \in Lists, NEW x \in Atoms, ListAppend(l, x)
      PROVE  FreedIsKnown'
  BY <1>5 DEF ListAppend, AddRef, Fails, Usable, Step
<1>6. ASSUME NEW l \in Lists, NEW x \in Atoms, ListSetItem(l, x)
      PROVE  FreedIsKnown'
  BY <1>6 DEF ListSetItem, StealReference, Usable, Step
<1>7. ASSUME NEW x \in Atoms, DictSetItem(x)
      PROVE  FreedIsKnown'
  BY <1>7 DEF DictSetItem, AddExternalRef, Fails, Usable, Step
<1>8. ASSUME NEW x \in Atoms, ModuleAddObject(x)
      PROVE  FreedIsKnown'
  BY <1>8 DEF ModuleAddObject, StealReference, Fails, Usable, Step
<1>9. ASSUME NEW o \in Objects, NEW steals \in BOOLEAN, CallUnknown(o, steals)
      PROVE  FreedIsKnown'
  BY <1>9 DEF CallUnknown, StealReference, Usable, Step
<1>10. ASSUME NEW t \in Tuples, NEW i \in Indices, NEW x \in Atoms, TupleSetItem(t, i, x)
      PROVE  FreedIsKnown'
  BY <1>10, TupleEffect DEF TupleSetItem
<1>11. ASSUME NEW x \in Atoms \cup {NULL}, StoreGlobal(x)
      PROVE  FreedIsKnown'
  BY <1>11 DEF StoreGlobal, Usable, Step
<1>12. ASSUME Quiet
      PROVE  FreedIsKnown'
  BY <1>12 DEF Quiet
<1> QED
  BY <1>1, <1>2, <1>3, <1>4, <1>5, <1>6, <1>7, <1>8, <1>9, <1>10, <1>11, <1>12, NextCases

\* A container that only the function knows: both counts change together.
LEMMA NextOwnExact ==
    ASSUME DataType, DataType', Known, Flat, OwnExact, [Next]_vars
    PROVE  OwnExact'
<1> USE DEF DataType, Known, Flat, MinValue, OwnExact, Args
<1>0. /\ Objects = Atoms \cup Containers /\ Containers = Lists \cup Tuples
      /\ Atoms \cap Containers = {} /\ NULL \notin Objects
  BY ObjectKinds
<1>1. ASSUME NEW o \in Objects, NewRef(o)
      PROVE  OwnExact'
  BY <1>1 DEF NewRef, Fails, Step
<1>2. ASSUME NEW x \in Atoms, BorrowedRef(x)
      PROVE  OwnExact'
  <2>1. \A y \in Objects \ {x} : count'[y] = count[y] /\ rel'[y] = rel[y] /\ ext'[y] = ext[y]
    BY <1>2 DEF BorrowedRef, Fails, checker
  <2>2. seen' \subseteq seen \cup {x} /\ escaped' = escaped /\ attrs' = attrs
    BY <1>2 DEF BorrowedRef, Fails, checker
  <2> QED
    BY <1>0, <2>1, <2>2
<1>3. ASSUME NEW o \in Objects, Incref(o)
      PROVE  OwnExact'
  BY <1>3 DEF Incref, AddRef, Usable, Step
<1>4. ASSUME NEW o \in Objects, Decref(o)
      PROVE  OwnExact'
  <2> SUFFICES ASSUME NEW y \in (Containers \cap seen') \ (Args' \cup escaped')
               PROVE  count'[y] = MinValue(y)'
    OBVIOUS
  <2>1. seen' = seen /\ attrs' = attrs /\ escaped' = escaped /\ y \in Objects
    BY <1>0, <1>4 DEF Decref
  <2>2. CASE y = o
    BY <1>4, <2>1, <2>2, DecrefEffect
  <2>3. CASE y # o
    <3>1. y \notin released' \ released /\ y \notin released
      <4>1. \A x \in released' \ released : o \in Containers /\ held[o][x] > 0
        BY <1>4, DecrefEffect
      <4>2. y \in Containers /\ \A c \in Containers : held[c][y] = 0
        OBVIOUS
      <4>3. y \notin released' \ released
        <5> SUFFICES ASSUME y \in released' \ released PROVE FALSE
          OBVIOUS
        <5>1. o \in Containers /\ held[o][y] > 0
          BY <4>1
        <5>2. held[o][y] = 0
          BY <4>2, <5>1
        <5> QED
          BY <5>1, <5>2
      <4> QED
        BY <1>0, <4>2, <4>3
    <3> QED
      BY <1>4, <2>1, <2>3, <3>1, DecrefEffect
  <2> QED
    BY <2>2, <2>3
<1>5. ASSUME NEW l \in Lists, NEW x \in Atoms, ListAppend(l, x)
      PROVE  OwnExact'
  BY <1>5 DEF ListAppend, AddRef, Fails, Usable, Step
<1>6. ASSUME NEW l \in Lists, NEW x \in Atoms, ListSetItem(l, x)
      PROVE  OwnExact'
  BY <1>6 DEF ListSetItem, StealReference, Usable, Step
<1>7. ASSUME NEW x \in Atoms, DictSetItem(x)
      PROVE  OwnExact'
  <2>1. \A y \in Objects \ {x} : rel'[y] = rel[y] /\ ext'[y] = ext[y] /\ count'[y] = count[y]
    BY <1>7 DEF DictSetItem, AddExternalRef, Fails
  <2>2. seen' = seen /\ escaped' = escaped /\ attrs' = attrs
    BY <1>7 DEF DictSetItem, Fails
  <2> QED
    BY <1>0, <2>1, <2>2
<1>8. ASSUME NEW x \in Atoms, ModuleAddObject(x)
      PROVE  OwnExact'
  <2>1. \A y \in Objects \ {x} : rel'[y] = rel[y] /\ ext'[y] = ext[y]
    BY <1>8 DEF ModuleAddObject, StealReference, Fails
  <2>2. count' = count /\ seen' = seen /\ escaped' = escaped /\ attrs' = attrs
    BY <1>8 DEF ModuleAddObject, Fails
  <2> QED
    BY <1>0, <2>1, <2>2
<1>9. ASSUME NEW o \in Objects, NEW steals \in BOOLEAN, CallUnknown(o, steals)
      PROVE  OwnExact'
  BY <1>9 DEF CallUnknown, StealReference, Usable, Step
<1>10. ASSUME NEW t \in Tuples, NEW i \in Indices, NEW x \in Atoms, TupleSetItem(t, i, x)
      PROVE  OwnExact'
  BY <1>0, <1>10, TupleEffect
<1>11. ASSUME NEW x \in Atoms \cup {NULL}, StoreGlobal(x)
      PROVE  OwnExact'
  BY <1>11 DEF StoreGlobal, Usable, Step
<1>12. ASSUME Quiet
      PROVE  OwnExact'
  BY <1>12 DEF Quiet
<1> QED
  BY <1>1, <1>2, <1>3, <1>4, <1>5, <1>6, <1>7, <1>8, <1>9, <1>10, <1>11, <1>12, NextCases


-----------------------------------------------------------------------------
(***************************************************************************)
(* What PyTuple_SetItem does is foreseen.                                  *)
(***************************************************************************)
\* The outcome that is possible is among those followed, if unknown code has not
\* got hold of the tuple.
LEMMA Foreseen ==
    ASSUME DataType, Flat, LowerBound, OwnExact,
           NEW t \in Tuples, NEW i \in Indices, t \in seen \ dead, count[t] > 0,
           ~(RealOutcomes(t, i) \subseteq TupleOutcomes(t, i))
    PROVE  t \in escaped
<1>1. t \in Containers /\ t \in Objects /\ t \notin released
  BY ObjectKinds DEF Flat
<1>2. MinValue(t) <= count[t] /\ MinValue(t) \in Int /\ count[t] \in Nat
  BY <1>1 DEF LowerBound, DataType, MinValue
<1>3. t \notin Args
  BY <1>2 DEF RealOutcomes, TupleOutcomes, MayBe
<1>4. count[t] # MinValue(t)
  BY <1>2 DEF RealOutcomes, TupleOutcomes, MayBe
<1> QED
  BY <1>1, <1>3, <1>4 DEF OwnExact

\* A path leaves the traces only at a call of PyTuple_SetItem.
LEMMA MissedHere ==
    ASSUME Next, pc' = "missed"
    PROVE  \E t \in Tuples, i \in Indices, x \in Atoms : TupleUnforeseen(t, i, x)
<1>1. ASSUME NEW o \in Objects, NewRef(o)
      PROVE  FALSE
  BY <1>1 DEF NewRef, Fails, Step
<1>2. ASSUME NEW x \in Atoms, BorrowedRef(x)
      PROVE  FALSE
  BY <1>2 DEF BorrowedRef, Fails, Step, checker
<1>3. ASSUME NEW o \in Objects, Incref(o)
      PROVE  FALSE
  BY <1>3 DEF Incref, AddRef, Usable, Step
<1>4. ASSUME NEW o \in Objects, Decref(o)
      PROVE  FALSE
  BY <1>4 DEF Decref, DecRef, Usable, Step
<1>5. ASSUME NEW l \in Lists, NEW x \in Atoms, ListAppend(l, x)
      PROVE  FALSE
  BY <1>5 DEF ListAppend, AddRef, Fails, Usable, Step
<1>6. ASSUME NEW l \in Lists, NEW x \in Atoms, ListSetItem(l, x)
      PROVE  FALSE
  BY <1>6 DEF ListSetItem, StealReference, Usable, Step
<1>7. ASSUME NEW x \in Atoms, DictSetItem(x)
      PROVE  FALSE
  BY <1>7 DEF DictSetItem, AddExternalRef, Fails, Usable, Step
<1>8. ASSUME NEW x \in Atoms, ModuleAddObject(x)
      PROVE  FALSE
  BY <1>8 DEF ModuleAddObject, StealReference, Fails, Usable, Step
<1>9. ASSUME NEW o \in Objects, NEW steals \in BOOLEAN, CallUnknown(o, steals)
      PROVE  FALSE
  BY <1>9 DEF CallUnknown, StealReference, Usable, Step
<1>10. ASSUME NEW t \in Tuples, NEW i \in Indices, NEW x \in Atoms, TupleSetItem(t, i, x)
      PROVE  FALSE
  BY <1>10 DEF TupleSetItem, TupleStores, TupleRefuses, Usable, Step
<1>11. ASSUME NEW x \in Atoms \cup {NULL}, StoreGlobal(x)
      PROVE  FALSE
  BY <1>11 DEF StoreGlobal, Usable, Step
<1>12. ASSUME NEW o \in Objects, UseDeallocated(o)
      PROVE  FALSE
  BY <1>12 DEF UseDeallocated, Step
<1>13. ASSUME NEW x \in Objects \cup {NULL}, Returns(x)
      PROVE  FALSE
  BY <1>13 DEF Returns
<1>14. ASSUME ErrClear
      PROVE  FALSE
  BY <1>14 DEF ErrClear, Step
<1> QED
  BY <1>1, <1>2, <1>3, <1>4, <1>5, <1>6, <1>7, <1>8, <1>9, <1>10, <1>11, <1>12, <1>13, <1>14 DEF Next

\* No step of the function's own makes the path leave the traces.
LEMMA NextNoSurprise ==
    ASSUME DataType, Flat, LowerBound, OwnExact, NoSurprise, [Next]_vars
    PROVE  NoSurprise'
<1> SUFFICES ASSUME pc' = "missed" PROVE result' \in escaped'
  BY DEF NoSurprise
<1>1. CASE UNCHANGED vars
  BY <1>1 DEF vars, checker, NoSurprise
<1>2. CASE Next
  <2>1. PICK t \in Tuples, i \in Indices, x \in Atoms : TupleUnforeseen(t, i, x)
    BY <1>2, MissedHere
  <2>2. /\ t \in seen \ dead /\ count[t] > 0 /\ result' = t /\ escaped' = escaped
        /\ ~(RealOutcomes(t, i) \subseteq TupleOutcomes(t, i))
    BY <2>1 DEF TupleUnforeseen, Usable
  <2> QED
    BY <2>2, Foreseen
<1> QED
  BY <1>1, <1>2

-----------------------------------------------------------------------------
(***************************************************************************)
(* The balance of what is owned, owed and stored.                          *)
(***************************************************************************)
\* An object has finitely many references from the heap and from globals.
LEMMA PersistentType ==
    \A o : /\ IsFiniteSet(PersistentSlots(o)) /\ Cardinality(PersistentSlots(o)) \in Nat
           /\ PersistentRefs(o) \in Nat
<1>1. IsFiniteSet(Containers \ Args) /\ IsFiniteSet(Indices)
  BY ConstantsAssumption, FS_Subset, FS_Interval DEF Objects, Containers, Indices
<1>2. IsFiniteSet(HeapSlots)
  BY <1>1, FS_Product DEF HeapSlots
<1>3. \A o : PersistentSlots(o) \in SUBSET HeapSlots
  BY DEF PersistentSlots
<1> HIDE DEF PersistentSlots
<1>4. \A o : IsFiniteSet(PersistentSlots(o)) /\ Cardinality(PersistentSlots(o)) \in Nat
  BY <1>2, <1>3, FS_Subset, FS_CardinalityType
<1> QED
  BY <1>4 DEF PersistentRefs

\* Where no pointer is stored, no reference is persistent.
LEMMA PersistentSame ==
    ASSUME attrs' = attrs, slot' = slot, glob' = glob
    PROVE  \A o : PersistentRefs(o)' = PersistentRefs(o) /\ Stolen(o)' = Stolen(o)
BY DEF PersistentRefs, PersistentSlots, HeapSlots, Args, Stolen

\* Nothing is stored of an object that the function has not seen.
LEMMA UnseenUnstored ==
    ASSUME DataType, Known, NEW o \in Objects \ seen
    PROVE  PersistentRefs(o) = 0 /\ Stolen(o) = 0
<1>1. o # NULL /\ o # glob
  BY ConstantsAssumption DEF Known
<1>2. PersistentSlots(o) = {}
  BY <1>1 DEF Known, PersistentSlots, HeapSlots
<1>3. o \notin attrs.steals
  BY AttrType DEF DataType, Known, Args
<1> QED
  BY <1>1, <1>2, <1>3, FS_EmptySet DEF PersistentRefs, Stolen

\* A pointer is stored in a slot: one reference more to what it points at, if
\* the container is on the heap, and the others keep theirs but for the object
\* that was in the slot.
LEMMA StoreSlot ==
    ASSUME DataType, NEW ci \in Containers \X Indices, NEW x \in Atoms,
           slot' = [slot EXCEPT ![ci] = x], attrs' = attrs, glob' = glob, NEW o \in Objects
    PROVE  /\ (o # x /\ o # slot[ci]) => PersistentRefs(o)' = PersistentRefs(o)
           /\ (o = x /\ slot[ci] # x /\ ci \in HeapSlots) =>
                  PersistentRefs(o)' = PersistentRefs(o) + 1
           /\ Stolen(o)' = Stolen(o)
<1> USE DEF DataType
<1>1. HeapSlots' = HeapSlots /\ HeapSlots \subseteq Containers \X Indices
  BY DEF HeapSlots, Args
<1>2. ASSUME o # x, o # slot[ci] PROVE PersistentRefs(o)' = PersistentRefs(o)
  <2>1. \A d \in HeapSlots : slot'[d] = o <=> slot[d] = o
    BY <1>1, <1>2
  <2>2. PersistentSlots(o)' = PersistentSlots(o)
    BY <1>1, <2>1 DEF PersistentSlots
  <2> QED
    BY <2>2 DEF PersistentRefs
<1>3. ASSUME o = x, slot[ci] # x, ci \in HeapSlots
      PROVE  PersistentRefs(o)' = PersistentRefs(o) + 1
  <2>1. \A d \in HeapSlots : slot'[d] = o <=> slot[d] = o \/ d = ci
    BY <1>1, <1>3
  <2>2. PersistentSlots(o)' = PersistentSlots(o) \cup {ci} /\ ci \notin PersistentSlots(o)
    BY <1>1, <1>3, <2>1 DEF PersistentSlots
  <2>3. Cardinality(PersistentSlots(o)') = Cardinality(PersistentSlots(o)) + 1
    BY <2>2, PersistentType, FS_AddElement
  <2>4. Cardinality(PersistentSlots(o))' = Cardinality(PersistentSlots(o)')
    OBVIOUS
  <2> QED
    BY <2>3, <2>4, PersistentType DEF PersistentRefs
<1> QED
  BY <1>2, <1>3 DEF Stolen

\* The object that is newly in the slot of a container on the heap.
LEMMA StoreSlotNew ==
    ASSUME DataType, NEW ci \in Containers \X Indices, NEW x \in Atoms,
           slot' = [slot EXCEPT ![ci] = x], attrs' = attrs, glob' = glob,
           slot[ci] # x, ci \in HeapSlots
    PROVE  PersistentRefs(x)' = PersistentRefs(x) + 1
<1>1. x \in Objects
  BY ObjectKinds
<1> QED
  BY <1>1, StoreSlot, Zenon

\* A reference that is given to the function or taken from it, in the account
\* and in the execution alike, leaves the balance.
LEMMA BalanceSame ==
    ASSUME DataType, Balance, attrs' = attrs, slot' = slot, glob' = glob, seen' = seen,
           fixme \subseteq fixme', uncounted \subseteq uncounted',
           \A o \in Objects : rel'[o] \in Int /\ owed'[o] \in Int
                              /\ rel'[o] - rel[o] = owed'[o] - owed[o],
           \A o \in Objects \ seen : owed'[o] = owed[o]
    PROVE  Balance'
<1>1. \A o : /\ PersistentRefs(o)' = PersistentRefs(o) /\ Stolen(o)' = Stolen(o)
             /\ PersistentRefs(o) \in Nat /\ Stolen(o) \in {0, 1}
  BY PersistentSame, PersistentType, StolenType
<1>2. \A o \in Objects \ seen' : owed'[o] = 0
  BY DEF Balance
<1>3. ASSUME NEW o \in seen' \ (fixme' \cup uncounted')
      PROVE  rel'[o] + Stolen(o)' = owed'[o] + PersistentRefs(o)'
  <2>1. o \in Objects /\ rel[o] + Stolen(o) = owed[o] + PersistentRefs(o)
    BY DEF Balance, DataType
  <2>2. rel[o] \in Int /\ owed[o] \in Int
    BY <2>1 DEF DataType
  <2> QED
    BY <1>1, <2>1, <2>2
<1> QED
  BY <1>2, <1>3 DEF Balance

\* Every step keeps the balance.
LEMMA NextBalance ==
    ASSUME DataType, DataType', Known, Balance, [Next]_vars
    PROVE  Balance'
<1> USE DEF DataType
<1>0. Objects = Atoms \cup Containers /\ Containers = Lists \cup Tuples /\ NULL \notin Objects
  BY ObjectKinds
<1>q. ASSUME Quiet
      PROVE  Balance'
  BY <1>q, BalanceSame DEF Quiet
<1>f. ASSUME Fails
      PROVE  Balance'
  BY <1>f, <1>q DEF Fails, Quiet
<1>1. ASSUME NEW o \in Objects, NewRef(o)
      PROVE  Balance'
  <2>1. CASE Fails
    BY <2>1, <1>f
  <2>2. CASE ~Fails
    <3>1. /\ o \in Objects \ seen /\ seen' = seen \cup {o} /\ rel'[o] = 1 /\ owed'[o] = 1
          /\ \A y \in Objects \ {o} : rel'[y] = rel[y] /\ owed'[y] = owed[y]
          /\ UNCHANGED <<attrs, slot, glob, fixme, uncounted>>
      BY <1>1, <2>2 DEF NewRef
    <3>2. PersistentRefs(o) = 0 /\ Stolen(o) = 0
      BY <3>1, UnseenUnstored
    <3>3. \A y : PersistentRefs(y)' = PersistentRefs(y) /\ Stolen(y)' = Stolen(y)
      BY <3>1, PersistentSame
    <3> QED
      BY <3>1, <3>2, <3>3 DEF Balance
  <2> QED
    BY <2>1, <2>2
<1>2. ASSUME NEW x \in Atoms, BorrowedRef(x)
      PROVE  Balance'
  <2>1. CASE Fails
    BY <2>1, <1>f
  <2>2. CASE UNCHANGED <<checker, count, held, owed, escaped, released, fixme, uncounted>>
    BY <2>2, <1>q DEF Quiet, checker
  <2>3. CASE ~Fails /\ ~UNCHANGED <<checker, count, held, owed, escaped, released, fixme, uncounted>>
    <3>1. /\ x \in Objects \ seen /\ seen' = seen \cup {x} /\ rel'[x] = 0 /\ owed' = owed
          /\ \A y \in Objects \ {x} : rel'[y] = rel[y]
          /\ UNCHANGED <<attrs, slot, glob, fixme, uncounted>>
      BY <1>0, <1>2, <2>3 DEF BorrowedRef
    <3>2. PersistentRefs(x) = 0 /\ Stolen(x) = 0
      BY <3>1, UnseenUnstored
    <3>3. \A y : PersistentRefs(y)' = PersistentRefs(y) /\ Stolen(y)' = Stolen(y)
      BY <3>1, PersistentSame
    <3> QED
      BY <3>1, <3>2, <3>3 DEF Balance
  <2> QED
    BY <2>1, <2>2, <2>3
<1>3. ASSUME NEW o \in Objects, Incref(o)
      PROVE  Balance'
  <2>1. /\ UNCHANGED <<attrs, slot, glob, seen, fixme, uncounted>> /\ o \in seen
        /\ rel' = [rel EXCEPT ![o] = @ + 1] /\ owed' = [owed EXCEPT ![o] = @ + 1]
    BY <1>3 DEF Incref, AddRef, Usable
  <2> QED
    BY <2>1, BalanceSame
<1>4. ASSUME NEW o \in Objects, Decref(o)
      PROVE  Balance'
  <2>1. /\ UNCHANGED <<attrs, slot, glob, seen, fixme, uncounted>> /\ o \in seen
        /\ rel' = [rel EXCEPT ![o] = @ - 1] /\ owed' = [owed EXCEPT ![o] = @ - 1]
    BY <1>4 DEF Decref, DecRef, Usable
  <2> QED
    BY <2>1, BalanceSame
<1>5. ASSUME NEW l \in Lists, NEW x \in Atoms, ListAppend(l, x)
      PROVE  Balance'
  <2>1. CASE Fails
    BY <2>1, <1>f
  <2>2. CASE ~Fails
    <3> DEFINE ci == <<l, 0>>
    <3>1. ci \in Containers \X Indices /\ x \in Objects
      BY <1>0, ObjectKinds
    <3>2. /\ UNCHANGED <<attrs, glob, seen, owed, fixme>> /\ x \in seen
          /\ rel' = [rel EXCEPT ![x] = @ + 1] /\ slot' = [slot EXCEPT ![ci] = x]
          /\ uncounted' = uncounted \cup (IF l \in Args THEN {x} ELSE {slot[ci]} \ {NULL})
      BY <1>5, <2>2 DEF ListAppend, AddRef, Usable
    <3>3. ci \in HeapSlots <=> l \notin Args
      BY <3>1, <1>0 DEF HeapSlots
    <3> HIDE DEF ci
    <3>4. ASSUME NEW y \in seen' \ (fixme' \cup uncounted')
          PROVE  rel'[y] + Stolen(y)' = owed'[y] + PersistentRefs(y)'
      <4>1. /\ y \in Objects /\ y \notin uncounted /\ y \in seen /\ y # NULL
            /\ rel[y] + Stolen(y) = owed[y] + PersistentRefs(y)
        BY <1>0, <3>2, <3>4 DEF Balance
      <4>2. PersistentRefs(y) \in Nat /\ Stolen(y) \in {0, 1} /\ Stolen(y)' = Stolen(y)
        BY <3>1, <3>2, <4>1, PersistentType, StolenType, StoreSlot
      <4>3. CASE y = x
        <5>1. l \notin Args /\ slot[ci] # x
          BY <3>2, <3>4, <4>1, <4>3
        <5>2. ci \in HeapSlots
          BY <3>3, <5>1
        <5>3. slot' = [slot EXCEPT ![ci] = x] /\ attrs' = attrs /\ glob' = glob
          BY <3>2
        <5>4. PersistentRefs(x)' = PersistentRefs(x) + 1
          BY <3>1, <5>1, <5>2, <5>3, StoreSlotNew, Zenon
        <5>5. PersistentRefs(y)' = PersistentRefs(y) + 1
          BY <4>3, <5>4
        <5> QED
          BY <3>1, <3>2, <4>1, <4>2, <4>3, <5>5
      <4>4. CASE y # x
        <5>1. CASE y = slot[ci] /\ l \in Args
          <6>1. PersistentSlots(y)' = PersistentSlots(y)
            <7>1. HeapSlots' = HeapSlots /\ ci \notin HeapSlots
                  /\ HeapSlots \subseteq Containers \X Indices
              BY <3>2, <3>3, <5>1 DEF HeapSlots, Args
            <7>2. \A d \in HeapSlots : slot'[d] = slot[d]
              BY <3>1, <3>2, <7>1
            <7> QED
              BY <7>1, <7>2 DEF PersistentSlots
          <6>2. PersistentRefs(y)' = PersistentRefs(y)
            BY <6>1, <3>2 DEF PersistentRefs
          <6> QED
            BY <3>1, <3>2, <4>1, <4>2, <4>4, <6>2
        <5>2. CASE y # slot[ci]
          <6>1. PersistentRefs(y)' = PersistentRefs(y)
            BY <3>1, <3>2, <4>1, <4>4, <5>2, StoreSlot
          <6> QED
            BY <3>1, <3>2, <4>1, <4>2, <4>4, <6>1
        <5>3. CASE y = slot[ci] /\ l \notin Args
          BY <3>2, <3>4, <4>1, <5>3
        <5> QED
          BY <5>1, <5>2, <5>3
      <4> QED
        BY <4>3, <4>4
    <3>5. \A y \in Objects \ seen' : owed'[y] = 0
      BY <3>2 DEF Balance
    <3> QED
      BY <3>4, <3>5 DEF Balance
  <2> QED
    BY <2>1, <2>2
<1>6. ASSUME NEW l \in Lists, NEW x \in Atoms, ListSetItem(l, x)
      PROVE  Balance'
  <2>1. /\ UNCHANGED <<attrs, slot, glob, seen, fixme, uncounted>> /\ x \in seen
        /\ rel' = [rel EXCEPT ![x] = @ - 1] /\ owed' = [owed EXCEPT ![x] = @ - 1]
    BY <1>6 DEF ListSetItem, StealReference, Usable
  <2>2. x \in Objects
    BY <2>1
  <2>3. \A y \in Objects : /\ rel'[y] \in Int /\ owed'[y] \in Int
                          /\ rel'[y] - rel[y] = owed'[y] - owed[y]
    BY <2>1, <2>2
  <2>4. \A y \in Objects \ seen : owed'[y] = owed[y]
    BY <2>1, <2>2
  <2>5. fixme \subseteq fixme' /\ uncounted \subseteq uncounted'
    BY <2>1
  <2> QED
    BY <2>1, <2>3, <2>4, <2>5, BalanceSame
<1>7. ASSUME NEW x \in Atoms, DictSetItem(x)
      PROVE  Balance'
  <2>1. UNCHANGED <<attrs, slot, glob, seen, fixme, uncounted, rel, owed>>
    BY <1>7 DEF DictSetItem, AddExternalRef, Fails
  <2> QED
    BY <2>1, BalanceSame
<1>8. ASSUME NEW x \in Atoms, ModuleAddObject(x)
      PROVE  Balance'
  <2>1. CASE Fails
    BY <2>1, <1>f
  <2>2. CASE ~Fails
    <3>1. /\ UNCHANGED <<attrs, slot, glob, seen, fixme, uncounted>> /\ x \in seen
          /\ rel' = [rel EXCEPT ![x] = @ - 1] /\ owed' = [owed EXCEPT ![x] = @ - 1]
      BY <1>8, <2>2 DEF ModuleAddObject, StealReference, Usable
    <3>2. x \in Objects
      BY <3>1
    <3>3. \A y \in Objects : /\ rel'[y] \in Int /\ owed'[y] \in Int
                            /\ rel'[y] - rel[y] = owed'[y] - owed[y]
      BY <3>1, <3>2
    <3>4. \A y \in Objects \ seen : owed'[y] = owed[y]
      BY <3>1, <3>2
    <3>5. fixme \subseteq fixme' /\ uncounted \subseteq uncounted'
      BY <3>1
    <3> QED
      BY <3>1, <3>3, <3>4, <3>5, BalanceSame
  <2> QED
    BY <2>1, <2>2
<1>9. ASSUME NEW o \in Objects, NEW steals \in BOOLEAN, CallUnknown(o, steals)
      PROVE  Balance'
  <2>1. UNCHANGED <<attrs, slot, glob, seen, fixme, uncounted>> /\ o \in seen
    BY <1>9 DEF CallUnknown, Usable
  <2>2. CASE steals
    <3>1. rel' = [rel EXCEPT ![o] = @ - 1] /\ owed' = [owed EXCEPT ![o] = @ - 1]
      BY <1>9, <2>2 DEF CallUnknown, StealReference
    <3> QED
      BY <2>1, <3>1, BalanceSame
  <2>3. CASE ~steals
    <3>1. rel' = rel /\ \A y \in Objects : owed'[y] = owed[y]
      BY <1>9, <2>3 DEF CallUnknown
    <3> QED
      BY <2>1, <3>1, BalanceSame
  <2> QED
    BY <2>2, <2>3
<1>10. ASSUME NEW t \in Tuples, NEW i \in Indices, NEW x \in Atoms, TupleSetItem(t, i, x)
      PROVE  Balance'
  <2>0. /\ UNCHANGED <<attrs, glob, seen, rel>> /\ x \in seen
        /\ owed' = [owed EXCEPT ![x] = @ - 1]
    BY <1>10 DEF TupleSetItem, Usable
  <2>1. \A y \in Objects \ seen' : owed'[y] = 0
    BY <2>0 DEF Balance
  <2>2. CASE TupleRefuses(x)
    <3>1. slot' = slot /\ fixme' = fixme \cup {x} /\ uncounted' = uncounted
      BY <2>2 DEF TupleRefuses
    <3>2. \A y : PersistentRefs(y)' = PersistentRefs(y) /\ Stolen(y)' = Stolen(y)
      BY <2>0, <3>1, PersistentSame
    <3> QED
      BY <2>0, <2>1, <3>1, <3>2 DEF Balance
  <2>3. CASE TupleStores(t, i, x)
    <3> DEFINE ci == <<t, i>>
    <3>1. ci \in Containers \X Indices /\ x \in Objects
      BY <1>0
    <3>2. /\ slot' = [slot EXCEPT ![ci] = x] /\ fixme' = fixme \cup ({slot[ci]} \ {NULL})
          /\ uncounted' = IF t \in Args THEN uncounted \cup {x} ELSE uncounted
      BY <2>3 DEF TupleStores
    <3>3. ci \in HeapSlots <=> t \notin Args
      BY <3>1, <1>0 DEF HeapSlots
    <3> HIDE DEF ci
    <3>4. ASSUME NEW y \in seen' \ (fixme' \cup uncounted')
          PROVE  rel'[y] + Stolen(y)' = owed'[y] + PersistentRefs(y)'
      <4>1. /\ y \in Objects /\ y \in seen /\ y # slot[ci]
            /\ rel[y] + Stolen(y) = owed[y] + PersistentRefs(y)
        BY <1>0, <2>0, <3>2, <3>4 DEF Balance
      <4>2. PersistentRefs(y) \in Nat /\ Stolen(y) \in {0, 1} /\ Stolen(y)' = Stolen(y)
        BY <2>0, <3>1, <3>2, <4>1, PersistentType, StolenType, StoreSlot
      <4>3. CASE y = x
        <5>1. t \notin Args
          BY <3>2, <3>4, <4>3
        <5>2. ci \in HeapSlots /\ slot[ci] # x
          BY <3>3, <4>1, <4>3, <5>1
        <5>3. slot' = [slot EXCEPT ![ci] = x] /\ attrs' = attrs /\ glob' = glob
          BY <2>0, <3>2
        <5>4. PersistentRefs(x)' = PersistentRefs(x) + 1
          BY <3>1, <5>2, <5>3, StoreSlotNew, Zenon
        <5>5. PersistentRefs(y)' = PersistentRefs(y) + 1
          BY <4>3, <5>4
        <5> QED
          BY <2>0, <3>1, <4>1, <4>2, <4>3, <5>5
      <4>4. CASE y # x
        <5>0. slot' = [slot EXCEPT ![ci] = x] /\ attrs' = attrs /\ glob' = glob
          BY <2>0, <3>2
        <5>1. PersistentRefs(y)' = PersistentRefs(y)
          BY <3>1, <4>1, <4>4, <5>0, StoreSlot, Zenon
        <5> QED
          BY <2>0, <3>1, <4>1, <4>2, <4>4, <5>1
      <4> QED
        BY <4>3, <4>4
    <3> QED
      BY <2>1, <3>4 DEF Balance
  <2> QED
    BY <1>10, <2>2, <2>3 DEF TupleSetItem
<1>11. ASSUME NEW x \in Atoms \cup {NULL}, StoreGlobal(x)
      PROVE  Balance'
  <2>1. /\ UNCHANGED <<attrs, seen, rel, slot, fixme, uncounted>> /\ glob' = x
        /\ x \in seen \cup {NULL}
        /\ \A y \in Objects : owed'[y] =
               owed[y] + (IF y = glob THEN 1 ELSE 0) - (IF y = x THEN 1 ELSE 0)
    BY <1>11 DEF StoreGlobal, Usable
  <2>2. \A y \in Objects \ seen' : owed'[y] = 0
    BY <1>0, <2>1 DEF Balance, Known
  <2>3. ASSUME NEW y \in seen' \ (fixme' \cup uncounted')
        PROVE  rel'[y] + Stolen(y)' = owed'[y] + PersistentRefs(y)'
    <3>1. y \in Objects /\ rel[y] + Stolen(y) = owed[y] + PersistentRefs(y)
      BY <2>1, <2>3 DEF Balance
    <3>2. PersistentSlots(y)' = PersistentSlots(y) /\ Stolen(y)' = Stolen(y)
      BY <2>1 DEF PersistentSlots, HeapSlots, Args, Stolen
    <3> DEFINE C == Cardinality(PersistentSlots(y))
    <3>3. C \in Nat /\ C' = C
      BY <3>2, PersistentType
    <3>4. /\ PersistentRefs(y) = C + (IF glob = y THEN 1 ELSE 0)
          /\ PersistentRefs(y)' = C + (IF x = y THEN 1 ELSE 0)
      BY <2>1, <3>3 DEF PersistentRefs
    <3>5. /\ Stolen(y) \in {0, 1} /\ Stolen(y)' = Stolen(y)
          /\ rel[y] \in Int /\ owed[y] \in Int /\ rel'[y] = rel[y]
          /\ owed'[y] = owed[y] + (IF y = glob THEN 1 ELSE 0) - (IF y = x THEN 1 ELSE 0)
      BY <2>1, <3>1, <3>2, StolenType
    <3> HIDE DEF C
    <3> QED
      BY <3>1, <3>3, <3>4, <3>5
  <2> QED
    BY <2>2, <2>3 DEF Balance
<1> QED
  BY <1>q, <1>1, <1>2, <1>3, <1>4, <1>5, <1>6, <1>7, <1>8, <1>9, <1>10, <1>11, NextCases

-----------------------------------------------------------------------------
(***************************************************************************)
(* The theorems.                                                           *)
(***************************************************************************)
\* What a function is given is an account that agrees with the execution.
LEMMA InitInv == Init => IInv
<1> SUFFICES ASSUME Init PROVE IInv
  OBVIOUS
<1>1. TypeOK
  BY InitAccount
<1>2. /\ seen = Args /\ dead = {} /\ glob = NULL /\ released = {} /\ pc = "run"
      /\ slot = [ci \in Containers \X Indices |-> NULL]
      /\ held = [c \in Containers |-> [o \in Objects |-> 0]]
      /\ rel = [o \in Objects |-> 0]
      /\ ext = [o \in Objects |-> IF o \in Args THEN 1 ELSE 0]
      /\ owed = [o \in Objects |-> Stolen(o)]
  BY DEF Init
<1>3. Objects = Atoms \cup Containers /\ NULL \notin Objects /\ seen \subseteq Objects
  BY <1>1, ObjectKinds DEF TypeOK
<1>4. Known /\ Flat /\ NoSurprise
  BY <1>2, <1>3 DEF Known, Flat, NoSurprise
<1>5. \A o \in seen : count[o] >= 1
  <2> PICK outside \in [Args -> 1..MaxOutside] :
             count = [o \in Objects |-> IF o \in Args THEN outside[o] ELSE 0]
    BY DEF Init
  <2> QED
    BY <1>2, <1>3, ConstantsAssumption
<1>6. LowerBound /\ FreedIsKnown
  BY <1>2, <1>3, <1>5 DEF LowerBound, FreedIsKnown, MinValue
<1>7. OwnExact
  BY <1>2, <1>3 DEF OwnExact
<1>8. Balance
  <2>1. \A o \in Objects : PersistentSlots(o) = {} /\ o # glob
    BY <1>2, <1>3 DEF PersistentSlots, HeapSlots
  <2>2. \A o \in Objects : PersistentRefs(o) = 0
    BY <2>1, FS_EmptySet DEF PersistentRefs
  <2>3. \A o \in Objects \ seen : Stolen(o) = 0
    BY <1>1, <1>2, AttrType DEF Stolen, TypeOK
  <2> QED
    BY <1>2, <1>3, <2>2, <2>3, StolenType DEF Balance
<1> QED
  BY <1>1, <1>4, <1>6, <1>7, <1>8 DEF IInv

\* Every step keeps the whole invariant.
LEMMA NextInv == IInv /\ [Next]_vars => IInv'
<1> SUFFICES ASSUME IInv, [Next]_vars PROVE IInv'
  OBVIOUS
<1>1. TypeOK' /\ DataType /\ DataType'
  BY NextType DEF IInv, TypeOK, DataType
<1> QED
  BY <1>1, NextKnown, NextFlat, NextLowerBound, NextFreed, NextOwnExact, NextNoSurprise,
     NextBalance DEF IInv

\* The invariant holds of every path.
LEMMA Invariant == Spec => []IInv
BY InitInv, NextInv, PTL DEF Spec

\* For any objects and any number of statements, the account stays well typed:
\* the bound on outside references, which is only ever added to, never falls
\* below zero (RefcountValue).
THEOREM TypeCorrect == Spec => []TypeOK
<1>1. IInv => TypeOK
  BY DEF IInv
<1> QED
  BY <1>1, Invariant, PTL

\* The account of an object that nothing has dropped behind the checker's back
\* is a lower bound of its ob_refcnt (RefcountValue.get_min_value).
THEOREM AccountIsBound == Spec => []LowerBound
<1>1. IInv => LowerBound
  BY DEF IInv
<1> QED
  BY <1>1, Invariant, PTL

\* A region is marked as deallocated exactly when its object is freed, so that
\* every later use of it, and no other, is reported (GenericTpDealloc).
THEOREM FreedExactly == Spec => []FreedIsKnown
<1>1. IInv => FreedIsKnown
  BY DEF IInv
<1> QED
  BY <1>1, Invariant, PTL

\* What PyTuple_SetItem does to a tuple that only the function knows is always
\* among the outcomes that are followed (impl_PyTuple_SetItem).
THEOREM TupleForeseen == Spec => []NoSurprise
<1>1. IInv => NoSurprise
  BY DEF IInv
<1> QED
  BY <1>1, Invariant, PTL

\* The verdict at the return is the truth: a leak, a future use-after-free or
\* neither, for every object that no FIXME and no overwritten slot concerns
\* (check_refcount_for_one_object).
THEOREM VerdictIsTrue == Spec => []VerdictExact
<1>1. IInv => VerdictExact
  <2> SUFFICES ASSUME IInv, pc = "returned",
                      NEW o \in seen \ (dead \cup fixme \cup uncounted)
               PROVE  Verdict(o) = Truth(o)
    BY DEF VerdictExact
  <2>1. rel[o] + Stolen(o) = owed[o] + PersistentRefs(o)
    BY DEF IInv, Balance
  <2>2. /\ rel[o] \in Int /\ owed[o] \in Int /\ PersistentRefs(o) \in Nat
        /\ Stolen(o) \in {0, 1} /\ Due(o) \in {0, 1}
    BY PersistentType, StolenType DEF IInv, TypeOK, Due
  <2>3. rel[o] > Expected(o) <=> owed[o] > Due(o)
    BY <2>1, <2>2 DEF Expected
  <2>4. rel[o] < Expected(o) <=> owed[o] < Due(o)
    BY <2>1, <2>2 DEF Expected
  <2> QED
    BY <2>3, <2>4 DEF Verdict, Truth
<1> QED
  BY <1>1, Invariant, PTL

-----------------------------------------------------------------------------
(***************************************************************************)
(* The memory: the inductive invariant, AllRight, and what it is made of.  *)
(* An object that has a range stands for one number in an execution, which *)
(* obj gives; a Region that is found by an object says so of the element   *)
(* that the object is.                                                     *)
(***************************************************************************)
\* A value that is in a State after n objects were made.
IsValue(v, n) ==
    \/ \E c \in Ints : v = Con(c)
    \/ \E k \in 1..n, lo \in Ints, hi \in Ints : lo < hi /\ v = Rng(k, lo, hi)
    \/ \E k \in 1..n : v = Unknown(k)
    \/ v \in {Uninit, Dead}

\* What p may be.
PointerOK(s, n) ==
    \/ s.p \in {NoRegion, <<"g">>, <<"s">>, <<"h">>}
    \/ \E root \in {"a", "g"}, j \in Nat : s.p = Part(root, At(j))
    \/ \E v : IsValue(v, n) /\ v.kind \in {"rng", "unknown"} /\ s.p = Part("a", In(v))

\* A State after n objects and the Regions rs were made.
StateOK(s, n, rs) ==
    /\ DOMAIN s = {"vals", "p"}
    /\ <<"i">> \in DOMAIN s.vals /\ <<"a">> \in DOMAIN s.vals /\ <<"s">> \in DOMAIN s.vals
    /\ \A r \in DOMAIN s.vals :
          IsValue(s.vals[r], n) /\ (s.vals[r] = Dead => r = <<"h">>)
    /\ \A x, y : Part(x, y) \in DOMAIN s.vals \cup {s.p} => Part(x, y) \in rs
    /\ PointerOK(s, n)

\* The value v is right for the contents x; obj has the number that each object
\* with a range is in the execution.
Holds(v, x, obj) ==
    /\ v.kind = "con" => x = v.lo
    /\ v.kind = "rng" => x \in v.lo..v.hi /\ x = obj[v.id]
    /\ v.kind = "unknown" => x \in Ints
    /\ v.kind = "uninit" => x = Garbage
    /\ v.kind = "dead" => x = Freed

\* The Region that a cell was last written through is one of the same variable or
\* object, and its value is right.
SaidOf(s, m, c, obj) ==
    m.by[c] # NoRegion =>
        /\ m.by[c][1] = c[1]
        /\ Has(s, m.by[c]) => Holds(s.vals[m.by[c]], m.val[c], obj)
        /\ ~Has(s, m.by[c]) => m.by[c] \in {<<"g">>, <<"h">>} /\ m.val[c] \in Ints \cup {Absent}

\* The object h before it is allocated, and after it is freed.
Lifetime(s, m, c) ==
    /\ m.val[c] = Freed =>
          /\ c = <<"h", 0>> /\ ~Has(s, Part("h", Field))
          /\ Has(s, <<"h">>) /\ s.vals[<<"h">>] = Dead
    /\ m.val[c] = Absent => c = <<"h", 0>> /\ ~Has(s, <<"h">>) /\ m.by[c] = <<"h">>

\* The pointer, in an execution, and the Region that the State has for it.
Aim(s, m, obj) ==
    s.p # NoRegion =>
        /\ m.p[1] = s.p[1]
        /\ s.p \in {<<"g">>, <<"s">>, <<"h">>} => m.p[2] = 0
        /\ s.p = <<"h">> => m.val[<<"h", 0>>] # Absent
        /\ \A j \in Nat : s.p = Part("a", At(j)) /\ (m.exact \/ j < Size) => m.p[2] = j
        /\ \A j \in Nat : s.p = Part("g", At(j)) /\ m.exact => m.p[2] = 1
        /\ \A v : s.p = Part("a", In(v)) =>
              /\ ~m.exact
              /\ Holds(v, m.p[2], obj)

\* An element that has a value of its own has been written since the array was not.
Entered(s, m) ==
    s.vals[<<"a">>] = Uninit =>
        \A k \in 0..(Size - 1) : Has(s, Part("a", At(k))) => m.by[<<"a", k>>] # <<"a">>

RunShape(m) ==
    /\ DOMAIN m = {"val", "by", "p", "exact"}
    /\ m.val \in [Cells -> Int] /\ DOMAIN m.by = Cells
    /\ m.p = <<m.p[1], m.p[2]>> /\ m.p[2] \in Int /\ m.exact \in BOOLEAN

RunOK(s, m, obj) ==
    /\ RunShape(m)
    /\ m.by[<<"i", 0>>] = <<"i">>
    /\ \A c \in Cells : SaidOf(s, m, c, obj) /\ Lifetime(s, m, c)
    /\ Aim(s, m, obj) /\ Entered(s, m)

\* A State and the executions that take its path.
Right(s, R, n, rs) ==
    /\ StateOK(s, n, rs)
    /\ \A m \in R : \E obj \in [Nat -> Int] : RunOK(s, m, obj)

AllRight ==
    /\ fresh \in Nat
    /\ Right(path, runs, fresh, made)
    /\ \E S : rest \in Seq(S)
    /\ \A i \in 1..Len(rest) : Right(rest[i].path, rest[i].runs, fresh, made)

\* The number of an object that is new.
With(obj, k, x) == [obj EXCEPT ![k] = x]

Agree(obj, other, n) == \A k \in 1..n : obj[k] = other[k]

-----------------------------------------------------------------------------
\* What a value of a State has, by its kind.
LEMMA ValueFacts ==
  ASSUME NEW n \in Nat, NEW v, IsValue(v, n)
  PROVE  /\ v.kind \in {"con", "rng", "unknown", "uninit", "dead"}
         /\ v.kind = "con" => v.lo \in Ints /\ v.hi = v.lo /\ v = Con(v.lo)
         /\ v.kind = "rng" => v.id \in 1..n /\ v.lo \in Ints /\ v.hi \in Ints /\ v.lo < v.hi
         /\ v.kind = "unknown" => v.id \in 1..n
         /\ v.kind = "uninit" <=> v = Uninit
         /\ v.kind = "dead" <=> v = Dead
<1>1. CASE \E c \in Ints : v = Con(c)
  BY <1>1 DEF Con, Uninit, Dead
<1>2. CASE \E k \in 1..n, lo \in Ints, hi \in Ints : lo < hi /\ v = Rng(k, lo, hi)
  BY <1>2 DEF Rng, Uninit, Dead
<1>3. CASE \E k \in 1..n : v = Unknown(k)
  BY <1>3 DEF Unknown, Uninit, Dead
<1>4. CASE v \in {Uninit, Dead}
  BY <1>4 DEF Uninit, Dead
<1> QED
  BY <1>1, <1>2, <1>3, <1>4 DEF IsValue

\* A value of a State is one still when more objects were made.
LEMMA ValueGrows ==
  ASSUME NEW n \in Nat, NEW k \in Nat, n <= k, NEW v, IsValue(v, n)
  PROVE  IsValue(v, k)
BY DEF IsValue

\* A number between two others, of an object that is new.
LEMMA MakeIs ==
  ASSUME NEW n \in Nat, NEW k \in 1..n, NEW lo \in Ints, NEW hi \in Ints, lo <= hi
  PROVE  /\ IsValue(Make(k, lo, hi), n)
         /\ Make(k, lo, hi).kind \in {"con", "rng"}
         /\ \A x, obj : x \in lo..hi /\ obj[k] = x => Holds(Make(k, lo, hi), x, obj)
<1>1. CASE lo = hi
  BY <1>1, SizesAssumption DEF Make, IsValue, Con, Holds, Ints
<1>2. CASE lo < hi
  <2>1. Make(k, lo, hi) = Rng(k, lo, hi)
    BY <1>2, SizesAssumption DEF Make, Ints
  <2> QED
    BY <1>2, <2>1 DEF IsValue, Rng, Holds
<1> QED
  BY <1>1, <1>2, SizesAssumption DEF Ints

\* What is right for an execution does not hang on objects made later.
LEMMA HoldsStill ==
  ASSUME NEW n \in Nat, NEW v, IsValue(v, n), NEW x, NEW obj, NEW other,
         Agree(obj, other, n), Holds(v, x, obj)
  PROVE  Holds(v, x, other)
BY ValueFacts DEF Agree, Holds

\* The number of an object that is new leaves those of the others.
LEMMA WithAgrees ==
  ASSUME NEW n \in Nat, NEW obj \in [Nat -> Int], NEW k \in Nat, k > n, NEW x \in Int
  PROVE  /\ With(obj, k, x) \in [Nat -> Int] /\ With(obj, k, x)[k] = x
         /\ Agree(obj, With(obj, k, x), n)
BY DEF With, Agree

\* What can be told of Regions by their form.
LEMMA RegionForms ==
  /\ \A x : <<x>> # NoRegion /\ <<x>>[1] = x /\ Len(<<x>>) = 1
  /\ \A x, y : /\ Part(x, y) # NoRegion /\ Part(x, y)[1] = x /\ Part(x, y)[2] = y
               /\ Len(Part(x, y)) = 2
  /\ \A x, y, z : <<z>> # Part(x, y)
  /\ \A x, y : <<x>> = <<y>> <=> x = y
  /\ \A x, y, u, w : Part(x, y) = Part(u, w) <=> x = u /\ y = w
  /\ \A j, v : At(j)[1] = "at" /\ At(j)[2] = j /\ In(v)[1] = "in" /\ In(v)[2] = v
  /\ \A j, v : At(j) # In(v) /\ At(j) # Field /\ In(v) # Field
  /\ \A j, k : At(j) = At(k) <=> j = k
  /\ \A v, w : In(v) = In(w) <=> v = w
BY DEF Part, At, In, Field, NoRegion

\* What a State has after Put: the new value, and the others as they were.
LEMMA PutIs ==
  ASSUME NEW s, DOMAIN s = {"vals", "p"}, NEW r, NEW v
  PROVE  LET t == Put(s, r, v)
         IN  /\ DOMAIN t = {"vals", "p"} /\ t.p = s.p
             /\ DOMAIN t.vals = DOMAIN s.vals \cup {r}
             /\ t.vals[r] = v
             /\ \A q \in DOMAIN s.vals : q # r => t.vals[q] = s.vals[q]
<1> DEFINE t == Put(s, r, v)
           f == [q \in DOMAIN s.vals \cup {r} |-> IF q = r THEN v ELSE s.vals[q]]
<1>1. DOMAIN t = {"vals", "p"} /\ t.p = s.p /\ t.vals = f
  BY DEF Put
<1> HIDE DEF t
<1> QED
  BY <1>1 DEF t

\* A State stays well formed with a new value for a Region that was made.
LEMMA PutOK ==
  ASSUME NEW n \in Nat, NEW k \in Nat, n <= k, NEW rs, NEW ss, rs \subseteq ss,
         NEW s, StateOK(s, n, rs), NEW r, NEW v, IsValue(v, k), v = Dead => r = <<"h">>,
         \A x, y : r = Part(x, y) => r \in ss
  PROVE  StateOK(Put(s, r, v), k, ss)
<1> DEFINE t == Put(s, r, v)
<1>1. /\ DOMAIN t = {"vals", "p"} /\ t.p = s.p
      /\ DOMAIN t.vals = DOMAIN s.vals \cup {r}
      /\ t.vals[r] = v
      /\ \A q \in DOMAIN s.vals : q # r => t.vals[q] = s.vals[q]
  BY PutIs DEF StateOK
<1> HIDE DEF t
<1>2. ASSUME NEW q \in DOMAIN t.vals
      PROVE  IsValue(t.vals[q], k) /\ (t.vals[q] = Dead => q = <<"h">>)
  BY <1>1, <1>2, ValueGrows DEF StateOK
<1>3. PointerOK(t, k)
  BY <1>1, ValueGrows DEF StateOK, PointerOK
<1> QED
  BY <1>1, <1>2, <1>3 DEF StateOK, t

\* A State is well formed still when more objects and Regions were made.
LEMMA StateGrows ==
  ASSUME NEW n \in Nat, NEW k \in Nat, n <= k, NEW rs, NEW ss, rs \subseteq ss,
         NEW s, StateOK(s, n, rs)
  PROVE  StateOK(s, k, ss)
<1>1. PointerOK(s, k)
  BY ValueGrows DEF StateOK, PointerOK
<1> QED
  BY <1>1, ValueGrows DEF StateOK

\* What is in Cells.
LEMMA CellForms ==
  /\ <<"i", 0>> \in Cells /\ <<"g", 0>> \in Cells /\ <<"h", 0>> \in Cells /\ <<"s", 0>> \in Cells
  /\ \A k : <<"a", k>> \in Cells <=> k \in 0..(Size - 1)
  /\ \A c \in Cells : /\ c = <<c[1], c[2]>> /\ c[1] \in {"a", "g", "h", "i", "s"} /\ c[2] \in Nat
                      /\ c[1] # "a" => c = <<c[1], 0>>
<1>1. Cells = {<<"a", k>> : k \in 0..(Size - 1)}
                \cup {<<"g", 0>>, <<"h", 0>>, <<"i", 0>>, <<"s", 0>>}
  BY DEF Cells, Globals, Heap, Locals
<1> QED
  BY <1>1, SizesAssumption

\* A number that is right for a value other than Dead is one that a cell may have.
LEMMA HoldsInts ==
  ASSUME NEW n \in Nat, NEW v, IsValue(v, n), v # Dead, NEW obj, NEW x, Holds(v, x, obj)
  PROVE  /\ x \in Int /\ x # Freed /\ x # Absent
         /\ v # Uninit => x \in Ints
<1>1. v # Uninit => x \in Ints
  BY ValueFacts, SizesAssumption DEF Holds, Ints
<1>2. v = Uninit => x = Garbage
  BY ValueFacts DEF Holds
<1> QED
  BY <1>1, <1>2, SizesAssumption DEF Ints, Garbage, Freed, Absent

\* More objects do not change what an execution says of those there were.
LEMMA RunAgrees ==
  ASSUME NEW n \in Nat, NEW rs, NEW s, StateOK(s, n, rs), NEW m, NEW obj, NEW other,
         RunOK(s, m, obj), Agree(obj, other, n)
  PROVE  RunOK(s, m, other)
<1>1. ASSUME NEW c \in Cells
      PROVE  SaidOf(s, m, c, other)
  <2>1. SaidOf(s, m, c, obj)
    BY DEF RunOK
  <2>2. ASSUME m.by[c] # NoRegion, Has(s, m.by[c])
        PROVE  Holds(s.vals[m.by[c]], m.val[c], other)
    BY <2>1, <2>2, HoldsStill DEF SaidOf, StateOK, Has
  <2> QED
    BY <2>1, <2>2 DEF SaidOf
<1>2. Aim(s, m, other)
  <2>1. Aim(s, m, obj)
    BY DEF RunOK
  <2>2. ASSUME NEW v, s.p = Part("a", In(v))
        PROVE  IsValue(v, n)
    BY <2>2, RegionForms DEF StateOK, PointerOK
  <2>3. ASSUME NEW v, s.p = Part("a", In(v)), Holds(v, m.p[2], obj)
        PROVE  Holds(v, m.p[2], other)
    BY <2>2, <2>3, HoldsStill
  <2> QED
    BY <2>1, <2>3 DEF Aim
<1> QED
  BY <1>1, <1>2 DEF RunOK

\* What an execution has after i is set.
LEMMA SetIIs ==
  ASSUME NEW m, RunShape(m), NEW x \in Int
  PROVE  LET w == SetI(m, x)
         IN  /\ RunShape(w) /\ w.p = m.p /\ w.exact = m.exact
             /\ w.val[<<"i", 0>>] = x /\ w.by[<<"i", 0>>] = <<"i">>
             /\ \A c \in Cells : c # <<"i", 0>> => w.val[c] = m.val[c] /\ w.by[c] = m.by[c]
<1> DEFINE V == [m.val EXCEPT ![<<"i", 0>>] = x]
           B == [m.by EXCEPT ![<<"i", 0>>] = <<"i">>]
           w == SetI(m, x)
<1>1. /\ DOMAIN w = {"val", "by", "p", "exact"}
      /\ w.val = V /\ w.by = B /\ w.p = m.p /\ w.exact = m.exact
  BY DEF RunShape, SetI
<1>2. /\ V \in [Cells -> Int] /\ V[<<"i", 0>>] = x
      /\ DOMAIN B = Cells /\ B[<<"i", 0>>] = <<"i">>
      /\ \A c \in Cells : c # <<"i", 0>> => V[c] = m.val[c] /\ B[c] = m.by[c]
  BY CellForms DEF RunShape
<1> HIDE DEF V, B, w
<1>3. RunShape(w)
  BY <1>1, <1>2 DEF RunShape
<1> QED
  BY <1>1, <1>2, <1>3 DEF w

\* i has a new value, which is right.
LEMMA SetIOK ==
  ASSUME NEW n \in Nat, NEW k \in Nat, NEW rs, NEW s, StateOK(s, n, rs), NEW m, NEW obj,
         RunOK(s, m, obj), NEW v, IsValue(v, k), v # Dead, NEW x, Holds(v, x, obj)
  PROVE  RunOK(Put(s, <<"i">>, v), SetI(m, x), obj)
<1> DEFINE t == Put(s, <<"i">>, v)
           w == SetI(m, x)
<1>1. /\ t.p = s.p
      /\ DOMAIN t.vals = DOMAIN s.vals \cup {<<"i">>}
      /\ t.vals[<<"i">>] = v
      /\ \A q \in DOMAIN s.vals : q # <<"i">> => t.vals[q] = s.vals[q]
  BY PutIs DEF StateOK
<1>2. x \in Int /\ x # Freed /\ x # Absent
  BY HoldsInts
<1>3. /\ RunShape(w) /\ w.p = m.p /\ w.exact = m.exact
      /\ w.val[<<"i", 0>>] = x /\ w.by[<<"i", 0>>] = <<"i">>
      /\ \A c \in Cells : c # <<"i", 0>> => w.val[c] = m.val[c] /\ w.by[c] = m.by[c]
  BY <1>2, SetIIs DEF RunOK
<1> HIDE DEF t, w
<1>4. ASSUME NEW c \in Cells
      PROVE  SaidOf(t, w, c, obj) /\ Lifetime(t, w, c)
  <2>1. SaidOf(s, m, c, obj) /\ Lifetime(s, m, c)
    BY DEF RunOK
  <2>2. CASE c = <<"i", 0>>
    BY <1>1, <1>2, <1>3, <2>2, RegionForms DEF SaidOf, Lifetime, Has
  <2>3. CASE c # <<"i", 0>>
    <3>1. c[1] # "i" /\ w.val[c] = m.val[c] /\ w.by[c] = m.by[c]
      BY <1>3, <2>3, CellForms
    <3>2. m.by[c] # NoRegion => m.by[c] # <<"i">>
      BY <2>1, <3>1 DEF SaidOf
    <3>3. SaidOf(t, w, c, obj)
      BY <1>1, <2>1, <3>1, <3>2 DEF SaidOf, Has
    <3>4. Lifetime(t, w, c)
      BY <1>1, <2>1, <3>1, RegionForms DEF Lifetime, Has
    <3> QED
      BY <3>3, <3>4
  <2> QED
    BY <2>2, <2>3
<1>5. Aim(t, w, obj)
  <2>1. Aim(s, m, obj) /\ w.val[<<"h", 0>>] = m.val[<<"h", 0>>]
    BY <1>3, CellForms DEF RunOK
  <2> QED
    BY <1>1, <1>3, <2>1 DEF Aim
<1>6. Entered(t, w)
  <2>1. Entered(s, m) /\ <<"a">> \in DOMAIN s.vals /\ t.vals[<<"a">>] = s.vals[<<"a">>]
    BY <1>1 DEF RunOK, StateOK
  <2>2. ASSUME NEW j \in 0..(Size - 1)
        PROVE  w.by[<<"a", j>>] = m.by[<<"a", j>>]
    BY <1>3, <2>2, CellForms
  <2>3. ASSUME NEW j, Has(t, Part("a", At(j)))
        PROVE  Has(s, Part("a", At(j)))
    BY <1>1, <2>3, RegionForms DEF Has
  <2> QED
    BY <2>1, <2>2, <2>3 DEF Entered
<1> QED
  BY <1>3, <1>4, <1>5, <1>6 DEF RunOK, t, w

-----------------------------------------------------------------------------
\* The run w is m after a write of x to the cell here, through the Region r.
Written(w, m, here, r, x) ==
    /\ RunShape(w) /\ w.p = m.p /\ w.exact = m.exact
    /\ \A c \in Cells : c = here => w.val[c] = x /\ w.by[c] = r
    /\ \A c \in Cells : c # here => w.val[c] = m.val[c]
    /\ \A c \in Cells : c # here /\ m.by[c] = r => w.by[c] = NoRegion
    /\ \A c \in Cells : c # here /\ m.by[c] # r => w.by[c] = m.by[c]

\* What an execution has after a write to a place.
LEMMA WriteIs ==
  ASSUME NEW s, NEW m, RunShape(m), NEW pl, NEW x \in Int
  PROVE  Written(Write(s, m, pl, x), m, Cell(m, pl), Through(s, m, pl), x)
<1> DEFINE here == Cell(m, pl)
           r == Through(s, m, pl)
           V == [m.val EXCEPT ![here] = x]
           B == [d \in Cells |-> IF d = here THEN r ELSE IF m.by[d] = r THEN NoRegion ELSE m.by[d]]
           w == Write(s, m, pl, x)
<1> HIDE DEF here, r
<1>1. /\ DOMAIN w = {"val", "by", "p", "exact"}
      /\ w.val = V /\ w.by = B /\ w.p = m.p /\ w.exact = m.exact
  BY DEF RunShape, Write, here, r
<1>2. /\ V \in [Cells -> Int] /\ DOMAIN B = Cells
      /\ \A c \in Cells : c = here => V[c] = x /\ B[c] = r
      /\ \A c \in Cells : c # here => V[c] = m.val[c]
      /\ \A c \in Cells : c # here /\ m.by[c] = r => B[c] = NoRegion
      /\ \A c \in Cells : c # here /\ m.by[c] # r => B[c] = m.by[c]
  BY DEF RunShape
<1> HIDE DEF V, B, w
<1>3. RunShape(w)
  BY <1>1, <1>2 DEF RunShape
<1> QED
  BY <1>1, <1>2, <1>3 DEF w, here, r, Written

\* A place with the Region r, which is in the cell that the execution has there.
WritesTo(r, c) ==
    /\ r # NoRegion /\ r[1] = c[1] /\ r[1] # "i" /\ r # <<"a">> /\ r # <<"h">>
    /\ \A k \in 0..(Size - 1) : r = Part("a", At(k)) => c = <<"a", k>>

\* A write of a value that is right, through the Region of the place, keeps what is
\* said of all the cells right: a cell that had this Region has none any more.
LEMMA WriteOK ==
  ASSUME NEW n \in Nat, NEW k \in Nat, NEW rs, NEW s, StateOK(s, n, rs), NEW m, NEW obj,
         RunOK(s, m, obj), NEW v, IsValue(v, k), v # Dead, NEW x, Holds(v, x, obj),
         NEW pl, Cell(m, pl) \in Cells, WritesTo(Through(s, m, pl), Cell(m, pl)),
         m.val[Cell(m, pl)] # Freed
  PROVE  RunOK(Put(s, Through(s, m, pl), v), Write(s, m, pl, x), obj)
<1> DEFINE r == Through(s, m, pl)
           here == Cell(m, pl)
           t == Put(s, r, v)
           w == Write(s, m, pl, x)
<1>1. /\ t.p = s.p
      /\ DOMAIN t.vals = DOMAIN s.vals \cup {r}
      /\ t.vals[r] = v
      /\ \A q \in DOMAIN s.vals : q # r => t.vals[q] = s.vals[q]
  BY PutIs DEF StateOK
<1>2. x \in Int /\ x # Freed /\ x # Absent
  BY HoldsInts
<1>3. /\ RunShape(w) /\ w.p = m.p /\ w.exact = m.exact
      /\ \A c \in Cells : c = here => w.val[c] = x /\ w.by[c] = r
      /\ \A c \in Cells : c # here => w.val[c] = m.val[c]
      /\ \A c \in Cells : c # here /\ m.by[c] = r => w.by[c] = NoRegion
      /\ \A c \in Cells : c # here /\ m.by[c] # r => w.by[c] = m.by[c]
  <2>1. RunShape(m)
    BY DEF RunOK
  <2>2. Written(w, m, here, r, x)
    BY <1>2, <2>1, WriteIs
  <2> QED
    BY <2>2 DEF Written
<1>4. /\ r # NoRegion /\ r[1] = here[1] /\ r[1] # "i" /\ r # <<"a">> /\ r # <<"h">>
      /\ \A j \in 0..(Size - 1) : r = Part("a", At(j)) => here = <<"a", j>>
      /\ here \in Cells /\ m.val[here] # Freed
  BY DEF WritesTo
<1> HIDE DEF t, w, r, here
<1>5. ASSUME NEW c \in Cells
      PROVE  SaidOf(t, w, c, obj) /\ Lifetime(t, w, c)
  <2>1. SaidOf(s, m, c, obj) /\ Lifetime(s, m, c)
    BY DEF RunOK
  <2>2. CASE c = here
    BY <1>1, <1>2, <1>3, <1>4, <2>2 DEF SaidOf, Lifetime, Has
  <2>3. CASE c # here
    <3>1. w.val[c] = m.val[c] /\ ((w.by[c] = m.by[c] /\ m.by[c] # r) \/ w.by[c] = NoRegion)
      BY <1>3, <2>3
    <3>2. SaidOf(t, w, c, obj)
      BY <1>1, <2>1, <3>1 DEF SaidOf, Has
    <3>3. r[1] = "h" => here = <<"h", 0>>
      BY <1>4, CellForms
    <3>4. c = <<"h", 0>> => r # Part("h", Field)
      BY <2>3, <3>3, RegionForms
    <3>5. <<"h">> \in DOMAIN s.vals => t.vals[<<"h">>] = s.vals[<<"h">>]
      BY <1>1, <1>4
    <3>6. m.by[c] = <<"h">> => w.by[c] = <<"h">>
      BY <1>3, <1>4, <2>3
    <3>7. Lifetime(t, w, c)
      BY <1>1, <1>4, <2>1, <3>1, <3>4, <3>5, <3>6 DEF Lifetime, Has
    <3> QED
      BY <3>2, <3>7
  <2> QED
    BY <2>2, <2>3
<1>6. Aim(t, w, obj)
  <2>1. Aim(s, m, obj) /\ (m.val[<<"h", 0>>] # Absent => w.val[<<"h", 0>>] # Absent)
    BY <1>2, <1>3, CellForms DEF RunOK
  <2> QED
    BY <1>1, <1>3, <2>1 DEF Aim
<1>7. Entered(t, w)
  <2>1. Entered(s, m) /\ <<"a">> \in DOMAIN s.vals /\ t.vals[<<"a">>] = s.vals[<<"a">>]
    BY <1>1, <1>4 DEF RunOK, StateOK
  <2>2. ASSUME NEW j \in 0..(Size - 1), Has(t, Part("a", At(j))), s.vals[<<"a">>] = Uninit
        PROVE  w.by[<<"a", j>>] # <<"a">>
    <3>1. <<"a", j>> \in Cells
      BY CellForms
    <3>2. CASE <<"a", j>> = here
      BY <1>3, <1>4, <3>1, <3>2
    <3>3. CASE <<"a", j>> # here
      <4>1. Has(s, Part("a", At(j)))
        BY <1>1, <1>4, <2>2, <3>3 DEF Has
      <4>2. m.by[<<"a", j>>] # <<"a">>
        BY <2>1, <2>2, <4>1 DEF Entered
      <4>3. NoRegion # <<"a">>
        BY RegionForms
      <4> QED
        BY <1>3, <3>1, <3>3, <4>2, <4>3
    <3> QED
      BY <3>2, <3>3
  <2> QED
    BY <2>1, <2>2 DEF Entered
<1>8. w.by[<<"i", 0>>] = <<"i">>
  <2>1. m.by[<<"i", 0>>] = <<"i">> /\ <<"i", 0>> \in Cells /\ <<"i", 0>> # here
    BY <1>4, CellForms DEF RunOK
  <2>2. r # <<"i">>
    BY <1>4, RegionForms
  <2> QED
    BY <1>3, <2>1, <2>2
<1> QED
  BY <1>3, <1>5, <1>6, <1>7, <1>8 DEF RunOK, t, w, r

\* What is called uninitialized is left as it is, beyond the array.
LEMMA WriteBeyond ==
  ASSUME NEW n \in Nat, NEW rs, NEW s, StateOK(s, n, rs), NEW m, NEW obj, RunOK(s, m, obj),
         NEW r, Has(s, r), NEW pl, Cell(m, pl) \notin Cells,
         Through(s, m, pl)[1] = "a", NEW x \in Int
  PROVE  RunOK(Put(s, r, s.vals[r]), Write(s, m, pl, x), obj)
<1> DEFINE t == Put(s, r, s.vals[r])
           w == Write(s, m, pl, x)
           u == Through(s, m, pl)
<1>1. t.p = s.p /\ DOMAIN t.vals = DOMAIN s.vals /\ \A q \in DOMAIN s.vals : t.vals[q] = s.vals[q]
  <2>1. /\ t.p = s.p
        /\ DOMAIN t.vals = DOMAIN s.vals \cup {r}
        /\ t.vals[r] = s.vals[r]
        /\ \A q \in DOMAIN s.vals : q # r => t.vals[q] = s.vals[q]
    BY PutIs DEF StateOK
  <2> HIDE DEF t
  <2> QED
    BY <2>1 DEF Has
<1>2. /\ RunShape(w) /\ w.p = m.p /\ w.exact = m.exact
      /\ \A c \in Cells : w.val[c] = m.val[c]
      /\ \A c \in Cells : m.by[c] = u => w.by[c] = NoRegion
      /\ \A c \in Cells : m.by[c] # u => w.by[c] = m.by[c]
  <2>1. RunShape(m)
    BY DEF RunOK
  <2>2. Written(w, m, Cell(m, pl), u, x)
    BY <2>1, WriteIs
  <2> HIDE DEF u, w
  <2> QED
    BY <2>2 DEF Written
<1>3. u # <<"i">> /\ u # <<"h">>
  BY RegionForms
<1> HIDE DEF t, w, u
<1>4. ASSUME NEW c \in Cells
      PROVE  SaidOf(t, w, c, obj) /\ Lifetime(t, w, c)
  <2>1. SaidOf(s, m, c, obj) /\ Lifetime(s, m, c)
    BY DEF RunOK
  <2>2. SaidOf(t, w, c, obj)
    BY <1>1, <1>2, <2>1 DEF SaidOf, Has
  <2>3. Lifetime(t, w, c)
    BY <1>1, <1>2, <1>3, <2>1 DEF Lifetime, Has
  <2> QED
    BY <2>2, <2>3
<1>5. Aim(t, w, obj)
  <2>1. Aim(s, m, obj) /\ w.val[<<"h", 0>>] = m.val[<<"h", 0>>]
    BY <1>2, CellForms DEF RunOK
  <2> QED
    BY <1>1, <1>2, <2>1 DEF Aim
<1>6. Entered(t, w)
  <2>1. Entered(s, m) /\ t.vals[<<"a">>] = s.vals[<<"a">>]
    BY <1>1 DEF RunOK, StateOK
  <2>2. ASSUME NEW j \in 0..(Size - 1), m.by[<<"a", j>>] # <<"a">>
        PROVE  w.by[<<"a", j>>] # <<"a">>
    <3>1. <<"a", j>> \in Cells /\ NoRegion # <<"a">>
      BY CellForms, RegionForms
    <3> QED
      BY <1>2, <2>2, <3>1
  <2> QED
    BY <1>1, <2>1, <2>2 DEF Entered, Has
<1>7. w.by[<<"i", 0>>] = <<"i">>
  BY <1>2, <1>3, CellForms DEF RunOK
<1> QED
  BY <1>2, <1>4, <1>5, <1>6, <1>7 DEF RunOK, t, w

\* The value of a global is entered when it is read.
LEMMA EnterOK ==
  ASSUME NEW n \in Nat, NEW rs, NEW s, StateOK(s, n, rs), NEW m, NEW obj, RunOK(s, m, obj),
         NEW v, m.by[<<"g", 0>>] = <<"g">> => Holds(v, m.val[<<"g", 0>>], obj)
  PROVE  RunOK(Put(s, <<"g">>, v), m, obj)
<1> DEFINE t == Put(s, <<"g">>, v)
<1>1. /\ t.p = s.p
      /\ DOMAIN t.vals = DOMAIN s.vals \cup {<<"g">>}
      /\ t.vals[<<"g">>] = v
      /\ \A q \in DOMAIN s.vals : q # <<"g">> => t.vals[q] = s.vals[q]
  BY PutIs DEF StateOK
<1> HIDE DEF t
<1>2. ASSUME NEW c \in Cells
      PROVE  SaidOf(t, m, c, obj) /\ Lifetime(t, m, c)
  <2>1. SaidOf(s, m, c, obj) /\ Lifetime(s, m, c)
    BY DEF RunOK
  <2>2. m.by[c] = <<"g">> => c = <<"g", 0>>
    BY <2>1, CellForms, RegionForms DEF SaidOf
  <2>3. SaidOf(t, m, c, obj)
    BY <1>1, <2>1, <2>2 DEF SaidOf, Has
  <2>4. Lifetime(t, m, c)
    BY <1>1, <2>1, RegionForms DEF Lifetime, Has
  <2> QED
    BY <2>3, <2>4
<1>3. Aim(t, m, obj)
  BY <1>1 DEF Aim, RunOK
<1>4. Entered(t, m)
  <2>1. Entered(s, m) /\ t.vals[<<"a">>] = s.vals[<<"a">>]
    BY <1>1 DEF RunOK, StateOK
  <2>2. ASSUME NEW j, Has(t, Part("a", At(j)))
        PROVE  Has(s, Part("a", At(j)))
    BY <1>1, <2>2, RegionForms DEF Has
  <2> QED
    BY <2>1, <2>2 DEF Entered
<1> QED
  BY <1>2, <1>3, <1>4 DEF RunOK, t

-----------------------------------------------------------------------------
\* The run w is m after all the cells of a variable or object are x, as r.
Filled(w, m, root, r, x) ==
    /\ RunShape(w) /\ w.p = m.p /\ w.exact = m.exact
    /\ \A c \in Cells : c[1] = root => w.val[c] = x /\ w.by[c] = r
    /\ \A c \in Cells : c[1] # root => w.val[c] = m.val[c] /\ w.by[c] = m.by[c]

\* What an execution has after all the cells of an object are written.
LEMMA FillIs ==
  ASSUME NEW m, RunShape(m), NEW root, NEW r, NEW x \in Int
  PROVE  Filled(Fill(m, root, r, x), m, root, r, x)
<1> DEFINE V == [c \in Cells |-> IF c[1] = root THEN x ELSE m.val[c]]
           B == [c \in Cells |-> IF c[1] = root THEN r ELSE m.by[c]]
           w == Fill(m, root, r, x)
<1>1. /\ V \in [Cells -> Int] /\ DOMAIN B = Cells
      /\ \A c \in Cells : c[1] = root => V[c] = x /\ B[c] = r
      /\ \A c \in Cells : c[1] # root => V[c] = m.val[c] /\ B[c] = m.by[c]
  BY DEF RunShape
<1>2. /\ DOMAIN w = {"val", "by", "p", "exact"}
      /\ w.val = V /\ w.by = B /\ w.p = m.p /\ w.exact = m.exact
  BY DEF RunShape, Fill
<1> HIDE DEF V, B
<1> HIDE DEF w
<1>3. Filled(w, m, root, r, x)
  BY <1>1, <1>2 DEF RunShape, Filled
<1> QED
  BY <1>3 DEF w

\* So does a write of all the cells of an object, through one Region.
LEMMA FillOK ==
  ASSUME NEW n \in Nat, NEW k \in Nat, NEW rs, NEW s, StateOK(s, n, rs), NEW m, NEW obj,
         RunOK(s, m, obj), NEW v, IsValue(v, k), v # Dead, NEW x \in Ints, Holds(v, x, obj),
         NEW root, NEW r, r # NoRegion, r[1] = root, root # "i", r = <<"a">> => v # Uninit,
         root = "h" => m.val[<<"h", 0>>] # Freed, NEW w, Filled(w, m, root, r, x)
  PROVE  RunOK(Put(s, r, v), w, obj)
<1> DEFINE t == Put(s, r, v)
<1>1. /\ t.p = s.p
      /\ DOMAIN t.vals = DOMAIN s.vals \cup {r}
      /\ t.vals[r] = v
      /\ \A q \in DOMAIN s.vals : q # r => t.vals[q] = s.vals[q]
  BY PutIs DEF StateOK
<1> HIDE DEF t
<1>2. x \in Int /\ x # Freed /\ x # Absent
  BY HoldsInts
<1>3. ASSUME NEW c \in Cells
      PROVE  SaidOf(t, w, c, obj) /\ Lifetime(t, w, c)
  <2>1. SaidOf(s, m, c, obj) /\ Lifetime(s, m, c)
    BY DEF RunOK
  <2>2. CASE c[1] = root
    BY <1>1, <1>2, <2>2 DEF SaidOf, Lifetime, Has, Filled
  <2>3. CASE c[1] # root
    <3>1. w.val[c] = m.val[c] /\ w.by[c] = m.by[c]
      BY <2>3 DEF Filled
    <3>2. m.by[c] # NoRegion => m.by[c] # r
      BY <2>1, <2>3 DEF SaidOf
    <3>3. SaidOf(t, w, c, obj)
      BY <1>1, <2>1, <3>1, <3>2 DEF SaidOf, Has
    <3>4. c = <<"h", 0>> => r # Part("h", Field) /\ r # <<"h">>
      BY <2>3, RegionForms
    <3>5. Lifetime(t, w, c)
      BY <1>1, <2>1, <3>1, <3>4 DEF Lifetime, Has
    <3> QED
      BY <3>3, <3>5
  <2> QED
    BY <2>2, <2>3
<1>4. Aim(t, w, obj)
  <2>1. Aim(s, m, obj)
    BY DEF RunOK
  <2>2. <<"h", 0>> \in Cells
    BY CellForms
  <2>3. m.val[<<"h", 0>>] # Absent => w.val[<<"h", 0>>] # Absent
    BY <1>2, <2>2 DEF Filled
  <2> QED
    BY <1>1, <2>1, <2>3 DEF Aim, Filled
<1>5. Entered(t, w)
  <2>1. Entered(s, m) /\ <<"a">> \in DOMAIN s.vals
    BY DEF RunOK, StateOK
  <2>2. CASE r = <<"a">>
    BY <1>1, <2>2 DEF Entered
  <2>3. CASE r # <<"a">> /\ root = "a"
    <3>1. ASSUME NEW j \in 0..(Size - 1)
          PROVE  w.by[<<"a", j>>] = r
      <4>1. <<"a", j>> \in Cells
        BY CellForms
      <4> QED
        BY <2>3, <4>1 DEF Filled
    <3> QED
      BY <2>3, <3>1 DEF Entered
  <2>4. CASE r # <<"a">> /\ root # "a"
    <3>1. ASSUME NEW j \in 0..(Size - 1)
          PROVE  w.by[<<"a", j>>] = m.by[<<"a", j>>]
      <4>1. <<"a", j>> \in Cells
        BY CellForms
      <4> QED
        BY <2>4, <4>1 DEF Filled
    <3>2. ASSUME NEW j, Has(t, Part("a", At(j)))
          PROVE  Has(s, Part("a", At(j)))
      BY <1>1, <2>4, <3>2, RegionForms DEF Has
    <3>3. t.vals[<<"a">>] = s.vals[<<"a">>]
      BY <1>1, <2>1, <2>4
    <3> QED
      BY <2>1, <3>1, <3>2, <3>3 DEF Entered
  <2> QED
    BY <2>2, <2>3, <2>4
<1>6. w.by[<<"i", 0>>] = <<"i">>
  <2>1. m.by[<<"i", 0>>] = <<"i">> /\ <<"i", 0>> \in Cells
    BY CellForms DEF RunOK
  <2> QED
    BY <2>1 DEF Filled
<1> QED
  BY <1>3, <1>4, <1>5, <1>6 DEF RunOK, Filled, t

\* The pointer of the State and of an execution are set.
LEMMA AimOK ==
  ASSUME NEW s, DOMAIN s = {"vals", "p"}, NEW m, NEW obj, RunOK(s, m, obj), NEW r,
         NEW a, a = <<a[1], a[2]>>, a[2] \in Int, NEW e \in BOOLEAN,
         r # NoRegion, a[1] = r[1],
         r \in {<<"g">>, <<"s">>, <<"h">>} => a[2] = 0,
         r = <<"h">> => m.val[<<"h", 0>>] # Absent,
         \A j \in Nat : r = Part("a", At(j)) /\ (e \/ j < Size) => a[2] = j,
         \A j \in Nat : r = Part("g", At(j)) /\ e => a[2] = 1,
         \A v : r = Part("a", In(v)) => ~e /\ Holds(v, a[2], obj)
  PROVE  RunOK(SetP(s, r), MoveP(m, a, e), obj)
<1> DEFINE t == SetP(s, r)
           w == MoveP(m, a, e)
<1>1. t.vals = s.vals /\ t.p = r
  BY DEF SetP
<1>2. /\ DOMAIN w = {"val", "by", "p", "exact"}
      /\ w.val = m.val /\ w.by = m.by /\ w.p = a /\ w.exact = e
  BY DEF RunOK, RunShape, MoveP
<1> HIDE DEF t, w
<1>3. RunShape(w)
  BY <1>2 DEF RunOK, RunShape
<1>4. \A c \in Cells : SaidOf(t, w, c, obj) /\ Lifetime(t, w, c)
  BY <1>1, <1>2 DEF RunOK, SaidOf, Lifetime, Has
<1>5. Entered(t, w)
  BY <1>1, <1>2 DEF RunOK, Entered, Has
<1>6. Aim(t, w, obj)
  BY <1>1, <1>2 DEF Aim
<1> QED
  BY <1>2, <1>3, <1>4, <1>5, <1>6 DEF RunOK, t, w

\* An object is split in two: the new one is the same number.
LEMMA ReplaceOK ==
  ASSUME NEW n \in Nat, NEW rs, NEW s, StateOK(s, n, rs), NEW m, NEW obj, NEW other,
         RunOK(s, m, obj), Agree(obj, other, n), NEW v, v.kind = "rng", NEW u,
         u # Uninit, u # Dead, NEW x, x = obj[v.id], Holds(u, x, other)
  PROVE  RunOK(Replace(s, v, u), m, other)
<1> DEFINE t == Replace(s, v, u)
<1>1. RunOK(s, m, other)
  BY RunAgrees
<1>2. /\ t.p = s.p /\ DOMAIN t.vals = DOMAIN s.vals
      /\ \A r \in DOMAIN s.vals : s.vals[r] = v => t.vals[r] = u
      /\ \A r \in DOMAIN s.vals : s.vals[r] # v => t.vals[r] = s.vals[r]
  BY DEF StateOK, Replace
<1> HIDE DEF t
<1>3. v # Uninit /\ v # Dead
  BY DEF Uninit, Dead
<1>4. ASSUME NEW c \in Cells
      PROVE  SaidOf(t, m, c, other) /\ Lifetime(t, m, c)
  <2>1. SaidOf(s, m, c, other) /\ Lifetime(s, m, c) /\ SaidOf(s, m, c, obj)
    BY <1>1 DEF RunOK
  <2>2. ASSUME m.by[c] # NoRegion, Has(s, m.by[c]), s.vals[m.by[c]] = v
        PROVE  Holds(u, m.val[c], other)
    <3>1. Holds(v, m.val[c], obj)
      BY <2>1, <2>2 DEF SaidOf
    <3> QED
      BY <3>1 DEF Holds
  <2>3. SaidOf(t, m, c, other)
    BY <1>2, <2>1, <2>2 DEF SaidOf, Has
  <2>4. Lifetime(t, m, c)
    BY <1>2, <1>3, <2>1 DEF Lifetime, Has
  <2> QED
    BY <2>3, <2>4
<1>5. Aim(t, m, other)
  BY <1>1, <1>2 DEF RunOK, Aim
<1>6. Entered(t, m)
  <2>1. Entered(s, m) /\ <<"a">> \in DOMAIN s.vals
    BY DEF RunOK, StateOK
  <2> QED
    BY <1>2, <2>1 DEF Entered, Has
<1> QED
  BY <1>1, <1>4, <1>5, <1>6 DEF RunOK, t

\* A State stays well formed with another object in place of one that is split.
LEMMA ReplaceState ==
  ASSUME NEW n \in Nat, NEW k \in Nat, n <= k, NEW rs, NEW s, StateOK(s, n, rs),
         NEW v, NEW u, IsValue(u, k), u # Dead
  PROVE  StateOK(Replace(s, v, u), k, rs)
<1> DEFINE t == Replace(s, v, u)
<1>1. StateOK(s, k, rs)
  BY StateGrows
<1>2. /\ DOMAIN t = {"vals", "p"} /\ t.p = s.p /\ DOMAIN t.vals = DOMAIN s.vals
      /\ \A r \in DOMAIN s.vals : t.vals[r] = u \/ t.vals[r] = s.vals[r]
  BY DEF StateOK, Replace
<1> HIDE DEF t
<1>3. PointerOK(t, k)
  BY <1>1, <1>2 DEF StateOK, PointerOK
<1>4. \A r \in DOMAIN t.vals : IsValue(t.vals[r], k) /\ (t.vals[r] = Dead => r = <<"h">>)
  BY <1>1, <1>2 DEF StateOK
<1> QED
  BY <1>1, <1>2, <1>3, <1>4 DEF StateOK, t

-----------------------------------------------------------------------------
\* The smallest of a set of ints, and the largest.
LEMMA MinInts ==
  ASSUME NEW S \in SUBSET Ints, S # {}
  PROVE  Min(S) \in S /\ \A y \in S : Min(S) <= y
<1> DEFINE R == {ss \in Nat \X Nat : ss[1] < ss[2]}
<1>1. IsWellFoundedOn(R, Nat)
  BY NatLessThanWellFounded DEF OpToRel
<1>2. S \subseteq Nat
  BY SizesAssumption DEF Ints
<1>3. PICK x \in S : \A y \in S : ~(<<y, x>> \in R)
  <2> HIDE DEF R
  <2> QED
    BY <1>1, <1>2, WFMin
<1>4. ASSUME NEW y \in S
      PROVE  x <= y
  <2>1. ~(<<y, x>> \in R) /\ <<y, x>> \in Nat \X Nat
    BY <1>2, <1>3
  <2>2. ~(y < x)
    BY <2>1
  <2> QED
    BY <1>2, <2>2
<1> QED
  BY <1>3, <1>4 DEF Min

\* The same for the largest.
LEMMA MaxInts ==
  ASSUME NEW S \in SUBSET Ints, S # {}
  PROVE  Max(S) \in S /\ \A y \in S : y <= Max(S)
<1> DEFINE T == {MaxInt - x : x \in S}
<1>1. T \in SUBSET Ints /\ T # {}
  <2>1. \A x \in S : MaxInt - x \in Ints
    BY SizesAssumption DEF Ints
  <2> QED
    BY <2>1
<1>2. PICK z \in T : \A y \in T : z <= y
  BY <1>1, MinInts
<1>3. PICK x \in S : z = MaxInt - x
  BY <1>2
<1>4. ASSUME NEW y \in S
      PROVE  y <= x
  <2>1. z <= MaxInt - y
    BY <1>2
  <2> QED
    BY <1>3, <2>1, SizesAssumption DEF Ints
<1> QED
  BY <1>3, <1>4 DEF Max

\* A new object.
LEMMA AllocOK ==
  ASSUME NEW n \in Nat, NEW rs, NEW s, StateOK(s, n, rs), NEW m, NEW obj, RunOK(s, m, obj),
         m.val[<<"h", 0>>] = Absent, NEW x \in Ints
  PROVE  RunOK(SetP(s, <<"h">>), Allocate(m, x), obj)
<1> DEFINE t == SetP(s, <<"h">>)
           w == Allocate(m, x)
           V == [m.val EXCEPT ![<<"h", 0>>] = x]
<1>1. t.vals = s.vals /\ t.p = <<"h">>
  BY DEF StateOK, SetP
<1>2. x \in Int /\ x # Freed /\ x # Absent
  BY SizesAssumption DEF Ints, Freed, Absent
<1>3. /\ V \in [Cells -> Int] /\ V[<<"h", 0>>] = x
      /\ \A c \in Cells : c # <<"h", 0>> => V[c] = m.val[c]
  BY <1>2, CellForms DEF RunOK, RunShape
<1> HIDE DEF V
<1>4. /\ DOMAIN w = {"val", "by", "p", "exact"}
      /\ w.val = V /\ w.by = m.by /\ w.p = <<"h", 0>> /\ w.exact = TRUE
  BY DEF RunOK, RunShape, V, Allocate, MoveP
<1> HIDE DEF t, w
<1>5. RunShape(w)
  <2>1. w.p = <<w.p[1], w.p[2]>> /\ w.p[2] \in Int
    BY <1>4
  <2>2. w.exact \in BOOLEAN
    BY <1>4
  <2> QED
    BY <1>3, <1>4, <2>1, <2>2 DEF RunOK, RunShape
<1>6. ASSUME NEW c \in Cells
      PROVE  SaidOf(t, w, c, obj) /\ Lifetime(t, w, c)
  <2>1. SaidOf(s, m, c, obj) /\ Lifetime(s, m, c)
    BY DEF RunOK
  <2>2. CASE c = <<"h", 0>>
    <3>1. m.by[c] = <<"h">> /\ ~Has(s, <<"h">>)
      BY <2>1, <2>2 DEF Lifetime
    <3>2. c[1] = "h" /\ <<"h">>[1] = "h"
      BY <2>2
    <3> QED
      BY <1>1, <1>2, <1>3, <1>4, <2>2, <3>1, <3>2 DEF SaidOf, Lifetime, Has
  <2>3. CASE c # <<"h", 0>>
    BY <1>1, <1>3, <1>4, <2>1, <2>3 DEF SaidOf, Lifetime, Has
  <2> QED
    BY <2>2, <2>3
<1>7. Entered(t, w)
  BY <1>1, <1>4 DEF RunOK, Entered, Has
<1>8. Aim(t, w, obj)
  BY <1>1, <1>2, <1>3, <1>4, RegionForms DEF Aim
<1> QED
  BY <1>4, <1>5, <1>6, <1>7, <1>8 DEF RunOK, t, w

\* The values of the fields are forgotten when an object is freed.
LEMMA FreedIs ==
  ASSUME NEW n \in Nat, NEW s, StateOK(s, n, made)
  PROVE  LET t == Put(Forget(s, "h"), <<"h">>, Dead)
         IN  /\ DOMAIN t = {"vals", "p"} /\ t.p = s.p
             /\ <<"h">> \in DOMAIN t.vals /\ t.vals[<<"h">>] = Dead
             /\ Part("h", Field) \notin DOMAIN t.vals
             /\ \A q : q[1] # "h" =>
                   /\ q \in DOMAIN t.vals <=> q \in DOMAIN s.vals
                   /\ q \in DOMAIN s.vals => t.vals[q] = s.vals[q]
             /\ \A q \in DOMAIN t.vals : q # <<"h">> =>
                   q \in DOMAIN s.vals /\ t.vals[q] = s.vals[q]
<1> DEFINE u == Forget(s, "h")
           t == Put(u, <<"h">>, Dead)
           D == DOMAIN s.vals \ {r \in made : r[1] = "h"}
<1>1. /\ DOMAIN u = {"vals", "p"} /\ u.p = s.p
      /\ DOMAIN u.vals = D
      /\ \A q \in D : u.vals[q] = s.vals[q]
  BY DEF Forget, Restrict, StateOK
<1> HIDE DEF u
<1>2. /\ DOMAIN t = {"vals", "p"} /\ t.p = u.p
      /\ DOMAIN t.vals = DOMAIN u.vals \cup {<<"h">>}
      /\ t.vals[<<"h">>] = Dead
      /\ \A q \in DOMAIN u.vals : q # <<"h">> => t.vals[q] = u.vals[q]
  BY <1>1, PutIs
<1> HIDE DEF t
<1>3. Part("h", Field) \notin DOMAIN t.vals
  BY <1>1, <1>2, RegionForms DEF StateOK
<1>4. <<"h">>[1] = "h"
  OBVIOUS
<1> QED
  BY <1>1, <1>2, <1>3, <1>4 DEF t, u

\* An object is freed: no Region says any more what is in it.
LEMMA FreeOK ==
  ASSUME NEW n \in Nat, NEW s, StateOK(s, n, made), NEW m, NEW obj, RunOK(s, m, obj),
         s.p = <<"h">>
  PROVE  /\ StateOK(Put(Forget(s, "h"), <<"h">>, Dead), n, made)
         /\ RunOK(Put(Forget(s, "h"), <<"h">>, Dead),
                  [m EXCEPT !.val[<<"h", 0>>] = Freed, !.by[<<"h", 0>>] = NoRegion], obj)
<1> DEFINE t == Put(Forget(s, "h"), <<"h">>, Dead)
           w == [m EXCEPT !.val[<<"h", 0>>] = Freed, !.by[<<"h", 0>>] = NoRegion]
           V == [m.val EXCEPT ![<<"h", 0>>] = Freed]
           B == [m.by EXCEPT ![<<"h", 0>>] = NoRegion]
<1>1. /\ DOMAIN t = {"vals", "p"} /\ t.p = s.p
      /\ <<"h">> \in DOMAIN t.vals /\ t.vals[<<"h">>] = Dead
      /\ Part("h", Field) \notin DOMAIN t.vals
      /\ \A q : q[1] # "h" =>
            /\ q \in DOMAIN t.vals <=> q \in DOMAIN s.vals
            /\ q \in DOMAIN s.vals => t.vals[q] = s.vals[q]
      /\ \A q \in DOMAIN t.vals : q # <<"h">> =>
            q \in DOMAIN s.vals /\ t.vals[q] = s.vals[q]
  BY FreedIs
<1> HIDE DEF t
<1>2. StateOK(t, n, made)
  <2>1. <<"i">> \in DOMAIN t.vals /\ <<"a">> \in DOMAIN t.vals /\ <<"s">> \in DOMAIN t.vals
    BY <1>1, RegionForms DEF StateOK
  <2>2. \A r \in DOMAIN t.vals : IsValue(t.vals[r], n) /\ (t.vals[r] = Dead => r = <<"h">>)
    <3>1. IsValue(Dead, n)
      BY DEF IsValue
    <3> QED
      BY <1>1, <3>1 DEF StateOK
  <2>3. PointerOK(t, n)
    BY <1>1 DEF StateOK, PointerOK
  <2>4. \A x, y : Part(x, y) \in DOMAIN t.vals \cup {t.p} => Part(x, y) \in made
    BY <1>1, RegionForms DEF StateOK
  <2> QED
    BY <1>1, <2>1, <2>2, <2>3, <2>4 DEF StateOK
<1>3. /\ V \in [Cells -> Int] /\ V[<<"h", 0>>] = Freed
      /\ DOMAIN B = Cells /\ B[<<"h", 0>>] = NoRegion
      /\ \A c \in Cells : c # <<"h", 0>> => V[c] = m.val[c] /\ B[c] = m.by[c]
  BY CellForms DEF RunOK, RunShape, Freed
<1> HIDE DEF V, B
<1>4. /\ DOMAIN w = {"val", "by", "p", "exact"}
      /\ w.val = V /\ w.by = B /\ w.p = m.p /\ w.exact = m.exact
  BY DEF RunOK, RunShape, V, B
<1> HIDE DEF w
<1>5. RunShape(w)
  BY <1>3, <1>4 DEF RunOK, RunShape
<1>6. ASSUME NEW c \in Cells
      PROVE  SaidOf(t, w, c, obj) /\ Lifetime(t, w, c)
  <2>1. SaidOf(s, m, c, obj) /\ Lifetime(s, m, c)
    BY DEF RunOK
  <2>2. CASE c = <<"h", 0>>
    BY <1>1, <1>3, <1>4, <2>2 DEF SaidOf, Lifetime, Has, Freed, Absent
  <2>3. CASE c # <<"h", 0>>
    <3>1. w.val[c] = m.val[c] /\ w.by[c] = m.by[c]
      BY <1>3, <1>4, <2>3
    <3>2. c[1] # "h"
      BY <2>3, CellForms
    <3>3. SaidOf(t, w, c, obj)
      BY <1>1, <2>1, <3>1, <3>2 DEF SaidOf, Has
    <3>4. Lifetime(t, w, c)
      BY <2>1, <2>3, <3>1 DEF Lifetime
    <3> QED
      BY <3>3, <3>4
  <2> QED
    BY <2>2, <2>3
<1>7. Entered(t, w)
  <2>1. Entered(s, m) /\ t.vals[<<"a">>] = s.vals[<<"a">>]
    BY <1>1, RegionForms DEF RunOK, StateOK
  <2>2. ASSUME NEW j \in 0..(Size - 1)
        PROVE  w.by[<<"a", j>>] = m.by[<<"a", j>>]
    BY <1>3, <1>4, CellForms
  <2>3. ASSUME NEW j, Has(t, Part("a", At(j)))
        PROVE  Has(s, Part("a", At(j)))
    BY <1>1, <2>3, RegionForms DEF Has
  <2> QED
    BY <2>1, <2>2, <2>3 DEF Entered
<1>8. Aim(t, w, obj)
  <2>1. Aim(s, m, obj) /\ w.val[<<"h", 0>>] # Absent
    BY <1>3, <1>4 DEF RunOK, Freed, Absent
  <2> QED
    BY <1>1, <1>4, <2>1 DEF Aim
<1>9. w.by[<<"i", 0>>] = <<"i">>
  BY <1>3, <1>4, CellForms DEF RunOK
<1> QED
  BY <1>2, <1>5, <1>6, <1>7, <1>8, <1>9 DEF RunOK, t, w

-----------------------------------------------------------------------------
\* The Region of a place.
PlaceForm(r, n) ==
    \/ r \in {<<"g">>, <<"i">>, Part("s", Field), Part("h", Field)}
    \/ \E root \in {"a", "g"}, j \in Nat : r = Part(root, At(j))
    \/ \E v : IsValue(v, n) /\ v.kind \in {"rng", "unknown"} /\ r = Part("a", In(v))

\* What i has in a State, and in an execution.
LEMMA IndexIs ==
  ASSUME NEW n \in Nat, NEW rs, NEW s, StateOK(s, n, rs)
  PROVE  /\ IsValue(Index(s), n) /\ Index(s) # Dead
         /\ Index(s).kind \in {"con", "rng", "unknown", "uninit"}
         /\ \A m, obj : RunOK(s, m, obj) => Holds(Index(s), m.val[<<"i", 0>>], obj)
<1>1. IsValue(Index(s), n) /\ Index(s) # Dead
  BY RegionForms DEF StateOK, Index
<1>2. ASSUME NEW m, NEW obj, RunOK(s, m, obj)
      PROVE  Holds(Index(s), m.val[<<"i", 0>>], obj)
  <2>1. <<"i", 0>> \in Cells /\ <<"i">> # NoRegion
    BY CellForms, RegionForms
  <2>2. SaidOf(s, m, <<"i", 0>>, obj) /\ m.by[<<"i", 0>>] = <<"i">>
    BY <1>2, <2>1 DEF RunOK
  <2> QED
    BY <2>1, <2>2 DEF SaidOf, Index, Has, StateOK
<1> QED
  BY <1>1, <1>2, ValueFacts

\* The places, by their kind.
LEMMA PlaceKinds ==
  ASSUME NEW pl \in Places
  PROVE  /\ pl[1] \in {"elem", "index", "field", "deref", "arrow", "global", "local"}
         /\ pl[1] = "elem" => pl[2] \in 0..(Size - 1)
         /\ pl[1] = "local" => pl = <<"local", 0>>
BY SizesAssumption DEF Places

\* A place has a Region that is an element, a field, a global or i, and only i itself
\* has that of i.
LEMMA LValueIs ==
  ASSUME NEW n \in Nat, NEW rs, NEW s, StateOK(s, n, rs), NEW pl \in Places,
         Fits(s, pl), Indexable(s, pl)
  PROVE  /\ PlaceForm(LValue(s, pl), n)
         /\ LValue(s, pl) = <<"i">> => pl = <<"local", 0>>
         /\ \A v : LValue(s, pl) = Part("a", In(v)) =>
                      IsValue(v, n) /\ v.kind \in {"rng", "unknown"}
<1>1. PlaceForm(LValue(s, pl), n) /\ (LValue(s, pl) = <<"i">> => pl = <<"local", 0>>)
  <2>1. CASE pl[1] = "elem"
    <3>1. LValue(s, pl) = Part("a", At(pl[2])) /\ pl[2] \in Nat
      BY <2>1, PlaceKinds, SizesAssumption DEF LValue
    <3> QED
      BY <3>1, RegionForms DEF PlaceForm
  <2>2. CASE pl[1] = "index"
    <3>1. CASE Index(s).kind = "con"
      <4>1. LValue(s, pl) = Part("a", At(Index(s).lo)) /\ Index(s).lo \in Nat
        BY <2>2, <3>1, IndexIs, ValueFacts, SizesAssumption DEF LValue, Ints
      <4> QED
        BY <4>1, RegionForms DEF PlaceForm
    <3>2. CASE Index(s).kind # "con"
      <4>1. LValue(s, pl) = Part("a", In(Index(s))) /\ Index(s).kind \in {"rng", "unknown"}
        BY <2>2, <3>2, IndexIs DEF LValue, Indexable
      <4> QED
        BY <4>1, IndexIs, RegionForms DEF PlaceForm
    <3> QED
      BY <3>1, <3>2
  <2>3. CASE pl[1] = "field"
    <3>1. LValue(s, pl) = Part("s", Field)
      BY <2>3 DEF LValue
    <3> QED
      BY <3>1, RegionForms DEF PlaceForm
  <2>4. CASE pl[1] = "deref"
    <3>1. LValue(s, pl) = s.p /\ s.p # NoRegion /\ s.p[1] \in {"a", "g"}
      BY <2>4 DEF LValue, Fits
    <3>2. s.p # <<"s">> /\ s.p # <<"h">> /\ s.p # <<"i">>
      BY <3>1, RegionForms
    <3> QED
      BY <3>1, <3>2 DEF StateOK, PointerOK, PlaceForm
  <2>5. CASE pl[1] = "arrow"
    <3>1. LValue(s, pl) = Part(s.p[1], Field) /\ s.p[1] \in {"s", "h"}
      BY <2>5 DEF LValue, Fits
    <3> QED
      BY <3>1, RegionForms DEF PlaceForm
  <2>6. CASE pl[1] = "global"
    BY <2>6 DEF LValue, PlaceForm
  <2>7. CASE pl[1] = "local"
    BY <2>7, PlaceKinds DEF LValue, PlaceForm
  <2> QED
    BY <2>1, <2>2, <2>3, <2>4, <2>5, <2>6, <2>7, PlaceKinds
<1>2. ASSUME NEW v, LValue(s, pl) = Part("a", In(v))
      PROVE  IsValue(v, n) /\ v.kind \in {"rng", "unknown"}
  BY <1>1, <1>2, RegionForms DEF PlaceForm
<1> QED
  BY <1>1, <1>2

\* What an execution has at a place, and the Region of it.
Reaches(s, m, pl, obj) ==
    LET r == LValue(s, pl)
        c == Cell(m, pl)
    IN  /\ r[1] = c[1] /\ c[2] \in Int /\ c = <<c[1], c[2]>>
        /\ c \in Cells => Through(s, m, pl) = r
        /\ Through(s, m, pl)[1] = c[1]
        /\ \A k \in 0..(Size - 1) : r = Part("a", At(k)) => c = <<"a", k>>
        /\ \A v : r = Part("a", In(v)) => Holds(v, c[2], obj)
        /\ r[1] = "h" => m.val[<<"h", 0>>] # Absent

\* The Region that a cell has if places are known is of the cell's variable.
LEMMA CanonicalRoot ==
  ASSUME NEW c
  PROVE  Canonical(c)[1] = c[1]
BY RegionForms DEF Canonical

\* An element reaches the cell that its Region says, by a number or by an index.
LEMMA ReachesElem ==
  ASSUME NEW n \in Nat, NEW rs, NEW s, StateOK(s, n, rs), NEW pl \in Places,
         Fits(s, pl), Indexable(s, pl), NEW m, NEW obj, RunOK(s, m, obj),
         pl[1] \in {"elem", "index"}
  PROVE  Reaches(s, m, pl, obj)
<1>1. CASE pl[1] = "elem"
  <2>1. /\ LValue(s, pl) = Part("a", At(pl[2])) /\ Cell(m, pl) = <<"a", pl[2]>> /\ pl[2] \in Int
        /\ Exact(s, m, pl) /\ Canonical(<<"a", pl[2]>>) = Part("a", At(pl[2]))
    BY <1>1, PlaceKinds DEF LValue, Cell, Exact, Canonical
  <2> QED
    BY <2>1, RegionForms DEF Reaches, Through
<1>2. CASE pl[1] = "index" /\ Index(s).kind = "con"
  <2> DEFINE k == Index(s).lo
  <2>1. Holds(Index(s), m.val[<<"i", 0>>], obj)
    BY IndexIs
  <2>2. m.val[<<"i", 0>>] = k /\ k \in Int
    <3>1. m.val[<<"i", 0>>] = k
      BY <1>2, <2>1 DEF Holds
    <3>2. k \in Ints
      BY <1>2, IndexIs, ValueFacts
    <3> QED
      BY <3>1, <3>2, SizesAssumption DEF Ints
  <2>3. /\ LValue(s, pl) = Part("a", At(k)) /\ Cell(m, pl) = <<"a", k>>
        /\ Exact(s, m, pl) /\ Canonical(<<"a", k>>) = Part("a", At(k))
    BY <1>2, <2>2 DEF LValue, Cell, Exact, Canonical
  <2> HIDE DEF k
  <2> QED
    BY <2>2, <2>3, RegionForms DEF Reaches, Through
<1>3. CASE pl[1] = "index" /\ Index(s).kind # "con"
  <2>1. Holds(Index(s), m.val[<<"i", 0>>], obj) /\ m.val[<<"i", 0>>] \in Int
    BY IndexIs, CellForms DEF RunOK, RunShape
  <2>2. /\ LValue(s, pl) = Part("a", In(Index(s))) /\ Cell(m, pl) = <<"a", m.val[<<"i", 0>>]>>
        /\ ~Exact(s, m, pl)
    BY <1>3 DEF LValue, Cell, Exact
  <2> QED
    BY <2>1, <2>2, RegionForms DEF Reaches, Through
<1> QED
  BY <1>1, <1>2, <1>3

\* So does a pointer, where it was moved to.
LEMMA ReachesDeref ==
  ASSUME NEW n \in Nat, NEW rs, NEW s, StateOK(s, n, rs), NEW pl \in Places,
         Fits(s, pl), Indexable(s, pl), NEW m, NEW obj, RunOK(s, m, obj), pl[1] = "deref"
  PROVE  Reaches(s, m, pl, obj)
<1>1. /\ LValue(s, pl) = s.p /\ s.p # NoRegion /\ s.p[1] \in {"a", "g"}
      /\ Cell(m, pl) = m.p /\ (Exact(s, m, pl) <=> m.exact)
  BY DEF LValue, Fits, Cell, Exact
<1>2. Aim(s, m, obj) /\ m.p = <<m.p[1], m.p[2]>> /\ m.p[2] \in Int
  BY DEF RunOK, RunShape
<1>3. ~m.exact => Through(s, m, pl) = s.p
  BY <1>1 DEF Through
<1>4. m.exact => Through(s, m, pl) = Canonical(m.p)
  BY <1>1 DEF Through
<1>5. m.p[1] = s.p[1]
  BY <1>1, <1>2 DEF Aim
<1>6. Through(s, m, pl)[1] = m.p[1]
  BY <1>3, <1>4, <1>5, CanonicalRoot
<1>7. /\ \A k \in 0..(Size - 1) : s.p = Part("a", At(k)) => m.p = <<"a", k>>
      /\ \A v : s.p = Part("a", In(v)) => Holds(v, m.p[2], obj)
  <2>1. ASSUME NEW k \in 0..(Size - 1), s.p = Part("a", At(k))
        PROVE  m.p = <<"a", k>>
    <3>1. k \in Nat /\ k < Size
      BY SizesAssumption
    <3>2. m.p[2] = k
      BY <1>1, <1>2, <2>1, <3>1 DEF Aim
    <3> QED
      BY <1>2, <1>5, <2>1, <3>2, RegionForms
  <2> QED
    BY <1>1, <1>2, <2>1 DEF Aim
<1>8. ASSUME m.p \in Cells, m.exact
      PROVE  Canonical(m.p) = s.p
  <2>1. CASE s.p = <<"g">>
    <3>1. m.p[1] = "g"
      BY <1>5, <2>1
    <3> QED
      BY <2>1, <3>1 DEF Canonical
  <2>2. ASSUME NEW j \in Nat, s.p = Part("a", At(j))
        PROVE  Canonical(m.p) = s.p
    <3>1. m.p[2] = j /\ m.p[1] = "a"
      BY <1>1, <1>2, <1>5, <1>8, <2>2, RegionForms DEF Aim
    <3> QED
      BY <2>2, <3>1 DEF Canonical
  <2>3. ASSUME NEW j \in Nat, s.p = Part("g", At(j))
        PROVE  FALSE
    <3>1. m.p[2] = 1 /\ m.p[1] = "g"
      BY <1>1, <1>2, <1>5, <1>8, <2>3, RegionForms DEF Aim
    <3> QED
      BY <1>8, <3>1, CellForms
  <2>4. ASSUME NEW v, s.p = Part("a", In(v))
        PROVE  FALSE
    BY <1>1, <1>2, <1>8, <2>4 DEF Aim
  <2>5. s.p # <<"s">> /\ s.p # <<"h">>
    BY <1>1, RegionForms
  <2> QED
    BY <1>1, <2>1, <2>2, <2>3, <2>4, <2>5 DEF StateOK, PointerOK
<1> QED
  BY <1>1, <1>2, <1>3, <1>4, <1>5, <1>6, <1>7, <1>8 DEF Reaches

\* And so does every other place.
LEMMA ReachesPlace ==
  ASSUME NEW n \in Nat, NEW rs, NEW s, StateOK(s, n, rs), NEW pl \in Places,
         Fits(s, pl), Indexable(s, pl), NEW m, NEW obj, RunOK(s, m, obj)
  PROVE  Reaches(s, m, pl, obj)
<1>1. CASE pl[1] = "field"
  <2>1. /\ LValue(s, pl) = Part("s", Field) /\ Cell(m, pl) = <<"s", 0>>
        /\ Exact(s, m, pl) /\ Canonical(<<"s", 0>>) = Part("s", Field)
    BY <1>1 DEF LValue, Cell, Exact, Canonical
  <2> QED
    BY <2>1, RegionForms DEF Reaches, Through
<1>2. CASE pl[1] = "arrow"
  <2>1. s.p # NoRegion /\ s.p[1] \in {"s", "h"}
    BY <1>2 DEF Fits
  <2>2. m.p[1] = s.p[1]
    BY <2>1 DEF RunOK, Aim
  <2>3. /\ LValue(s, pl) = Part(s.p[1], Field) /\ Cell(m, pl) = <<s.p[1], 0>>
        /\ Exact(s, m, pl) /\ Canonical(<<s.p[1], 0>>) = Part(s.p[1], Field)
    BY <1>2, <2>1, <2>2 DEF LValue, Cell, Exact, Canonical
  <2>4. s.p[1] = "h" => s.p = <<"h">>
    <3>1. \A root \in {"a", "g"} : \A key : s.p = Part(root, key) => s.p[1] # "h"
      BY RegionForms
    <3>2. s.p # <<"s">> \/ s.p[1] = "s"
      BY RegionForms
    <3>3. s.p # <<"g">> \/ s.p[1] = "g"
      BY RegionForms
    <3> QED
      BY <2>1, <3>1, <3>2, <3>3 DEF StateOK, PointerOK
  <2>5. s.p[1] = "h" => m.val[<<"h", 0>>] # Absent
    BY <2>1, <2>4 DEF RunOK, Aim
  <2> QED
    BY <2>1, <2>3, <2>5, RegionForms DEF Reaches, Through
<1>3. CASE pl[1] \in {"global", "local"}
  <2> DEFINE x == IF pl[1] = "global" THEN "g" ELSE "i"
  <2>1. /\ LValue(s, pl) = <<x>> /\ Cell(m, pl) = <<x, 0>>
        /\ Exact(s, m, pl) /\ Canonical(<<x, 0>>) = <<x>> /\ x # "h"
    BY <1>3 DEF LValue, Cell, Exact, Canonical
  <2> HIDE DEF x
  <2> QED
    BY <2>1, RegionForms DEF Reaches, Through
<1> QED
  BY <1>1, <1>2, <1>3, ReachesElem, ReachesDeref, PlaceKinds

-----------------------------------------------------------------------------
Elements(s, w) == {s.vals[Part("a", At(k))] : k \in w.lo..w.hi}

\* The values that a summary unites are numbers, and it is none of a value more
\* than they say; or it is the first of them, that nothing is known of.
LEMMA SummaryIs ==
  ASSUME NEW n \in Nat, NEW s, StateOK(s, n, made), NEW w, IsValue(w, n), w.kind = "rng",
         NEW v, v = SummarizeArray(s, "a", w, n + 1), v # None, v # Crash
  PROVE  /\ \A k \in w.lo..w.hi : Has(s, Part("a", At(k)))
         /\ \/ v.kind = "unknown" /\ IsValue(v, n)
            \/ \E lo \in Ints, hi \in Ints :
                  /\ v = Make(n + 1, lo, hi) /\ lo <= hi
                  /\ \A u \in Elements(s, w) : u.kind \in Ranges /\ lo <= u.lo /\ u.hi <= hi
<1> DEFINE range == w.lo..w.hi
           value(k) == s.vals[Part("a", At(k))]
           first == value(w.lo)
           stops == {k \in range : \/ Part("a", At(k)) \notin made
                                   \/ ~Has(s, Part("a", At(k)))
                                   \/ /\ k # w.lo /\ Has(s, Part("a", At(w.lo)))
                                      /\ ~Unites(first, value(k))}
           los == {value(k).lo : k \in range}
           his == {value(k).hi : k \in range}
<1>1. w.lo \in Ints /\ w.hi \in Ints /\ w.lo < w.hi
  BY ValueFacts
<1>2. w.lo \in range /\ w.hi \in range /\ range # {w.lo}
  BY <1>1, SizesAssumption DEF Ints
<1>3. v = IF stops # {}
          THEN IF \E k \in stops : Part("a", At(k)) \notin made /\ \A j \in stops : k <= j
               THEN None ELSE Crash
          ELSE IF first.kind = "unknown" \/ range = {w.lo} THEN first
          ELSE Make(n + 1, Min(los), Max(his))
  BY DEF SummarizeArray
<1> HIDE DEF los, his
<1>4. stops = {}
  BY <1>3
<1>5. \A k \in range : Has(s, Part("a", At(k))) /\ IsValue(value(k), n)
  BY <1>4 DEF StateOK, Has
<1>6. CASE first.kind = "unknown"
  BY <1>2, <1>3, <1>4, <1>5, <1>6
<1>7. CASE first.kind # "unknown"
  <2>1. v = Make(n + 1, Min(los), Max(his))
    BY <1>2, <1>3, <1>4, <1>7
  <2>2. \A k \in range : k # w.lo => Unites(first, value(k))
    BY <1>2, <1>4, <1>5
  <2>3. \A k \in range : value(k).kind \in Ranges
    BY <1>2, <1>7, <2>2 DEF Unites
  <2> HIDE DEF range, value
  <2>4. \A k \in range : value(k).lo \in Ints /\ value(k).hi \in Ints /\ value(k).lo <= value(k).hi
    <3>1. ASSUME NEW k \in range
          PROVE  value(k).lo \in Ints /\ value(k).hi \in Ints /\ value(k).lo <= value(k).hi
      <4>1. value(k).kind \in {"con", "rng"} /\ IsValue(value(k), n)
        BY <1>5, <2>3 DEF Ranges, value
      <4> QED
        BY <4>1, ValueFacts, SizesAssumption DEF Ints
    <3> QED
      BY <3>1
  <2>5. los \in SUBSET Ints /\ los # {} /\ his \in SUBSET Ints /\ his # {}
    BY <1>2, <2>4 DEF los, his
  <2>6. /\ Min(los) \in Ints /\ \A y \in los : Min(los) <= y
        /\ Max(his) \in Ints /\ \A y \in his : y <= Max(his)
    BY <2>5, MinInts, MaxInts
  <2>7. \A k \in range : Min(los) <= value(k).lo /\ value(k).hi <= Max(his)
    BY <2>6 DEF los, his
  <2>8. Min(los) <= Max(his)
    <3>1. value(w.lo).lo \in Ints /\ value(w.lo).hi \in Ints /\ value(w.lo).lo <= value(w.lo).hi
      BY <1>2, <2>4
    <3>2. Min(los) <= value(w.lo).lo /\ value(w.lo).hi <= Max(his)
      BY <1>2, <2>7
    <3> QED
      BY <2>6, <3>1, <3>2, SizesAssumption DEF Ints
  <2>9. \A u \in Elements(s, w) : u.kind \in Ranges /\ Min(los) <= u.lo /\ u.hi <= Max(his)
    BY <2>3, <2>7 DEF Elements, range, value
  <2> QED
    BY <1>5, <2>1, <2>6, <2>8, <2>9 DEF range
<1> QED
  BY <1>6, <1>7

\* There is no summary if there is an element that has no Region.
LEMMA NoSummary ==
  ASSUME NEW n \in Nat, NEW s, StateOK(s, n, made), NEW w, IsValue(w, n), w.kind = "rng",
         SummarizeArray(s, "a", w, n + 1) = None
  PROVE  \E k \in w.lo..w.hi : Part("a", At(k)) \notin made
<1> DEFINE range == w.lo..w.hi
           value(k) == s.vals[Part("a", At(k))]
           first == value(w.lo)
           stops == {k \in range : \/ Part("a", At(k)) \notin made
                                   \/ ~Has(s, Part("a", At(k)))
                                   \/ /\ k # w.lo /\ Has(s, Part("a", At(w.lo)))
                                      /\ ~Unites(first, value(k))}
           los == {value(k).lo : k \in range}
           his == {value(k).hi : k \in range}
<1>1. w.lo \in Ints /\ w.hi \in Ints /\ w.lo < w.hi
  BY ValueFacts
<1>2. None = IF stops # {}
             THEN IF \E k \in stops : Part("a", At(k)) \notin made /\ \A j \in stops : k <= j
                  THEN None ELSE Crash
             ELSE IF first.kind = "unknown" \/ range = {w.lo} THEN first
             ELSE Make(n + 1, Min(los), Max(his))
  BY DEF SummarizeArray
<1> HIDE DEF los, his
<1>3. CASE stops # {}
  BY <1>2, <1>3 DEF None, Crash
<1>4. CASE stops = {}
  <2>1. w.lo \in range
    BY <1>1, SizesAssumption DEF Ints
  <2>2. IsValue(first, n)
    BY <1>4, <2>1 DEF StateOK, Has
  <2>3. first.kind # "none" /\ first # None
    BY <2>2, ValueFacts DEF None
  <2>4. Make(n + 1, Min(los), Max(his)) # None
    BY DEF Make, Con, Rng, None
  <2> QED
    BY <1>2, <1>4, <2>3, <2>4
<1> QED
  BY <1>3, <1>4

\* Where the value of a place comes from.
LEMMA ReadCases ==
  ASSUME NEW n \in Nat, NEW s, NEW r, PlaceForm(r, n)
  PROVE  LET v == GetStore(s, r, n + 1)
             whole == s.vals[Root(r)]
         IN  \/ Has(s, r) /\ v = s.vals[r]
             \/ ~Has(s, r) /\ ~Has(s, Root(r)) /\ v = UnknownInt(n + 1)
             \/ /\ ~Has(s, r) /\ Has(s, Root(r)) /\ whole.kind = "uninit"
                /\ \E w : /\ IsValue(w, n) /\ w.kind = "rng" /\ r = Part("a", In(w))
                          /\ v = SummarizeArray(s, "a", w, n + 1) /\ v # None
             \/ /\ ~Has(s, r) /\ Has(s, Root(r)) /\ v = Extract(n + 1, whole)
                /\ \A w : r = Part("a", In(w)) /\ w.kind = "rng" /\ whole.kind = "uninit" =>
                             SummarizeArray(s, "a", w, n + 1) = None
<1> DEFINE v == GetStore(s, r, n + 1)
           whole == s.vals[Root(r)]
           summary == SummarizeArray(s, r[1], r[2][2], n + 1)
           summed == /\ whole.kind = "uninit" /\ r[2][1] = "in"
                     /\ r[2][2].kind = "rng" /\ summary # None
<1>1. v = IF Has(s, r) THEN s.vals[r]
          ELSE IF ~Has(s, Root(r)) THEN UnknownInt(n + 1)
          ELSE IF summed THEN summary
          ELSE Extract(n + 1, whole)
  BY DEF GetStore
<1>2. \A w : r = Part("a", In(w)) =>
         /\ summary = SummarizeArray(s, "a", w, n + 1)
         /\ r[2][1] = "in" /\ r[2][2] = w
  BY RegionForms
<1>3. r \notin {<<"g">>, <<"i">>} /\ r[2][1] = "in" =>
         \E w : IsValue(w, n) /\ r = Part("a", In(w))
  <2>1. Part("s", Field)[2][1] = "field" /\ Part("h", Field)[2][1] = "field"
    BY RegionForms DEF Field
  <2>2. \A root, j : Part(root, At(j))[2][1] = "at"
    BY RegionForms
  <2> QED
    BY <2>1, <2>2 DEF PlaceForm
<1>4. r \in {<<"g">>, <<"i">>} => Root(r) = r
  BY DEF Root
<1> HIDE DEF v, whole, summary
<1>5. CASE Has(s, r) \/ ~Has(s, Root(r))
  BY <1>1, <1>5 DEF v, whole
<1>6. CASE ~Has(s, r) /\ Has(s, Root(r)) /\ summed
  <2>1. PICK w : IsValue(w, n) /\ r = Part("a", In(w))
    BY <1>3, <1>4, <1>6
  <2>2. w.kind = "rng" /\ v = SummarizeArray(s, "a", w, n + 1) /\ v # None
    BY <1>1, <1>2, <1>6, <2>1
  <2> QED
    BY <1>6, <2>1, <2>2 DEF v, whole
<1>7. CASE ~Has(s, r) /\ Has(s, Root(r)) /\ ~summed
  <2>1. v = Extract(n + 1, whole)
    BY <1>1, <1>7
  <2>2. \A w : r = Part("a", In(w)) /\ w.kind = "rng" /\ whole.kind = "uninit" =>
           SummarizeArray(s, "a", w, n + 1) = None
    BY <1>2, <1>7
  <2> QED
    BY <1>7, <2>1, <2>2 DEF v, whole
<1> QED
  BY <1>5, <1>6, <1>7

\* What is read is a value of a State.
LEMMA ReadIs ==
  ASSUME NEW n \in Nat, NEW s, StateOK(s, n, made), NEW r, PlaceForm(r, n),
         GetStore(s, r, n + 1) # Crash
  PROVE  /\ IsValue(GetStore(s, r, n + 1), n + 1)
         /\ GetStore(s, r, n + 1) = Dead => r = Part("h", Field)
<1> DEFINE v == GetStore(s, r, n + 1)
           whole == s.vals[Root(r)]
<1> SUFFICES IsValue(v, n + 1) /\ (v = Dead => r = Part("h", Field))
  OBVIOUS
<1>1. r # <<"h">> /\ (Root(r) = <<"h">> => r = Part("h", Field))
  BY RegionForms DEF PlaceForm, Root
<1>2. IsValue(UnknownInt(n + 1), n + 1) /\ UnknownInt(n + 1) # Dead
  <2>1. n + 1 \in 1..(n + 1) /\ 0 \in Ints /\ MaxInt \in Ints /\ 0 < MaxInt
    BY SizesAssumption DEF Ints
  <2> QED
    BY <2>1 DEF UnknownInt, Rng, IsValue, Dead
<1>3. CASE Has(s, r) /\ v = s.vals[r]
  BY <1>1, <1>3, ValueGrows DEF StateOK, Has
<1>4. CASE v = UnknownInt(n + 1)
  BY <1>2, <1>4
<1>5. ASSUME NEW w, IsValue(w, n), w.kind = "rng", v = SummarizeArray(s, "a", w, n + 1), v # None
      PROVE  IsValue(v, n + 1) /\ v # Dead
  <2>1. CASE v.kind = "unknown" /\ IsValue(v, n)
    BY <2>1, ValueGrows DEF Dead
  <2>2. ASSUME NEW lo \in Ints, NEW hi \in Ints, v = Make(n + 1, lo, hi), lo <= hi
        PROVE  IsValue(v, n + 1) /\ v # Dead
    <3>1. n + 1 \in Nat /\ n + 1 \in 1..(n + 1)
      OBVIOUS
    <3>2. IsValue(v, n + 1) /\ v.kind \in {"con", "rng"}
      BY <2>2, <3>1, MakeIs
    <3> QED
      BY <3>2 DEF Dead
  <2>3. v # Crash
    OBVIOUS
  <2> HIDE DEF v
  <2> QED
    BY <1>5, <2>1, <2>2, <2>3, SummaryIs
<1>6. CASE Has(s, Root(r)) /\ v = Extract(n + 1, whole)
  <2>1. IsValue(whole, n) /\ (whole = Dead => Root(r) = <<"h">>)
    BY <1>6 DEF StateOK, Has
  <2> HIDE DEF whole, v
  <2>2. CASE whole.kind = "unknown"
    BY <1>2, <1>6, <2>2 DEF Extract
  <2>3. CASE whole.kind = "rng"
    <3>1. whole.lo \in Ints /\ whole.hi \in Ints /\ whole.lo < whole.hi /\ n + 1 \in 1..(n + 1)
      BY <2>1, <2>3, ValueFacts
    <3>2. v = Rng(n + 1, whole.lo, whole.hi)
      BY <1>6, <2>3 DEF Extract
    <3> QED
      BY <3>1, <3>2 DEF IsValue, Rng, Dead
  <2>4. CASE whole.kind \notin {"unknown", "rng"}
    <3>1. v = whole
      BY <1>6, <2>4 DEF Extract
    <3> QED
      BY <1>1, <2>1, <3>1, ValueGrows
  <2> QED
    BY <2>2, <2>3, <2>4
<1> HIDE DEF v
<1> QED
  BY <1>3, <1>4, <1>5, <1>6, ReadCases DEF v, whole

-----------------------------------------------------------------------------
\* What is read in freed memory.
LEMMA FreedRead ==
  ASSUME NEW n \in Nat, NEW s, StateOK(s, n, made), NEW pl \in Places,
         Fits(s, pl), Indexable(s, pl), NEW m, NEW obj, RunOK(s, m, obj), Legal(m, pl),
         Contents(m, pl) = Freed
  PROVE  GetStore(s, LValue(s, pl), n + 1) = Dead
<1> DEFINE r == LValue(s, pl)
           c == Cell(m, pl)
<1>1. Reaches(s, m, pl, obj) /\ PlaceForm(r, n)
  BY ReachesPlace, LValueIs
<1>2. c \in Cells /\ m.val[c] = Freed
  BY DEF Legal, Contents
<1>3. r[1] = c[1]
  BY <1>1 DEF Reaches
<1> HIDE DEF r, c
<1>4. /\ c = <<"h", 0>> /\ ~Has(s, Part("h", Field))
      /\ Has(s, <<"h">>) /\ s.vals[<<"h">>] = Dead
  BY <1>2 DEF RunOK, Lifetime
<1>5. r = Part("h", Field) /\ Root(r) = <<"h">>
  BY <1>1, <1>3, <1>4, RegionForms DEF PlaceForm, Root
<1>6. Dead.kind = "dead"
  BY DEF Dead
<1>7. GetStore(s, r, n + 1) = Extract(n + 1, Dead)
  BY <1>1, <1>4, <1>5, <1>6, ReadCases
<1> QED
  BY <1>6, <1>7 DEF Extract, r

\* What an execution says that is held against what is read.
Told(s, m, r, c, x, obj) ==
    \/ Has(s, r) /\ Holds(s.vals[r], x, obj)
    \/ ~Has(s, r) /\ ~Has(s, Root(r)) /\ x \in Ints
    \/ ~Has(s, r) /\ Has(s, Root(r)) /\ Holds(s.vals[Root(r)], x, obj) /\ m.by[c] = Root(r)
    \/ /\ ~Has(s, r) /\ s.vals[Root(r)] = Uninit
       /\ \E w : /\ r = Part("a", In(w)) /\ c = <<"a", c[2]>>
                 /\ Has(s, Part("a", At(c[2])))
                 /\ Holds(s.vals[Part("a", At(c[2]))], x, obj)

\* A read that is held against an execution is of a value that was said of that cell,
\* of its whole, or of the element that the index is.
LEMMA MetIs ==
  ASSUME NEW n \in Nat, NEW rs, NEW s, StateOK(s, n, rs), NEW pl \in Places,
         Fits(s, pl), Indexable(s, pl), NEW m, NEW obj, RunOK(s, m, obj), Legal(m, pl),
         Met(s, m, pl), Contents(m, pl) # Freed
  PROVE  Told(s, m, LValue(s, pl), Cell(m, pl), Contents(m, pl), obj)
<1> DEFINE r == LValue(s, pl)
           c == Cell(m, pl)
           x == Contents(m, pl)
<1>1. Reaches(s, m, pl, obj) /\ PlaceForm(r, n)
  BY ReachesPlace, LValueIs
<1>2. c \in Cells /\ m.val[c] = x
  BY DEF Legal, Contents
<1>3. /\ r[1] = c[1] /\ Through(s, m, pl) = r
      /\ r[1] = "h" => m.val[<<"h", 0>>] # Absent
  BY <1>1, <1>2 DEF Reaches
<1>4. \/ m.by[c] = r
      \/ ~Has(s, r) /\ m.by[c] = Root(r)
      \/ /\ ~Has(s, r) /\ m.by[c] = Canonical(c)
         /\ s.vals[Root(r)] = Uninit /\ r[2] = In(Index(s))
  BY <1>2, <1>3 DEF Met
<1>5. SaidOf(s, m, c, obj) /\ Lifetime(s, m, c)
  BY <1>2 DEF RunOK
<1> SUFFICES Told(s, m, r, c, x, obj)
  OBVIOUS
<1> HIDE DEF r, c, x
<1>6. r # NoRegion /\ r # <<"h">> /\ Root(r) # NoRegion /\ (r \in {<<"g">>, <<"i">>} => Root(r) = r)
  BY <1>1, RegionForms DEF PlaceForm, Root
<1>7. x = Absent => r[1] = "h" /\ m.val[<<"h", 0>>] = Absent
  BY <1>2, <1>3, <1>5 DEF Lifetime
<1>8. ASSUME m.by[c] = r \/ m.by[c] = Root(r), ~Has(s, m.by[c])
      PROVE  x \in Ints /\ m.by[c] \in {<<"g">>, <<"h">>}
  BY <1>2, <1>3, <1>5, <1>6, <1>7, <1>8 DEF SaidOf
<1>9. CASE m.by[c] = r
  <2>1. CASE Has(s, r)
    BY <1>2, <1>5, <1>6, <1>9, <2>1 DEF SaidOf, Told
  <2>2. CASE ~Has(s, r)
    <3>1. x \in Ints /\ r = <<"g">>
      BY <1>6, <1>8, <1>9, <2>2
    <3> QED
      BY <1>6, <2>2, <3>1 DEF Told
  <2> QED
    BY <2>1, <2>2
<1>10. CASE ~Has(s, r) /\ m.by[c] = Root(r)
  <2>1. CASE Has(s, Root(r))
    BY <1>2, <1>5, <1>6, <1>10, <2>1 DEF SaidOf, Told
  <2>2. CASE ~Has(s, Root(r))
    BY <1>8, <1>10, <2>2 DEF Told
  <2> QED
    BY <2>1, <2>2
<1>11. CASE /\ ~Has(s, r) /\ m.by[c] = Canonical(c)
            /\ s.vals[Root(r)] = Uninit /\ r[2] = In(Index(s))
  <2>1. CASE r = <<"g">>
    <3>1. Canonical(c) = <<"g">> /\ Root(r) = <<"g">>
      BY <1>3, <2>1 DEF Canonical, Root
    <3> QED
      BY <1>10, <1>11, <3>1
  <2>2. CASE r = <<"i">>
    BY <1>11, <2>2 DEF StateOK, Has
  <2>3. CASE r # <<"g">> /\ r # <<"i">>
    <3>1. PICK w : r = Part("a", In(w))
      BY <1>1, <1>11, <2>3, RegionForms DEF PlaceForm
    <3>2. c[1] = "a" /\ c = <<"a", c[2]>>
      BY <1>2, <1>3, <3>1, CellForms, RegionForms
    <3>3. m.by[c] = Part("a", At(c[2])) /\ m.by[c] # NoRegion
          /\ m.by[c] # <<"g">> /\ m.by[c] # <<"h">>
      BY <1>11, <3>2, RegionForms DEF Canonical
    <3>4. Has(s, m.by[c]) /\ Holds(s.vals[m.by[c]], x, obj)
      BY <1>2, <1>5, <3>3 DEF SaidOf
    <3> QED
      BY <1>11, <3>1, <3>2, <3>3, <3>4 DEF Told
  <2> QED
    BY <2>1, <2>2, <2>3
<1> QED
  BY <1>4, <1>9, <1>10, <1>11 DEF r, c, x

\* What is read at a place is right, for an execution that it is held against; it
\* is a value of which nothing is known that stands for data that was never set.
LEMMA ReadHolds ==
  ASSUME NEW n \in Nat, NEW s, StateOK(s, n, made), NEW pl \in Places,
         Fits(s, pl), Indexable(s, pl), NEW m, NEW obj \in [Nat -> Int], RunOK(s, m, obj),
         Legal(m, pl), Met(s, m, pl),
         NEW v, v = GetStore(s, LValue(s, pl), n + 1), v.kind \in {"con", "rng", "unknown"}
  PROVE  /\ Contents(m, pl) # Freed
         /\ \/ v.kind = "unknown" /\ Contents(m, pl) = Garbage
            \/ /\ Contents(m, pl) \in Ints
               /\ Holds(v, Contents(m, pl), With(obj, n + 1, Contents(m, pl)))
<1> DEFINE r == LValue(s, pl)
           c == Cell(m, pl)
           x == Contents(m, pl)
           other == With(obj, n + 1, x)
<1>1. Reaches(s, m, pl, obj) /\ PlaceForm(r, n)
  BY ReachesPlace, LValueIs
<1>2. x # Freed
  <2>1. v # Dead
    BY DEF Dead
  <2> QED
    BY <2>1, FreedRead
<1>3. Told(s, m, r, c, x, obj)
  BY <1>2, MetIs
<1>4. x \in Int /\ c \in Cells
  BY DEF Contents, Legal, RunOK, RunShape
<1>5. other[n + 1] = x /\ Agree(obj, other, n)
  BY <1>4, WithAgrees
<1>6. ASSUME NEW u, IsValue(u, n), Holds(u, x, obj)
      PROVE  Holds(u, x, other)
  <2> HIDE DEF other, x
  <2> QED
    BY <1>5, <1>6, HoldsStill
<1>7. PlaceForm(r, n) /\ v = GetStore(s, r, n + 1)
  BY <1>1
<1>8. \A w : r = Part("a", In(w)) => Holds(w, c[2], obj)
  BY <1>1 DEF Reaches
<1>9. v \notin {Uninit, Dead, None, Crash}
  BY DEF Uninit, Dead, None, Crash
<1> SUFFICES \/ v.kind = "unknown" /\ x = Garbage
             \/ x \in Ints /\ Holds(v, x, other)
  BY <1>2
<1> HIDE DEF r, c, x, other
<1>10. ASSUME NEW u, IsValue(u, n), Holds(u, x, obj), u # Uninit, u # Dead
       PROVE  x \in Ints
  BY <1>10, HoldsInts
<1>11. x \in Ints => Holds(UnknownInt(n + 1), x, other)
  BY <1>5, SizesAssumption DEF UnknownInt, Rng, Holds, Ints
<1>12. CASE Has(s, r) /\ v = s.vals[r]
  <2>1. IsValue(v, n) /\ Holds(v, x, obj)
    BY <1>3, <1>12 DEF Told, StateOK, Has
  <2> QED
    BY <1>6, <1>9, <1>10, <2>1
<1>13. CASE ~Has(s, r) /\ ~Has(s, Root(r)) /\ v = UnknownInt(n + 1)
  <2>1. x \in Ints
    <3>1. s.vals[Root(r)] = Uninit /\ (\E w : r = Part("a", In(w))) => Has(s, Root(r))
      BY RegionForms DEF Root, StateOK, Has
    <3> QED
      BY <1>3, <1>13, <3>1 DEF Told
  <2> QED
    BY <1>11, <1>13, <2>1
<1>14. ASSUME ~Has(s, r), Has(s, Root(r)), s.vals[Root(r)].kind = "uninit",
              NEW w, IsValue(w, n), w.kind = "rng", r = Part("a", In(w)),
              v = SummarizeArray(s, "a", w, n + 1)
       PROVE  \/ v.kind = "unknown" /\ x = Garbage
              \/ x \in Ints /\ Holds(v, x, other)
  <2> DEFINE k == c[2]
             u == s.vals[Part("a", At(k))]
  <2>1. k \in w.lo..w.hi
    BY <1>8, <1>14 DEF Holds
  <2>2. /\ \A j \in w.lo..w.hi : Has(s, Part("a", At(j)))
        /\ \/ v.kind = "unknown" /\ IsValue(v, n)
           \/ \E lo \in Ints, hi \in Ints :
                 /\ v = Make(n + 1, lo, hi) /\ lo <= hi
                 /\ \A y \in Elements(s, w) : y.kind \in Ranges /\ lo <= y.lo /\ y.hi <= hi
    BY <1>9, <1>14, SummaryIs
  <2>3. Has(s, Part("a", At(k))) /\ u \in Elements(s, w) /\ IsValue(u, n) /\ u # Dead
    BY <2>1, <2>2, RegionForms DEF Elements, StateOK, Has
  <2>4. Holds(u, x, obj)
    <3>1. CASE Holds(s.vals[Root(r)], x, obj) /\ m.by[c] = Root(r)
      <4>1. Root(r) = <<"a">> /\ s.vals[<<"a">>] = Uninit
        <5>1. Root(r) = <<"a">>
          BY <1>14, RegionForms DEF Root
        <5> QED
          BY <1>14, <5>1, ValueFacts DEF StateOK
      <4>2. c = <<"a", k>> /\ k \in 0..(Size - 1)
        <5>1. c \in Cells /\ c[1] = "a"
          BY <1>1, <1>4, <1>14, RegionForms DEF Reaches, r, c
        <5>2. c = <<"a", k>>
          BY <5>1, CellForms
        <5> QED
          BY <5>1, <5>2, CellForms
      <4>3. m.by[<<"a", k>>] # <<"a">>
        BY <2>3, <4>1, <4>2 DEF RunOK, Entered
      <4> QED
        BY <3>1, <4>1, <4>2, <4>3
    <3>2. CASE ~(Holds(s.vals[Root(r)], x, obj) /\ m.by[c] = Root(r))
      BY <1>3, <1>14, <3>2 DEF Told
    <3> QED
      BY <3>1, <3>2
  <2> HIDE DEF u, k
  <2>5. u # Uninit => x \in Ints
    BY <1>10, <2>3, <2>4
  <2>6. u = Uninit => x = Garbage
    BY <2>4 DEF Holds, Uninit
  <2>7. CASE v.kind = "unknown"
    <3>1. x \in Ints => Holds(v, x, other)
      BY <2>7 DEF Holds
    <3> QED
      BY <2>5, <2>6, <2>7, <3>1
  <2>8. ASSUME NEW lo \in Ints, NEW hi \in Ints, v = Make(n + 1, lo, hi), lo <= hi,
               \A y \in Elements(s, w) : y.kind \in Ranges /\ lo <= y.lo /\ y.hi <= hi
        PROVE  x \in Ints /\ Holds(v, x, other)
    <3>1. u.kind \in {"con", "rng"} /\ lo <= u.lo /\ u.hi <= hi
      BY <2>3, <2>8 DEF Ranges
    <3>2. u.lo \in Ints /\ u.hi \in Ints /\ x \in u.lo..u.hi
      <4>1. CASE u.kind = "con"
        <5>1. x = u.lo /\ u.hi = u.lo /\ u.lo \in Ints
          BY <2>3, <2>4, <4>1, ValueFacts DEF Holds
        <5> QED
          BY <5>1, SizesAssumption DEF Ints
      <4>2. CASE u.kind = "rng"
        BY <2>3, <2>4, <4>2, ValueFacts DEF Holds
      <4> QED
        BY <3>1, <4>1, <4>2
    <3>3. x \in lo..hi
      BY <3>1, <3>2, SizesAssumption DEF Ints
    <3>4. n + 1 \in Nat /\ n + 1 \in 1..(n + 1)
      OBVIOUS
    <3>5. Holds(Make(n + 1, lo, hi), x, other)
      BY <1>5, <2>8, <3>3, <3>4, MakeIs
    <3>6. x \in Ints
      BY <3>3, SizesAssumption DEF Ints
    <3> QED
      BY <2>8, <3>5, <3>6
  <2> QED
    BY <2>2, <2>7, <2>8
<1>15. CASE ~Has(s, r) /\ Has(s, Root(r)) /\ v = Extract(n + 1, s.vals[Root(r)])
  <2> DEFINE whole == s.vals[Root(r)]
  <2>1. IsValue(whole, n)
    BY <1>15 DEF StateOK, Has
  <2>2. Extract(n + 1, Uninit) = Uninit /\ Extract(n + 1, Dead) = Dead
    BY DEF Extract, Uninit, Dead
  <2>3. whole # Uninit /\ whole # Dead
    BY <1>9, <1>15, <2>2
  <2>4. Holds(whole, x, obj)
    BY <1>3, <1>15, <2>3 DEF Told
  <2>5. x \in Ints
    BY <1>10, <2>1, <2>3, <2>4
  <2> HIDE DEF whole
  <2>6. CASE whole.kind = "unknown"
    BY <1>11, <1>15, <2>5, <2>6 DEF Extract, whole
  <2>7. CASE whole.kind = "rng"
    <3>1. v = Rng(n + 1, whole.lo, whole.hi) /\ x \in whole.lo..whole.hi
      BY <1>15, <2>4, <2>7 DEF Extract, Holds, whole
    <3> QED
      BY <1>5, <2>5, <3>1 DEF Holds, Rng
  <2>8. CASE whole.kind \notin {"unknown", "rng"}
    <3>1. v = whole
      BY <1>15, <2>8 DEF Extract, whole
    <3> QED
      BY <1>6, <2>1, <2>4, <2>5, <3>1
  <2> QED
    BY <2>6, <2>7, <2>8
<1> QED
  BY <1>7, <1>12, <1>13, <1>14, <1>15, ReadCases

-----------------------------------------------------------------------------
\* What a step that stays on the path has to keep.
Goes ==
    /\ fresh' \in Nat /\ fresh <= fresh' /\ made \subseteq made'
    /\ Right(path', runs', fresh', made')

\* A State that is set aside is right still when more objects and Regions were made.
LEMMA RightGrows ==
  ASSUME NEW n \in Nat, NEW k \in Nat, n <= k, NEW rs, NEW ss, rs \subseteq ss,
         NEW s, NEW R, NEW Q \in SUBSET R, Right(s, R, n, rs)
  PROVE  Right(s, Q, k, ss)
<1>1. StateOK(s, k, ss)
  BY StateGrows DEF Right
<1> QED
  BY <1>1 DEF Right

\* A step that stays on the path keeps what is set aside as it was.
LEMMA GoesOn ==
  ASSUME AllRight, Goes, rest' = rest
  PROVE  AllRight'
<1>1. ASSUME NEW i \in 1..Len(rest)
      PROVE  Right(rest[i].path, rest[i].runs, fresh', made')
  <2>1. Right(rest[i].path, rest[i].runs, fresh, made) /\ fresh \in Nat
    BY DEF AllRight
  <2> QED
    BY <2>1, RightGrows DEF Goes
<1> QED
  BY <1>1 DEF AllRight, Goes

\* A step may set aside another State, with executions for which it is right.
LEMMA GoesBoth ==
  ASSUME AllRight, Goes, NEW s, NEW R, Right(s, R, fresh', made'),
         rest' = Append(rest, [path |-> s, runs |-> R])
  PROVE  AllRight'
<1> DEFINE e == [path |-> s, runs |-> R]
<1>1. PICK S : rest \in Seq(S)
  BY DEF AllRight
<1>2. rest \in Seq(S \cup {e}) /\ e \in S \cup {e}
  BY <1>1
<1>3. e.path = s /\ e.runs = R
  OBVIOUS
<1> HIDE DEF e
<1>4. /\ Append(rest, e) \in Seq(S \cup {e}) /\ Len(Append(rest, e)) = Len(rest) + 1
      /\ \A i \in 1..Len(rest) : Append(rest, e)[i] = rest[i]
      /\ Append(rest, e)[Len(rest) + 1] = e
  BY <1>2
<1>5. ASSUME NEW i \in 1..Len(rest')
      PROVE  Right(rest'[i].path, rest'[i].runs, fresh', made')
  <2>1. Len(rest) \in Nat
    BY <1>1
  <2>2. CASE i \in 1..Len(rest)
    <3>1. Right(rest[i].path, rest[i].runs, fresh, made) /\ fresh \in Nat
      BY <2>2 DEF AllRight
    <3>2. rest'[i] = rest[i]
      BY <1>4, <2>2 DEF e
    <3> QED
      BY <3>1, <3>2, RightGrows DEF Goes
  <2>3. CASE i = Len(rest) + 1
    BY <1>3, <1>4, <2>3 DEF e
  <2> QED
    BY <1>4, <2>1, <2>2, <2>3 DEF e
<1> QED
  BY <1>4, <1>5 DEF AllRight, Goes, e

\* A State and the executions on its path, after a step.
LEMMA GoesIs ==
  ASSUME fresh' \in Nat, fresh <= fresh', made \subseteq made',
         StateOK(path', fresh', made'),
         \A w \in runs' : \E obj \in [Nat -> Int] : RunOK(path', w, obj)
  PROVE  Goes
BY DEF Goes, Right

\* No Region is lost, and the one that is asked for is made.
LEMMA MadeIs ==
  ASSUME NEW r, MakeRegion(r)
  PROVE  made \subseteq made' /\ \A x, y : r = Part(x, y) => r \in made'
BY RegionForms DEF MakeRegion

\* The number of objects made, after one that may be new.
LEMMA HighIs ==
  ASSUME NEW n \in Nat, NEW v, IsValue(v, n + 1)
  PROVE  High(n, v.id) \in Nat /\ n <= High(n, v.id) /\ IsValue(v, High(n, v.id))
<1>1. CASE \E c \in Ints : v = Con(c)
  BY <1>1 DEF Con, High, IsValue
<1>2. ASSUME NEW k \in 1..(n + 1), NEW lo \in Ints, NEW hi \in Ints, lo < hi, v = Rng(k, lo, hi)
      PROVE  High(n, v.id) \in Nat /\ n <= High(n, v.id) /\ IsValue(v, High(n, v.id))
  <2>1. v.id = k
    BY <1>2 DEF Rng
  <2>2. High(n, k) \in Nat /\ n <= High(n, k) /\ k \in 1..High(n, k)
    BY DEF High
  <2> QED
    BY <1>2, <2>1, <2>2 DEF IsValue
<1>3. ASSUME NEW k \in 1..(n + 1), v = Unknown(k)
      PROVE  High(n, v.id) \in Nat /\ n <= High(n, v.id) /\ IsValue(v, High(n, v.id))
  <2>1. v.id = k
    BY <1>3 DEF Unknown
  <2>2. High(n, k) \in Nat /\ n <= High(n, k) /\ k \in 1..High(n, k)
    BY DEF High
  <2> QED
    BY <1>3, <2>1, <2>2 DEF IsValue
<1>4. CASE v \in {Uninit, Dead}
  BY <1>4 DEF Uninit, Dead, High, IsValue
<1> QED
  BY <1>1, <1>2, <1>3, <1>4 DEF IsValue

\* A new object for an int that may be any.
LEMMA UnknownIntIs ==
  ASSUME NEW n \in Nat
  PROVE  /\ IsValue(UnknownInt(n + 1), n + 1)
         /\ UnknownInt(n + 1) # Dead /\ UnknownInt(n + 1) # Uninit
         /\ \A x \in Ints : \A obj : obj[n + 1] = x => Holds(UnknownInt(n + 1), x, obj)
<1>1. n + 1 \in 1..(n + 1) /\ 0 \in Ints /\ MaxInt \in Ints /\ 0 < MaxInt
  BY SizesAssumption DEF Ints
<1>2. IsValue(UnknownInt(n + 1), n + 1)
  BY <1>1 DEF UnknownInt, Rng, IsValue
<1>3. UnknownInt(n + 1) # Dead /\ UnknownInt(n + 1) # Uninit
  BY DEF UnknownInt, Rng, Dead, Uninit
<1> QED
  BY <1>2, <1>3 DEF UnknownInt, Rng, Holds, Ints

\* i = input() keeps the State right for all the executions, whatever was read.
LEMMA InputStep ==
  ASSUME AllRight, Input
  PROVE  Goes
<1>1. fresh \in Nat /\ StateOK(path, fresh, made)
  BY DEF AllRight, Right
<1>2. /\ fresh' = fresh + 1 /\ made' = made
      /\ path' = Put(path, <<"i">>, UnknownInt(fresh + 1))
      /\ runs' = {SetI(m, c) : m \in runs, c \in Ints}
  BY DEF Input
<1>3. IsValue(UnknownInt(fresh + 1), fresh + 1) /\ UnknownInt(fresh + 1) # Dead
  BY <1>1, UnknownIntIs
<1>4. StateOK(path', fresh + 1, made)
  BY <1>1, <1>2, <1>3, PutOK, RegionForms
<1>5. ASSUME NEW m \in runs, NEW c \in Ints
      PROVE  \E obj \in [Nat -> Int] : RunOK(path', SetI(m, c), obj)
  <2>1. PICK obj \in [Nat -> Int] : RunOK(path, m, obj)
    BY DEF AllRight, Right
  <2> DEFINE other == With(obj, fresh + 1, c)
  <2>2. other \in [Nat -> Int] /\ other[fresh + 1] = c /\ Agree(obj, other, fresh)
    BY <1>1, SizesAssumption, WithAgrees DEF Ints
  <2> HIDE DEF other
  <2>3. RunOK(path, m, other)
    BY <1>1, <2>1, <2>2, RunAgrees
  <2>4. Holds(UnknownInt(fresh + 1), c, other)
    BY <1>1, <2>2, UnknownIntIs
  <2>5. RunOK(path', SetI(m, c), other)
    BY <1>1, <1>2, <1>3, <2>3, <2>4, SetIOK
  <2> QED
    BY <2>2, <2>5
<1> QED
  BY <1>1, <1>2, <1>4, <1>5, GoesIs

\* Every place but i can be written through its Region.
LEMMA PlaceWrites ==
  ASSUME NEW n \in Nat, NEW rs, NEW s, StateOK(s, n, rs), NEW pl \in Places,
         pl # <<"local", 0>>, Fits(s, pl), Indexable(s, pl), NEW m, NEW obj,
         RunOK(s, m, obj), Legal(m, pl)
  PROVE  Through(s, m, pl) = LValue(s, pl) /\ WritesTo(LValue(s, pl), Cell(m, pl))
<1>1. PlaceForm(LValue(s, pl), n) /\ LValue(s, pl) # <<"i">>
  BY LValueIs
<1>2. Reaches(s, m, pl, obj)
  BY ReachesPlace
<1>3. LET r == LValue(s, pl)
      IN r # NoRegion /\ r[1] # "i" /\ r # <<"a">> /\ r # <<"h">>
  BY <1>1, RegionForms DEF PlaceForm
<1> QED
  BY <1>2, <1>3 DEF Reaches, WritesTo, Legal

\* An assignment of a value that is right keeps the State right.
LEMMA AssignStep ==
  ASSUME AllRight, NEW pl \in Places, pl # <<"local", 0>>, NEW v, NEW contents,
         IsValue(v, fresh), v # Dead, Assign(pl, v, contents), Indexable(path, pl),
         \A m \in runs : \A obj : RunOK(path, m, obj) => Holds(v, contents[m], obj)
  PROVE  Goes
<1> DEFINE r == LValue(path, pl)
<1>1. fresh \in Nat /\ StateOK(path, fresh, made)
  BY DEF AllRight, Right
<1>2. /\ Fits(path, pl) /\ fresh' = fresh /\ MakeRegion(r)
      /\ path' = Put(path, r, v)
      /\ runs' = {Write(path, m, pl, contents[m]) : m \in {x \in runs : Writable(x, pl)}}
  BY DEF Assign
<1>3. made \subseteq made' /\ \A x, y : r = Part(x, y) => r \in made'
  BY <1>2, MadeIs
<1>4. StateOK(path', fresh, made')
  BY <1>1, <1>2, <1>3, PutOK
<1>5. ASSUME NEW m \in runs, Writable(m, pl)
      PROVE  \E obj \in [Nat -> Int] : RunOK(path', Write(path, m, pl, contents[m]), obj)
  <2>1. PICK obj \in [Nat -> Int] : RunOK(path, m, obj)
    BY DEF AllRight, Right
  <2>2. Legal(m, pl) /\ Cell(m, pl) \in Cells /\ m.val[Cell(m, pl)] # Freed
    BY <1>5 DEF Writable, Legal
  <2>3. Through(path, m, pl) = r /\ WritesTo(r, Cell(m, pl))
    BY <1>1, <1>2, <2>1, <2>2, PlaceWrites
  <2>4. RunOK(path', Write(path, m, pl, contents[m]), obj)
    BY <1>1, <1>2, <2>1, <2>2, <2>3, WriteOK
  <2> QED
    BY <2>4
<1> HIDE DEF r
<1> QED
  BY <1>1, <1>2, <1>3, <1>4, <1>5, GoesIs

\* place = 1 keeps the State right.
LEMMA SetToStep ==
  ASSUME AllRight, NEW pl \in Places, pl # <<"local", 0>>, Indexable(path, pl), SetTo(pl, 1)
  PROVE  Goes
<1>1. 1 \in Ints
  BY SizesAssumption DEF Ints
<1>2. IsValue(Con(1), fresh) /\ Con(1) # Dead
  BY <1>1 DEF IsValue, Con, Dead
<1>3. \A m \in runs : \A obj : Holds(Con(1), [x \in runs |-> 1][m], obj)
  BY DEF Con, Holds
<1> QED
  BY <1>2, <1>3, AssignStep DEF SetTo

\* place = i keeps the State right: both have the very same object.
LEMMA CopyStep ==
  ASSUME AllRight, NEW pl \in Places, pl # <<"local", 0>>, Indexable(path, pl), CopyI(pl)
  PROVE  Goes
<1>1. fresh \in Nat /\ StateOK(path, fresh, made)
  BY DEF AllRight, Right
<1>2. IsValue(Index(path), fresh) /\ Index(path) # Dead
  BY <1>1, IndexIs
<1>3. \A m \in runs : \A obj : RunOK(path, m, obj) =>
         Holds(Index(path), [x \in runs |-> x.val[<<"i", 0>>]][m], obj)
  BY <1>1, IndexIs
<1> QED
  BY <1>2, <1>3, AssignStep DEF CopyI

\* An execution that is followed.
LEMMA FollowedIs ==
  ASSUME NEW pl, NEW v, NEW m \in Followed(pl, v)
  PROVE  /\ m \in runs /\ (Legal(m, pl) => Met(path, m, pl))
         /\ Readable(m, pl, v) /\ Contents(m, pl) # Freed
         /\ v = Uninit => Contents(m, pl) = Garbage
BY DEF Followed

\* What i is after a read, and the global that is read.
LEMMA LoadRight ==
  ASSUME NEW n \in Nat, n = fresh, StateOK(path, n, made), NEW pl \in Places,
         Fits(path, pl), Indexable(path, pl), NEW v,
         v = GetStore(path, LValue(path, pl), n + 1), v # Crash, v # Dead,
         NEW m \in Followed(pl, v), NEW obj \in [Nat -> Int], RunOK(path, m, obj),
         NEW c \in Found(m, pl, v)
  PROVE  \E other \in [Nat -> Int] :
            /\ Agree(obj, other, n) /\ Holds(v, c, other)
            /\ pl[1] = "global" /\ m.by[<<"g", 0>>] = <<"g">> =>
                  Holds(v, m.val[<<"g", 0>>], other)
<1> DEFINE x == Contents(m, pl)
<1>1. /\ m \in runs /\ (Legal(m, pl) => Met(path, m, pl))
      /\ Readable(m, pl, v) /\ x # Freed
      /\ v = Uninit => x = Garbage
  BY FollowedIs
<1>2. pl[1] = "global" => /\ Cell(m, pl) = <<"g", 0>> /\ Legal(m, pl) /\ x = m.val[<<"g", 0>>]
                          /\ LValue(path, pl) = <<"g">>
  BY CellForms DEF Cell, Legal, Contents, LValue
<1>3. PlaceForm(LValue(path, pl), n)
  BY LValueIs
<1>4. IsValue(v, n + 1)
  BY <1>3, ReadIs
<1> HIDE DEF x
<1>5. CASE v = Uninit
  <2>1. x = Garbage /\ c = Garbage
    BY <1>1, <1>5 DEF Found, x
  <2>2. Holds(v, Garbage, obj)
    BY <1>5 DEF Holds, Uninit
  <2>3. Agree(obj, obj, n)
    BY DEF Agree
  <2> QED
    BY <1>2, <2>1, <2>2, <2>3
<1>6. CASE v # Uninit
  <2>1. v.kind \in {"con", "rng", "unknown"}
    BY <1>4, <1>6, ValueFacts
  <2>2. Legal(m, pl) /\ Met(path, m, pl)
    BY <1>1, <1>6 DEF Readable
  <2>3. \/ v.kind = "unknown" /\ x = Garbage
        \/ x \in Ints /\ Holds(v, x, With(obj, n + 1, x))
    BY <2>1, <2>2, ReadHolds DEF x
  <2>4. CASE v.kind = "unknown" /\ x = Garbage
    <3>1. c \in Ints
      BY <1>6, <2>4 DEF Found, x
    <3>2. Holds(v, c, obj) /\ Agree(obj, obj, n)
      BY <2>4, <3>1 DEF Holds, Agree
    <3>3. ASSUME pl[1] = "global", m.by[<<"g", 0>>] = <<"g">>
          PROVE  FALSE
      <4>1. SaidOf(path, m, <<"g", 0>>, obj) /\ <<"g">> # NoRegion
        BY CellForms, RegionForms DEF RunOK
      <4>2. Root(<<"g">>) = <<"g">>
        BY DEF Root
      <4>3. CASE Has(path, <<"g">>)
        <5>1. v = path.vals[<<"g">>]
          BY <1>2, <3>3, <4>3 DEF GetStore
        <5>2. x \in Ints
          BY <1>2, <2>4, <3>3, <4>1, <4>3, <5>1 DEF SaidOf, Holds
        <5> QED
          BY <2>4, <5>2, SizesAssumption DEF Ints, Garbage
      <4>4. CASE ~Has(path, <<"g">>)
        <5>1. v = UnknownInt(n + 1)
          BY <1>2, <3>3, <4>2, <4>4 DEF GetStore
        <5> QED
          BY <2>4, <5>1 DEF UnknownInt, Rng
      <4> QED
        BY <4>3, <4>4
    <3> QED
      BY <3>2, <3>3
  <2>5. CASE x \in Ints /\ Holds(v, x, With(obj, n + 1, x))
    <3>1. x # Garbage /\ x \in Int
      BY <2>5, SizesAssumption DEF Ints, Garbage
    <3>2. c = x
      BY <3>1 DEF Found, x
    <3>3. With(obj, n + 1, x) \in [Nat -> Int] /\ Agree(obj, With(obj, n + 1, x), n)
      BY <3>1, WithAgrees
    <3> QED
      BY <1>2, <2>5, <3>2, <3>3
  <2> QED
    BY <2>3, <2>4, <2>5
<1> QED
  BY <1>5, <1>6

\* i = place keeps the State right: for an execution that is followed, the value found
\* by name, in the whole or in a summary is what is there.
LEMMA LoadStep ==
  ASSUME AllRight, NEW pl \in Places, Indexable(path, pl), Load(pl),
         GetStore(path, LValue(path, pl), fresh + 1) # Crash
  PROVE  Goes
<1> DEFINE r == LValue(path, pl)
           v == GetStore(path, r, fresh + 1)
           s == IF pl[1] = "global" THEN Put(path, r, v) ELSE path
<1>1. fresh \in Nat /\ StateOK(path, fresh, made)
  BY DEF AllRight, Right
<1>2. /\ Fits(path, pl) /\ fresh' = High(fresh, v.id) /\ MakeRegion(r)
      /\ \/ v.kind = "dead" /\ UNCHANGED <<path, runs>>
         \/ /\ v.kind # "dead"
            /\ path' = Put(s, <<"i">>, v)
            /\ runs' = UNION {{SetI(m, c) : c \in Found(m, pl, v)} : m \in Followed(pl, v)}
  BY DEF Load
<1>3. PlaceForm(r, fresh)
  BY <1>1, <1>2, LValueIs
<1>4. IsValue(v, fresh + 1)
  BY <1>1, <1>3, ReadIs
<1>5. fresh' \in Nat /\ fresh <= fresh' /\ IsValue(v, fresh')
  BY <1>1, <1>2, <1>4, HighIs
<1>6. made \subseteq made'
  BY <1>2, MadeIs
<1>7. CASE v.kind = "dead" /\ UNCHANGED <<path, runs>>
  <2>1. StateOK(path', fresh', made')
    BY <1>1, <1>5, <1>6, <1>7, StateGrows
  <2>2. \A w \in runs' : \E obj \in [Nat -> Int] : RunOK(path', w, obj)
    BY <1>7 DEF AllRight, Right
  <2> QED
    BY <1>5, <1>6, <2>1, <2>2, GoesIs
<1>8. CASE /\ v.kind # "dead"
           /\ path' = Put(s, <<"i">>, v)
           /\ runs' = UNION {{SetI(m, c) : c \in Found(m, pl, v)} : m \in Followed(pl, v)}
  <2>1. v # Dead
    BY <1>8 DEF Dead
  <2>2. pl[1] = "global" => r = <<"g">>
    BY DEF LValue
  <2> HIDE DEF v
  <2>3. StateOK(s, fresh', made')
    <3>1. CASE pl[1] = "global"
      <4>1. StateOK(Put(path, <<"g">>, v), fresh', made')
        BY <1>1, <1>5, <1>6, <2>1, PutOK, RegionForms
      <4> QED
        BY <2>2, <3>1, <4>1
    <3>2. CASE pl[1] # "global"
      BY <1>1, <1>5, <1>6, <3>2, StateGrows
    <3> QED
      BY <3>1, <3>2
  <2>4. StateOK(path', fresh', made')
    <3> HIDE DEF s
    <3> QED
      BY <1>5, <1>8, <2>1, <2>3, PutOK, RegionForms
  <2>5. ASSUME NEW m \in Followed(pl, v), NEW c \in Found(m, pl, v)
        PROVE  \E obj \in [Nat -> Int] : RunOK(path', SetI(m, c), obj)
    <3>1. m \in runs
      BY FollowedIs
    <3>2. PICK obj \in [Nat -> Int] : RunOK(path, m, obj)
      BY <3>1 DEF AllRight, Right
    <3>3. PICK other \in [Nat -> Int] :
             /\ Agree(obj, other, fresh) /\ Holds(v, c, other)
             /\ pl[1] = "global" /\ m.by[<<"g", 0>>] = <<"g">> =>
                   Holds(v, m.val[<<"g", 0>>], other)
      BY <1>1, <1>2, <2>1, <3>2, LoadRight DEF v
    <3>4. RunOK(path, m, other)
      BY <1>1, <3>2, <3>3, RunAgrees
    <3>5. RunOK(s, m, other)
      <4>1. CASE pl[1] = "global"
        <5>1. RunOK(Put(path, <<"g">>, v), m, other)
          BY <1>1, <3>3, <3>4, <4>1, EnterOK
        <5> QED
          BY <2>2, <4>1, <5>1
      <4>2. CASE pl[1] # "global"
        BY <3>4, <4>2
      <4> QED
        BY <4>1, <4>2
    <3> HIDE DEF s
    <3>6. RunOK(path', SetI(m, c), other)
      BY <1>5, <1>8, <2>1, <2>3, <3>3, <3>5, SetIOK
    <3> QED
      BY <3>6
  <2> QED
    BY <1>5, <1>6, <1>8, <2>4, <2>5, GoesIs
<1> QED
  BY <1>2, <1>7, <1>8

\* What an execution says, if it is not of data that was never set or is freed.
LEMMA ToldInts ==
  ASSUME NEW n \in Nat, NEW rs, NEW s, StateOK(s, n, rs), NEW m, NEW r, NEW c, NEW x, NEW obj,
         Told(s, m, r, c, x, obj), x # Freed, x # Garbage
  PROVE  x \in Ints
<1>1. ASSUME NEW q, Has(s, q), Holds(s.vals[q], x, obj)
      PROVE  x \in Ints
  <2>1. IsValue(s.vals[q], n)
    BY <1>1 DEF StateOK, Has
  <2>2. s.vals[q] # Dead /\ s.vals[q] # Uninit
    BY <1>1 DEF Holds, Dead, Uninit
  <2> QED
    BY <1>1, <2>1, <2>2, HoldsInts
<1> QED
  BY <1>1 DEF Told

\* A read by the CPython API keeps the State right, and enters what it found.
LEMMA PeekStep ==
  ASSUME AllRight, NEW pl \in Places, pl[1] \in {"deref", "arrow"}, Peek(pl)
  PROVE  Goes
<1> DEFINE r == LValue(path, pl)
           v == IF Has(path, r) THEN path.vals[r] ELSE UnknownInt(fresh + 1)
<1>1. fresh \in Nat /\ StateOK(path, fresh, made)
  BY DEF AllRight, Right
<1>2. /\ Fits(path, pl) /\ v # Dead /\ fresh' = High(fresh, v.id) /\ MakeRegion(r)
      /\ path' = Put(Put(path, r, v), <<"i">>, v)
      /\ runs' = UNION {{SetI(Write(path, m, pl, c), c) : c \in Found(m, pl, v)} :
                           m \in Followed(pl, v)}
  BY DEF Peek
<1>3. Indexable(path, pl) /\ pl # <<"local", 0>>
  BY DEF Indexable
<1>4. IsValue(v, fresh + 1)
  <2>1. Has(path, r) => IsValue(path.vals[r], fresh + 1)
    BY <1>1, ValueGrows DEF StateOK, Has
  <2> QED
    BY <1>1, <2>1, UnknownIntIs
<1>5. made \subseteq made' /\ \A x, y : r = Part(x, y) => r \in made'
  BY <1>2, MadeIs
<1> HIDE DEF v, r
<1>6. fresh' \in Nat /\ fresh <= fresh' /\ IsValue(v, fresh')
  BY <1>1, <1>2, <1>4, HighIs
<1>7. StateOK(Put(path, r, v), fresh', made')
  BY <1>1, <1>2, <1>5, <1>6, PutOK
<1>8. StateOK(path', fresh', made')
  BY <1>2, <1>6, <1>7, PutOK, RegionForms
<1>9. ASSUME NEW m \in Followed(pl, v), NEW c \in Found(m, pl, v)
      PROVE  \E obj \in [Nat -> Int] : RunOK(path', SetI(Write(path, m, pl, c), c), obj)
  <2>1. /\ m \in runs /\ (Legal(m, pl) => Met(path, m, pl))
        /\ Readable(m, pl, v) /\ Contents(m, pl) # Freed
        /\ v = Uninit => Contents(m, pl) = Garbage
    BY FollowedIs
  <2>2. PICK obj \in [Nat -> Int] : RunOK(path, m, obj)
    BY <2>1 DEF AllRight, Right
  <2>3. Garbage \in Int /\ Garbage # Freed /\ (\A x \in Ints : x \in Int /\ x # Garbage)
    BY SizesAssumption DEF Garbage, Freed, Ints
  <2>4. \E other \in [Nat -> Int] : Agree(obj, other, fresh) /\ Holds(v, c, other)
    <3>1. Agree(obj, obj, fresh)
      BY DEF Agree
    <3>2. CASE v = Uninit
      <4>1. c = Garbage
        BY <2>1, <3>2 DEF Found
      <4>2. Holds(v, c, obj)
        BY <3>2, <4>1 DEF Holds, Uninit
      <4> QED
        BY <3>1, <4>2
    <3>3. CASE v # Uninit
      <4>1. Legal(m, pl) /\ Told(path, m, r, Cell(m, pl), Contents(m, pl), obj)
        BY <1>1, <1>2, <1>3, <2>1, <2>2, <3>3, MetIs DEF Readable, r
      <4>2. CASE Has(path, r)
        <5>1. v = path.vals[r] /\ Holds(v, Contents(m, pl), obj) /\ IsValue(v, fresh)
          BY <1>1, <4>1, <4>2 DEF Told, v, StateOK, Has
        <5>2. Contents(m, pl) \in Ints
          BY <1>1, <1>2, <3>3, <5>1, HoldsInts
        <5>3. c = Contents(m, pl)
          BY <2>3, <5>2 DEF Found
        <5> QED
          BY <3>1, <5>1, <5>3
      <4>3. CASE ~Has(path, r)
        <5>1. v = UnknownInt(fresh + 1)
          BY <4>3 DEF v
        <5>2. c \in Ints
          <6>1. CASE Contents(m, pl) = Garbage
            BY <3>3, <6>1 DEF Found
          <6>2. CASE Contents(m, pl) # Garbage
            <7>1. Contents(m, pl) \in Ints
              BY <1>1, <2>1, <4>1, <6>2, ToldInts
            <7> QED
              BY <6>2, <7>1 DEF Found
          <6> QED
            BY <6>1, <6>2
        <5>3. c \in Int
          BY <2>3, <5>2
        <5> DEFINE other == With(obj, fresh + 1, c)
        <5>4. other \in [Nat -> Int] /\ other[fresh + 1] = c /\ Agree(obj, other, fresh)
          BY <1>1, <5>3, WithAgrees
        <5> HIDE DEF other
        <5>5. Holds(v, c, other)
          BY <1>1, <5>1, <5>2, <5>4, UnknownIntIs
        <5> QED
          BY <5>4, <5>5
      <4> QED
        BY <4>2, <4>3
    <3> QED
      BY <3>2, <3>3
  <2>5. PICK other \in [Nat -> Int] : Agree(obj, other, fresh) /\ Holds(v, c, other)
    BY <2>4
  <2>6. RunOK(path, m, other)
    BY <1>1, <2>2, <2>5, RunAgrees
  <2>7. RunOK(Put(path, r, v), Write(path, m, pl, c), other)
    <3>1. CASE Legal(m, pl)
      <4>1. Through(path, m, pl) = r /\ WritesTo(r, Cell(m, pl))
        BY <1>1, <1>2, <1>3, <2>6, <3>1, PlaceWrites DEF r
      <4>2. Cell(m, pl) \in Cells /\ m.val[Cell(m, pl)] # Freed
        BY <2>1, <3>1 DEF Legal, Contents
      <4> QED
        BY <1>1, <1>2, <1>6, <2>5, <2>6, <4>1, <4>2, WriteOK
    <3>2. CASE ~Legal(m, pl)
      <4>1. v = Uninit /\ Cell(m, pl)[1] = "a" /\ Cell(m, pl) \notin Cells
        BY <2>1, <3>2 DEF Readable, Legal
      <4>2. Through(path, m, pl)[1] = "a"
        BY <1>1, <1>2, <1>3, <2>6, <4>1, ReachesPlace DEF Reaches
      <4>3. Has(path, r) /\ v = path.vals[r]
        BY <1>1, <4>1, UnknownIntIs DEF v
      <4>4. c \in Int
        BY <1>4, <1>2, <1>1, <2>5, HoldsInts
      <4> QED
        BY <1>1, <2>6, <4>1, <4>2, <4>3, <4>4, WriteBeyond
    <3> QED
      BY <3>1, <3>2
  <2>8. RunOK(path', SetI(Write(path, m, pl, c), c), other)
    BY <1>2, <1>6, <1>7, <2>5, <2>7, SetIOK
  <2> QED
    BY <2>8
<1> QED
  BY <1>2, <1>5, <1>6, <1>8, <1>9, GoesIs

-----------------------------------------------------------------------------
\* The State has another Region for p, which is one of those made.
LEMMA PointerState ==
  ASSUME NEW n \in Nat, NEW rs, NEW ss, rs \subseteq ss, NEW s, StateOK(s, n, rs), NEW r,
         PointerOK([p |-> r], n), \A x, y : r = Part(x, y) => r \in ss
  PROVE  StateOK(SetP(s, r), n, ss)
<1> DEFINE t == SetP(s, r)
<1>1. DOMAIN t = {"vals", "p"} /\ t.vals = s.vals /\ t.p = r
  BY DEF StateOK, SetP
<1>2. [p |-> r].p = r
  OBVIOUS
<1> HIDE DEF t
<1>3. PointerOK(t, n)
  BY <1>1, <1>2 DEF PointerOK
<1>4. \A q \in DOMAIN t.vals : IsValue(t.vals[q], n) /\ (t.vals[q] = Dead => q = <<"h">>)
  BY <1>1 DEF StateOK
<1>5. \A x, y : Part(x, y) \in DOMAIN t.vals \cup {t.p} => Part(x, y) \in ss
  BY <1>1 DEF StateOK
<1> QED
  BY <1>1, <1>3, <1>4, <1>5 DEF StateOK, t

\* The address of a place.
LEMMA AimsAt ==
  ASSUME NEW n \in Nat, NEW rs, NEW s, StateOK(s, n, rs), NEW pl \in Places,
         pl[1] \in {"elem", "index", "field", "global"}, Indexable(s, pl),
         NEW m, NEW obj, RunOK(s, m, obj), NEW r,
         r = IF pl[1] = "field" THEN <<"s">> ELSE LValue(s, pl)
  PROVE  RunOK(SetP(s, r), MoveP(m, Cell(m, pl), Exact(s, m, pl)), obj)
<1> DEFINE a == Cell(m, pl)
           e == Exact(s, m, pl)
<1>1. DOMAIN s = {"vals", "p"} /\ Fits(s, pl)
  BY DEF StateOK, Fits
<1>2. e \in BOOLEAN
  BY DEF Exact
<1>3. CASE pl[1] = "field"
  <2>1. a = <<"s", 0>> /\ r = <<"s">>
    BY <1>3 DEF Cell
  <2> HIDE DEF a, e
  <2>2. RunOK(SetP(s, r), MoveP(m, a, e), obj)
    BY <1>1, <1>2, <2>1, AimOK, RegionForms
  <2> QED
    BY <2>2 DEF a, e
<1>4. CASE pl[1] = "global"
  <2>1. a = <<"g", 0>> /\ r = <<"g">>
    BY <1>4 DEF Cell, LValue
  <2> HIDE DEF a, e
  <2>2. RunOK(SetP(s, r), MoveP(m, a, e), obj)
    BY <1>1, <1>2, <2>1, AimOK, RegionForms
  <2> QED
    BY <2>2 DEF a, e
<1>5. CASE pl[1] = "elem"
  <2>1. a = <<"a", pl[2]>> /\ r = Part("a", At(pl[2])) /\ pl[2] \in Int
    BY <1>5, PlaceKinds DEF Cell, LValue
  <2> HIDE DEF a, e
  <2>2. RunOK(SetP(s, r), MoveP(m, a, e), obj)
    BY <1>1, <1>2, <2>1, AimOK, RegionForms
  <2> QED
    BY <2>2 DEF a, e
<1>6. CASE pl[1] = "index"
  <2> DEFINE x == m.val[<<"i", 0>>]
  <2>1. a = <<"a", x>> /\ x \in Int /\ Holds(Index(s), x, obj)
    BY <1>6, IndexIs, CellForms DEF Cell, RunOK, RunShape
  <2>2. CASE Index(s).kind = "con"
    <3>1. r = Part("a", At(Index(s).lo)) /\ x = Index(s).lo
      BY <1>6, <2>1, <2>2 DEF LValue, Holds
    <3> HIDE DEF a, e, x
    <3>2. RunOK(SetP(s, r), MoveP(m, a, e), obj)
      BY <1>1, <1>2, <2>1, <3>1, AimOK, RegionForms
    <3> QED
      BY <3>2 DEF a, e
  <2>3. CASE Index(s).kind # "con"
    <3>1. r = Part("a", In(Index(s))) /\ ~e
      BY <1>6, <2>3 DEF LValue, Exact
    <3> HIDE DEF a, e, x
    <3>2. RunOK(SetP(s, r), MoveP(m, a, e), obj)
      BY <1>1, <1>2, <2>1, <3>1, AimOK, RegionForms
    <3> QED
      BY <3>2 DEF a, e
  <2> QED
    BY <2>2, <2>3
<1> QED
  BY <1>3, <1>4, <1>5, <1>6

\* p = &place keeps the State right: p points where its Region is.
LEMMA PointToStep ==
  ASSUME AllRight, NEW pl \in Places, pl[1] \in {"elem", "index", "field", "global"},
         Indexable(path, pl), PointTo(pl)
  PROVE  Goes
<1> DEFINE r == IF pl[1] = "field" THEN <<"s">> ELSE LValue(path, pl)
           there == {m \in runs : Cell(m, pl)[2] \in 0..Size}
           to(m) == MoveP(m, Cell(m, pl), Exact(path, m, pl))
<1>1. fresh \in Nat /\ StateOK(path, fresh, made) /\ Fits(path, pl)
  BY DEF AllRight, Right, Fits
<1>3. /\ fresh' = fresh /\ MakeRegion(r)
      /\ path' = SetP(path, r)
      /\ runs' = {to(m) : m \in there}
  BY DEF PointTo
<1>5. made \subseteq made' /\ \A x, y : r = Part(x, y) => r \in made'
  BY <1>3, MadeIs
<1>6. PointerOK([p |-> r], fresh)
  <2>1. CASE pl[1] = "field"
    BY <2>1 DEF PointerOK
  <2>2. CASE pl[1] # "field"
    <3>1. r = LValue(path, pl)
      BY <2>2
    <3>2. PlaceForm(r, fresh) /\ (r = <<"i">> => pl = <<"local", 0>>)
      BY <1>1, <3>1, LValueIs
    <3>3. r # <<"i">>
      BY <3>2
    <3>4. r # Part("s", Field) /\ r # Part("h", Field)
      <4>1. CASE pl[1] = "elem"
        BY <3>1, <4>1, RegionForms DEF LValue
      <4>2. CASE pl[1] = "index"
        BY <3>1, <4>2, RegionForms DEF LValue
      <4>3. CASE pl[1] = "global"
        BY <3>1, <4>3, RegionForms DEF LValue
      <4> QED
        BY <2>2, <4>1, <4>2, <4>3
    <3> HIDE DEF r
    <3>5. [p |-> r].p = r
      OBVIOUS
    <3> QED
      BY <3>2, <3>3, <3>4, <3>5 DEF PlaceForm, PointerOK
  <2> QED
    BY <2>1, <2>2
<1>7. StateOK(path', fresh', made')
  <2> HIDE DEF r
  <2> QED
    BY <1>1, <1>3, <1>5, <1>6, PointerState
<1>8. ASSUME NEW m \in there
      PROVE  \E obj \in [Nat -> Int] : RunOK(path', to(m), obj)
  <2>1. PICK obj \in [Nat -> Int] : RunOK(path, m, obj)
    BY DEF AllRight, Right
  <2>2. RunOK(SetP(path, r), to(m), obj)
    BY <1>1, <2>1, AimsAt
  <2> QED
    BY <1>3, <2>2
<1> HIDE DEF to, there, r
<1> QED
  BY <1>1, <1>3, <1>5, <1>7, <1>8, GoesIs

\* An offset of one, as a number without a sign.
LEMMA Offsets ==
  /\ 1 % Wrap = 1 /\ (-1) % Wrap = Wrap - 1
  /\ Wrap \in Nat /\ Size \in Nat /\ 0 < Size /\ Size <= Wrap - 1
<1>1. Wrap \in Nat /\ Size \in Nat /\ 0 < Size /\ Size <= Wrap - 1
  BY SizesAssumption
<1>2. 1 % Wrap = 1
  BY <1>1
<1>3. (-1) % Wrap = Wrap - 1
  BY <1>1
<1> QED
  BY <1>1, <1>2, <1>3

\* The pointer is moved by one, in an execution.
LEMMA AimsOn ==
  ASSUME NEW n \in Nat, NEW rs, NEW s, StateOK(s, n, rs), NEW m, NEW obj, RunOK(s, m, obj),
         NEW k \in {-1, 1}, s.p[1] \in {"a", "g"}, s.p # NoRegion,
         ~(Len(s.p) = 2 /\ s.p[2][1] = "in"),
         m.p[2] + k \in 0..(IF s.p[1] = "a" THEN Size ELSE 1)
  PROVE  /\ PointerOK([p |-> PlusRegion(s.p, k)], n)
         /\ RunOK(SetP(s, PlusRegion(s.p, k)),
                  MoveP(m, <<m.p[1], m.p[2] + k>>, m.exact /\ 0 < k), obj)
<1> DEFINE r == PlusRegion(s.p, k)
           a == <<m.p[1], m.p[2] + k>>
           e == m.exact /\ 0 < k
           d == k % Wrap
<1>1. /\ d \in Nat /\ (k = 1 => d = 1) /\ (k = -1 => d >= Size)
  BY Offsets
<1>2. /\ DOMAIN s = {"vals", "p"} /\ Aim(s, m, obj) /\ m.p = <<m.p[1], m.p[2]>>
      /\ m.p[2] \in Int /\ m.exact \in BOOLEAN /\ m.p[1] = s.p[1]
  BY DEF StateOK, RunOK, RunShape, Aim
<1>3. /\ a = <<a[1], a[2]>> /\ a[1] = s.p[1] /\ a[2] = m.p[2] + k /\ a[2] \in Int
      /\ e \in BOOLEAN
  BY <1>2
<1>4. [p |-> r].p = r
  OBVIOUS
<1> HIDE DEF r, a, e, d
<1>5. CASE s.p = <<"g">>
  <2>1. r = Part("g", At(d)) /\ a[2] = k
    BY <1>2, <1>3, <1>5, RegionForms DEF PlusRegion, r, d, Aim
  <2>2. PointerOK([p |-> r], n)
    BY <1>1, <1>4, <2>1 DEF PointerOK
  <2>3. e => a[2] = 1
    BY <2>1 DEF e
  <2>4. RunOK(SetP(s, r), MoveP(m, a, e), obj)
    BY <1>2, <1>3, <1>5, <2>1, <2>3, AimOK, RegionForms
  <2> QED
    BY <2>2, <2>4 DEF r, a, e
<1>6. ASSUME NEW j \in Nat, s.p = Part("g", At(j))
      PROVE  /\ PointerOK([p |-> r], n)
             /\ RunOK(SetP(s, r), MoveP(m, a, e), obj)
  <2>1. r = Part("g", At(j + d)) /\ s.p[1] = "g"
    BY <1>6, RegionForms DEF PlusRegion, r, d
  <2>2. PointerOK([p |-> r], n)
    BY <1>1, <1>4, <2>1 DEF PointerOK
  <2>3. ~e
    <3>1. m.exact => m.p[2] = 1
      BY <1>2, <1>6 DEF Aim
    <3> QED
      BY <2>1, <3>1 DEF e
  <2>4. RunOK(SetP(s, r), MoveP(m, a, e), obj)
    BY <1>2, <1>3, <2>1, <2>3, AimOK, RegionForms
  <2> QED
    BY <2>2, <2>4
<1>7. ASSUME NEW j \in Nat, s.p = Part("a", At(j))
      PROVE  /\ PointerOK([p |-> r], n)
             /\ RunOK(SetP(s, r), MoveP(m, a, e), obj)
  <2>1. r = Part("a", At(j + d)) /\ s.p[1] = "a"
    BY <1>7, RegionForms DEF PlusRegion, r, d
  <2>2. PointerOK([p |-> r], n)
    BY <1>1, <1>4, <2>1 DEF PointerOK
  <2>3. e \/ j + d < Size => a[2] = j + d
    <3>1. m.exact \/ j < Size => m.p[2] = j
      BY <1>2, <1>7 DEF Aim
    <3>2. CASE k = 1
      <4>1. d = 1
        BY <1>1, <3>2
      <4>2. e \/ j + d < Size => m.exact \/ j < Size
        BY <4>1, SizesAssumption DEF e
      <4> QED
        BY <1>3, <3>1, <3>2, <4>1, <4>2
    <3>3. CASE k = -1
      <4>1. ~e /\ d >= Size
        BY <1>1, <3>3 DEF e
      <4> QED
        BY <1>1, <4>1, SizesAssumption
    <3> QED
      BY <3>2, <3>3
  <2>4. RunOK(SetP(s, r), MoveP(m, a, e), obj)
    BY <1>2, <1>3, <2>1, <2>3, AimOK, RegionForms
  <2> QED
    BY <2>2, <2>4
<1>8. s.p # <<"s">> /\ s.p # <<"h">> /\ \A v : s.p # Part("a", In(v))
  BY RegionForms
<1> QED
  BY <1>5, <1>6, <1>7, <1>8 DEF StateOK, PointerOK, r, a, e

\* p++ and p-- keep the State right: where p is moved back it is known no longer.
LEMMA AdvanceStep ==
  ASSUME AllRight, NEW k \in {-1, 1}, Advance(k),
         ~(Len(path.p) = 2 /\ path.p[2][1] = "in")
  PROVE  Goes
<1> DEFINE r == PlusRegion(path.p, k)
           there == {m \in runs : m.p[2] + k \in 0..(IF path.p[1] = "a" THEN Size ELSE 1)}
           to(m) == MoveP(m, <<m.p[1], m.p[2] + k>>, m.exact /\ 0 < k)
<1>1. fresh \in Nat /\ StateOK(path, fresh, made)
  BY DEF AllRight, Right
<1>2. /\ path.p # NoRegion /\ path.p[1] \in {"a", "g"} /\ there # {}
      /\ fresh' = fresh /\ MakeRegion(r)
      /\ path' = SetP(path, r)
      /\ runs' = {to(m) : m \in there}
  BY DEF Advance
<1>5. made \subseteq made' /\ \A x, y : r = Part(x, y) => r \in made'
  BY <1>2, MadeIs
<1>6. ASSUME NEW m \in there
      PROVE  PointerOK([p |-> r], fresh) /\ \E obj \in [Nat -> Int] : RunOK(path', to(m), obj)
  <2>1. PICK obj \in [Nat -> Int] : RunOK(path, m, obj)
    BY DEF AllRight, Right
  <2>2. PointerOK([p |-> r], fresh) /\ RunOK(SetP(path, r), to(m), obj)
    BY <1>1, <1>2, <2>1, AimsOn
  <2> QED
    BY <1>2, <2>2
<1> HIDE DEF to, there, r
<1>7. StateOK(path', fresh', made')
  BY <1>1, <1>2, <1>5, <1>6, PointerState
<1> QED
  BY <1>1, <1>2, <1>5, <1>6, <1>7, GoesIs

\* A new object keeps the State right.
LEMMA AllocStep ==
  ASSUME AllRight, Alloc
  PROVE  Goes
<1> DEFINE to(m, c) == Allocate(m, c)
<1>1. fresh \in Nat /\ StateOK(path, fresh, made)
  BY DEF AllRight, Right
<1>2. /\ fresh' = fresh /\ made' = made
      /\ \A m \in runs : m.val[<<"h", 0>>] = Absent
      /\ path' = SetP(path, <<"h">>)
      /\ runs' = {to(m, c) : m \in runs, c \in Ints}
  BY DEF Alloc
<1>3. PointerOK([p |-> <<"h">>], fresh)
  BY DEF PointerOK
<1>4. StateOK(path', fresh', made')
  BY <1>1, <1>2, <1>3, PointerState, RegionForms
<1>5. ASSUME NEW m \in runs, NEW c \in Ints
      PROVE  \E obj \in [Nat -> Int] : RunOK(path', to(m, c), obj)
  <2>1. PICK obj \in [Nat -> Int] : RunOK(path, m, obj)
    BY DEF AllRight, Right
  <2>2. RunOK(SetP(path, <<"h">>), to(m, c), obj)
    BY <1>1, <1>2, <2>1, AllocOK
  <2> QED
    BY <1>2, <2>2
<1> HIDE DEF to
<1> QED
  BY <1>1, <1>2, <1>4, <1>5, GoesIs

\* A deallocation keeps the State right, as the values of the fields are forgotten.
LEMMA DeallocStep ==
  ASSUME AllRight, Dealloc
  PROVE  Goes
<1> DEFINE t == Put(Forget(path, "h"), <<"h">>, Dead)
           to(m) == [m EXCEPT !.val[<<"h", 0>>] = Freed, !.by[<<"h", 0>>] = NoRegion]
           there == {x \in runs : x.val[<<"h", 0>>] # Freed}
<1>1. fresh \in Nat /\ StateOK(path, fresh, made)
  BY DEF AllRight, Right
<1>2. /\ fresh' = fresh /\ made' = made /\ path.p = <<"h">>
      /\ path' = t /\ runs' = {to(m) : m \in there} /\ there # {}
  BY DEF Dealloc
<1>3. ASSUME NEW m \in there
      PROVE  /\ StateOK(t, fresh, made)
             /\ \E obj \in [Nat -> Int] : RunOK(t, to(m), obj)
  <2>1. PICK obj \in [Nat -> Int] : RunOK(path, m, obj)
    BY DEF AllRight, Right
  <2> QED
    BY <1>1, <1>2, <2>1, FreeOK
<1> HIDE DEF t, to, there
<1> QED
  BY <1>1, <1>2, <1>3, GoesIs

\* a = {} keeps the State right: no element that is not written since is unset.
LEMMA ClearStep ==
  ASSUME AllRight, Clear
  PROVE  Goes
<1> DEFINE t == Put(path, <<"a">>, Con(0))
           to(m) == Fill(m, "a", <<"a">>, 0)
<1>1. fresh \in Nat /\ StateOK(path, fresh, made)
  BY DEF AllRight, Right
<1>2. /\ fresh' = fresh /\ made' = made
      /\ path' = t /\ runs' = {to(m) : m \in runs}
  BY DEF Clear
<1>3. 0 \in Ints
  BY SizesAssumption DEF Ints
<1>4. /\ IsValue(Con(0), fresh) /\ Con(0) # Dead /\ Con(0) # Uninit
      /\ \A obj : Holds(Con(0), 0, obj)
  BY <1>3 DEF IsValue, Con, Dead, Uninit, Holds
<1>5. StateOK(t, fresh, made)
  BY <1>1, <1>4, PutOK, RegionForms
<1>6. ASSUME NEW m \in runs
      PROVE  \E obj \in [Nat -> Int] : RunOK(t, to(m), obj)
  <2>1. PICK obj \in [Nat -> Int] : RunOK(path, m, obj)
    BY DEF AllRight, Right
  <2>2. Filled(to(m), m, "a", <<"a">>, 0)
    <3>1. RunShape(m)
      BY <2>1 DEF RunOK
    <3> QED
      BY <1>3, <3>1, FillIs
  <2> HIDE DEF t, to
  <2>3. RunOK(Put(path, <<"a">>, Con(0)), to(m), obj)
    BY <1>1, <1>3, <1>4, <2>1, <2>2, FillOK, RegionForms
  <2> QED
    BY <2>3 DEF t
<1> HIDE DEF t, to
<1> QED
  BY <1>1, <1>2, <1>5, <1>6, GoesIs

\* A call of a function that is not known keeps the State right.
LEMMA CallStep ==
  ASSUME AllRight, Call
  PROVE  Goes
<1> DEFINE pl == IF path.p[1] \in {"a", "g"} THEN "deref" ELSE "arrow"
           to(m, w) == Fill(m, m.p[1], path.p, w)
           there == {x \in runs : Writable(x, <<pl, 0>>)}
<1>1. fresh \in Nat /\ StateOK(path, fresh, made)
  BY DEF AllRight, Right
<1>2. /\ made' = made /\ path.p # NoRegion
      /\ \/ UNCHANGED <<path, runs, fresh>>
         \/ /\ fresh' = fresh + 1
            /\ path' = Put(path, path.p, Unknown(fresh + 1))
            /\ runs' = {to(m, w) : m \in there, w \in Ints}
  BY DEF Call
<1>3. CASE UNCHANGED <<path, runs, fresh>>
  BY <1>1, <1>2, <1>3 DEF Goes, AllRight
<1>4. CASE /\ fresh' = fresh + 1
           /\ path' = Put(path, path.p, Unknown(fresh + 1))
           /\ runs' = {to(m, w) : m \in there, w \in Ints}
  <2>1. /\ IsValue(Unknown(fresh + 1), fresh + 1)
        /\ Unknown(fresh + 1) # Dead /\ Unknown(fresh + 1) # Uninit
        /\ \A x \in Ints : \A obj : Holds(Unknown(fresh + 1), x, obj)
    <3>1. fresh + 1 \in 1..(fresh + 1)
      BY <1>1
    <3> QED
      BY <3>1 DEF IsValue, Unknown, Dead, Uninit, Holds
  <2>2. StateOK(path', fresh', made')
    <3>1. \A x, y : path.p = Part(x, y) => path.p \in made
      BY <1>1 DEF StateOK
    <3> QED
      BY <1>1, <1>2, <1>4, <2>1, <3>1, PutOK
  <2>3. ASSUME NEW m \in there, NEW w \in Ints
        PROVE  \E obj \in [Nat -> Int] : RunOK(path', to(m, w), obj)
    <3>1. PICK obj \in [Nat -> Int] : RunOK(path, m, obj)
      BY DEF AllRight, Right
    <3>2. m.p[1] = path.p[1] /\ RunShape(m)
      BY <1>2, <3>1 DEF RunOK, Aim
    <3>3. w \in Int
      BY SizesAssumption DEF Ints
    <3>4. Filled(to(m, w), m, path.p[1], path.p, w)
      BY <3>2, <3>3, FillIs
    <3>5. path.p[1] # "i" /\ (path.p[1] = "h" => path.p = <<"h">>)
      BY <1>1, <1>2, RegionForms DEF StateOK, PointerOK
    <3>6. path.p[1] = "h" => m.val[<<"h", 0>>] # Freed
      <4>1. path.p[1] = "h" => pl = "arrow" /\ Cell(m, <<pl, 0>>) = <<"h", 0>>
        BY <3>2 DEF Cell
      <4> QED
        BY <4>1 DEF Writable
    <3>7. <<"a">> # path.p
      BY <1>1, RegionForms DEF StateOK, PointerOK
    <3> DEFINE v == Unknown(fresh + 1)
               root == path.p[1]
    <3>8. IsValue(v, fresh + 1) /\ v # Dead /\ v # Uninit /\ Holds(v, w, obj)
      BY <2>1
    <3>9. /\ fresh + 1 \in Nat /\ root # "i" /\ path.p[1] = root
          /\ Filled(to(m, w), m, root, path.p, w)
          /\ (root = "h" => m.val[<<"h", 0>>] # Freed)
      BY <1>1, <3>4, <3>5, <3>6
    <3> HIDE DEF to, v, root
    <3>10. RunOK(Put(path, path.p, v), to(m, w), obj)
      BY <1>1, <1>2, <3>1, <3>7, <3>8, <3>9, FillOK
    <3> QED
      BY <1>4, <3>10 DEF v
  <2> HIDE DEF to, there
  <2> QED
    BY <1>1, <1>2, <1>4, <2>2, <2>3, GoesIs
<1> QED
  BY <1>2, <1>3, <1>4

\* A branch keeps both States right.
LEMMA ForkStep ==
  ASSUME AllRight, Fork
  PROVE  AllRight'
<1>1. /\ made' = made /\ path' = path /\ runs' = runs /\ fresh' = fresh
      /\ rest' = Append(rest, [path |-> path, runs |-> runs])
  BY DEF Fork
<1>2. fresh \in Nat /\ Right(path, runs, fresh, made)
  BY DEF AllRight
<1>3. Goes
  BY <1>1, <1>2 DEF Goes
<1>4. Right(path, runs, fresh', made')
  BY <1>1, <1>2
<1> HIDE DEF AllRight, Goes
<1> QED
  BY <1>1, <1>3, <1>4, GoesBoth

\* One of the two values that a range is split in, and the executions that have it.
LEMMA SplitRight ==
  ASSUME NEW n \in Nat, NEW rs, NEW s, NEW R, Right(s, R, n, rs), Index(s).kind = "rng",
         NEW j \in (n + 1)..(n + 2), NEW lo \in Ints, NEW hi \in Ints, lo <= hi,
         NEW Q \in SUBSET R, \A m \in Q : m.val[<<"i", 0>>] \in lo..hi
  PROVE  Right(Replace(s, Index(s), Make(j, lo, hi)), Q, n + 2, rs)
<1> DEFINE v == Index(s)
           u == Make(j, lo, hi)
<1>1. n + 2 \in Nat /\ n <= n + 2 /\ j \in 1..(n + 2) /\ j \in Nat /\ n < j
  OBVIOUS
<1>2. IsValue(u, n + 2) /\ u # Dead /\ u # Uninit
  <2>1. IsValue(u, n + 2) /\ u.kind \in {"con", "rng"}
    BY <1>1, MakeIs
  <2> QED
    BY <2>1 DEF Dead, Uninit
<1>3. \A x, obj : x \in lo..hi /\ obj[j] = x => Holds(u, x, obj)
  BY <1>1, MakeIs
<1>4. StateOK(s, n, rs)
  BY DEF Right
<1> HIDE DEF u
<1>5. StateOK(Replace(s, v, u), n + 2, rs)
  BY <1>1, <1>2, <1>4, ReplaceState
<1>6. ASSUME NEW m \in Q
      PROVE  \E other \in [Nat -> Int] : RunOK(Replace(s, v, u), m, other)
  <2> DEFINE x == m.val[<<"i", 0>>]
  <2>1. PICK obj \in [Nat -> Int] : RunOK(s, m, obj)
    BY DEF Right
  <2>2. x \in lo..hi /\ x \in Int
    BY SizesAssumption DEF Ints
  <2>3. Holds(v, x, obj)
    BY <1>4, <2>1, IndexIs
  <2>4. x = obj[v.id]
    BY <2>3 DEF Holds
  <2> HIDE DEF x, v
  <2> DEFINE other == With(obj, j, x)
  <2>5. other \in [Nat -> Int] /\ other[j] = x /\ Agree(obj, other, n)
    BY <1>1, <2>2, WithAgrees
  <2> HIDE DEF other
  <2>6. Holds(u, x, other)
    BY <1>3, <2>2, <2>5
  <2>7. v.kind = "rng"
    BY DEF v
  <2>8. RunOK(Replace(s, v, u), m, other)
    BY <1>2, <1>4, <2>1, <2>4, <2>5, <2>6, <2>7, ReplaceOK
  <2> QED
    BY <2>5, <2>8
<1> QED
  BY <1>5, <1>6 DEF Right, u

\* The split of a range keeps both States right, each for its executions.
LEMMA SplitStep ==
  ASSUME AllRight, NEW k \in Ints, Split(k)
  PROVE  AllRight'
<1> DEFINE v == Index(path)
           low == Replace(path, v, Make(fresh + 1, v.lo, k - 1))
           high == Replace(path, v, Make(fresh + 2, k, v.hi))
           below == {m \in runs : m.val[<<"i", 0>>] < k}
           above == runs \ below
<1>1. /\ v.kind = "rng" /\ v.lo < k /\ k <= v.hi
      /\ fresh' = fresh + 2 /\ made' = made
      /\ path' = low /\ runs' = below
      /\ rest' = Append(rest, [path |-> high, runs |-> above])
  BY DEF Split
<1>2. fresh \in Nat /\ Right(path, runs, fresh, made) /\ StateOK(path, fresh, made)
  BY DEF AllRight, Right
<1>3. IsValue(v, fresh) /\ v.lo \in Ints /\ v.hi \in Ints
  BY <1>1, <1>2, IndexIs, ValueFacts
<1>4. k - 1 \in Ints /\ v.lo <= k - 1 /\ k \in Int
  BY <1>1, <1>3, SizesAssumption DEF Ints
<1>5. ASSUME NEW m \in runs
      PROVE  m.val[<<"i", 0>>] \in v.lo..v.hi
  <2>1. PICK obj \in [Nat -> Int] : RunOK(path, m, obj)
    BY <1>2 DEF Right
  <2>2. Holds(v, m.val[<<"i", 0>>], obj)
    BY <1>2, <2>1, IndexIs
  <2> QED
    BY <1>1, <2>2 DEF Holds
<1> HIDE DEF v
<1>6. \A m \in below : m.val[<<"i", 0>>] \in v.lo..(k - 1)
  BY <1>3, <1>4, <1>5, SizesAssumption DEF Ints
<1>7. \A m \in above : m.val[<<"i", 0>>] \in k..v.hi
  BY <1>3, <1>4, <1>5, SizesAssumption DEF Ints
<1>8. below \in SUBSET runs /\ above \in SUBSET runs
  OBVIOUS
<1>9. fresh + 1 \in (fresh + 1)..(fresh + 2) /\ fresh + 2 \in (fresh + 1)..(fresh + 2)
  BY <1>2
<1> HIDE DEF below, above
<1>10. Right(low, below, fresh + 2, made)
  BY <1>1, <1>2, <1>3, <1>4, <1>6, <1>8, <1>9, SplitRight DEF v
<1>11. Right(high, above, fresh + 2, made)
  BY <1>1, <1>2, <1>3, <1>4, <1>7, <1>8, <1>9, SplitRight DEF v
<1> HIDE DEF low, high
<1>12. Goes
  BY <1>1, <1>2, <1>10 DEF Goes
<1>13. Right(high, above, fresh', made')
  BY <1>1, <1>11
<1> HIDE DEF AllRight, Goes
<1> QED
  BY <1>1, <1>12, <1>13, GoesBoth

\* The State that is taken up again is right, after all that was made in the meantime.
LEMMA BacktrackStep ==
  ASSUME AllRight, Backtrack
  PROVE  AllRight'
<1> DEFINE n == Len(rest)
<1>1. /\ made' = made /\ fresh' = fresh /\ rest # <<>>
      /\ path' = rest[n].path /\ runs' = rest[n].runs
      /\ rest' = SubSeq(rest, 1, n - 1)
  BY DEF Backtrack, Last, Front
<1>2. PICK S : rest \in Seq(S)
  BY DEF AllRight
<1>3. n \in Nat /\ n \in 1..n
  BY <1>1, <1>2
<1>4. /\ SubSeq(rest, 1, n - 1) \in Seq(S) /\ Len(SubSeq(rest, 1, n - 1)) = n - 1
      /\ \A i \in 1..(n - 1) : SubSeq(rest, 1, n - 1)[i] = rest[i]
  <2>1. \A i \in 1..(n - 1) : rest[i] \in S
    BY <1>2, <1>3
  <2> HIDE DEF n
  <2>2. n - 1 \in Int /\ 1 \in Int /\ n - 1 >= 0
    BY <1>3
  <2>3. /\ SubSeq(rest, 1, n - 1) \in Seq(S)
        /\ Len(SubSeq(rest, 1, n - 1)) = IF 1 <= n - 1 THEN (n - 1) - 1 + 1 ELSE 0
        /\ \A i \in 1..((n - 1) - 1 + 1) : SubSeq(rest, 1, n - 1)[i] = rest[1 + i - 1]
    BY <2>1, <2>2, SubSeqProperties
  <2>4. (n - 1) - 1 + 1 = n - 1 /\ \A i \in 1..(n - 1) : 1 + i - 1 = i
    BY <2>2
  <2> QED
    BY <2>2, <2>3, <2>4
<1> HIDE DEF n
<1>5. Right(path', runs', fresh', made') /\ fresh' \in Nat
  BY <1>1, <1>3 DEF AllRight, n
<1>6. ASSUME NEW i \in 1..Len(rest')
      PROVE  Right(rest'[i].path, rest'[i].runs, fresh', made')
  <2>1. i \in 1..(n - 1) /\ i \in 1..n
    BY <1>1, <1>3, <1>4
  <2>2. rest'[i] = rest[i]
    BY <1>1, <1>4, <2>1
  <2> QED
    BY <1>1, <2>1, <2>2 DEF AllRight, n
<1>7. \E T : rest' \in Seq(T)
  BY <1>1, <1>4
<1> QED
  BY <1>5, <1>6, <1>7 DEF AllRight

\* What is not changed stays right.
LEMMA SameStep ==
  ASSUME AllRight, UNCHANGED <<made, path, rest, runs, fresh>>
  PROVE  AllRight'
BY DEF AllRight

\* AllRight is kept by every step.
LEMMA StepRight ==
  ASSUME AllRight, [MemoryNext]_memory
  PROVE  AllRight'
<1>1. CASE Input
  <2>1. Goes /\ rest' = rest
    BY <1>1, InputStep DEF Input
  <2> QED
    BY <2>1, GoesOn
<1>2. CASE Alloc
  <2>1. Goes /\ rest' = rest
    BY <1>2, AllocStep DEF Alloc
  <2> QED
    BY <2>1, GoesOn
<1>3. CASE Dealloc
  <2>1. Goes /\ rest' = rest
    BY <1>3, DeallocStep DEF Dealloc
  <2> QED
    BY <2>1, GoesOn
<1>4. CASE Clear
  <2>1. Goes /\ rest' = rest
    BY <1>4, ClearStep DEF Clear
  <2> QED
    BY <2>1, GoesOn
<1>5. CASE Call
  <2>1. Goes /\ rest' = rest
    BY <1>5, CallStep DEF Call
  <2> QED
    BY <2>1, GoesOn
<1>6. CASE Fork
  BY <1>6, ForkStep
<1>7. CASE Backtrack
  BY <1>7, BacktrackStep
<1>8. ASSUME NEW pl \in Places \ {<<"local", 0>>}, SetTo(pl, 1)
      PROVE  AllRight'
  <2>1. CASE Indexable(path, pl)
    <3>1. Goes /\ rest' = rest
      BY <1>8, <2>1, SetToStep DEF SetTo, Assign
    <3> QED
      BY <3>1, GoesOn
  <2>2. CASE ~Indexable(path, pl)
    BY <1>8, <2>2, SameStep DEF SetTo, Assign, Crashes
  <2> QED
    BY <2>1, <2>2
<1>9. ASSUME NEW pl \in Places \ {<<"local", 0>>}, CopyI(pl)
      PROVE  AllRight'
  <2>1. CASE Indexable(path, pl)
    <3>1. Goes /\ rest' = rest
      BY <1>9, <2>1, CopyStep DEF CopyI, Assign
    <3> QED
      BY <3>1, GoesOn
  <2>2. CASE ~Indexable(path, pl)
    BY <1>9, <2>2, SameStep DEF CopyI, Assign, Crashes
  <2> QED
    BY <2>1, <2>2
<1>10. ASSUME NEW pl \in Places \ {<<"local", 0>>}, Load(pl)
       PROVE  AllRight'
  <2>1. CASE Indexable(path, pl) /\ GetStore(path, LValue(path, pl), fresh + 1) # Crash
    <3>1. Goes /\ rest' = rest
      BY <1>10, <2>1, LoadStep DEF Load
    <3> QED
      BY <3>1, GoesOn
  <2>2. CASE ~Indexable(path, pl)
    BY <1>10, <2>2, SameStep DEF Load, Crashes
  <2>3. CASE GetStore(path, LValue(path, pl), fresh + 1) = Crash
    BY <1>10, <2>3, SameStep DEF Load, Crashes
  <2> QED
    BY <2>1, <2>2, <2>3
<1>11. ASSUME NEW pl \in Places \ {<<"local", 0>>}, pl[1] \in {"deref", "arrow"}, Peek(pl)
       PROVE  AllRight'
  <2>1. Goes /\ rest' = rest
    BY <1>11, PeekStep DEF Peek
  <2> QED
    BY <2>1, GoesOn
<1>12. ASSUME NEW pl \in Places \ {<<"local", 0>>}, PointTo(pl),
              pl[1] \in {"elem", "index", "field", "global"}
       PROVE  AllRight'
  <2>1. CASE Indexable(path, pl)
    <3>1. Goes /\ rest' = rest
      BY <1>12, <2>1, PointToStep DEF PointTo
    <3> QED
      BY <3>1, GoesOn
  <2>2. CASE ~Indexable(path, pl)
    BY <1>12, <2>2, SameStep DEF PointTo, Crashes
  <2> QED
    BY <2>1, <2>2
<1>13. ASSUME NEW k \in {-1, 1}, Advance(k)
       PROVE  AllRight'
  <2>1. CASE ~(Len(path.p) = 2 /\ path.p[2][1] = "in")
    <3>1. Goes /\ rest' = rest
      BY <1>13, <2>1, AdvanceStep DEF Advance
    <3> QED
      BY <3>1, GoesOn
  <2>2. CASE Len(path.p) = 2 /\ path.p[2][1] = "in"
    BY <1>13, <2>2, SameStep DEF Advance, Crashes
  <2> QED
    BY <2>1, <2>2
<1>14. ASSUME NEW k \in Ints, Split(k)
       PROVE  AllRight'
  BY <1>14, SplitStep
<1>15. CASE UNCHANGED memory
  BY <1>15, SameStep DEF memory
<1> QED
  BY <1>1, <1>2, <1>3, <1>4, <1>5, <1>6, <1>7, <1>8, <1>9, <1>10, <1>11, <1>12, <1>13, <1>14, <1>15
  DEF MemoryNext

\* AllRight holds when the function is entered.
LEMMA InitRight ==
  ASSUME MemoryInit
  PROVE  AllRight
<1>1. /\ made = {} /\ rest = <<>> /\ fresh = 1
      /\ path = [vals |-> [r \in {<<v>> : v \in Locals} |->
                              IF r = <<"i">> THEN UnknownInt(1) ELSE Uninit],
                 p |-> NoRegion]
  BY DEF MemoryInit
<1>2. /\ DOMAIN path = {"vals", "p"} /\ path.p = NoRegion
      /\ DOMAIN path.vals = {<<"i">>, <<"a">>, <<"s">>}
      /\ path.vals[<<"i">>] = UnknownInt(1)
      /\ path.vals[<<"a">>] = Uninit /\ path.vals[<<"s">>] = Uninit
  BY <1>1, RegionForms DEF Locals
<1>3. /\ IsValue(UnknownInt(1), 1) /\ UnknownInt(1) # Dead
      /\ \A x \in Ints : \A obj : obj[1] = x => Holds(UnknownInt(1), x, obj)
  <2>1. 0 \in Nat /\ 0 + 1 = 1
    OBVIOUS
  <2> QED
    BY <2>1, UnknownIntIs
<1>4. Uninit # Dead /\ IsValue(Uninit, 1) /\ \A obj : Holds(Uninit, Garbage, obj)
  BY DEF Uninit, Dead, IsValue, Holds
<1>5. StateOK(path, 1, made)
  <2>1. \A x, y : Part(x, y) \notin DOMAIN path.vals \cup {path.p}
    BY <1>2, RegionForms
  <2>2. PointerOK(path, 1)
    BY <1>2 DEF PointerOK
  <2> QED
    BY <1>2, <1>3, <1>4, <2>1, <2>2 DEF StateOK
<1>6. ASSUME NEW m \in runs
      PROVE  \E obj \in [Nat -> Int] : RunOK(path, m, obj)
  <2> DEFINE V(j, g) == [c \in Cells |-> CASE c[1] = "i" -> j [] c[1] \in Globals -> g
                                           [] c[1] \in Heap -> Absent [] OTHER -> Garbage]
             B == [c \in Cells |-> <<c[1]>>]
  <2>1. PICK j \in Ints, g \in Ints :
          m = [val |-> V(j, g), by |-> B, p |-> <<"null", 0>>, exact |-> TRUE]
    BY DEF MemoryInit
  <2>2. /\ DOMAIN m = {"val", "by", "p", "exact"}
        /\ m.val = V(j, g) /\ m.by = B /\ m.p = <<"null", 0>> /\ m.exact = TRUE
    BY <2>1
  <2>3. j \in Int /\ g \in Int /\ Absent \in Int /\ Garbage \in Int /\ Garbage # Absent
        /\ Garbage # Freed /\ Absent # Freed /\ j # Absent /\ g # Absent /\ j # Freed /\ g # Freed
    BY SizesAssumption DEF Ints, Absent, Garbage, Freed
  <2>4. /\ V(j, g) \in [Cells -> Int] /\ DOMAIN B = Cells
        /\ \A c \in Cells : /\ B[c] = <<c[1]>>
                            /\ c[1] = "i" => V(j, g)[c] = j
                            /\ c[1] = "g" => V(j, g)[c] = g
                            /\ c[1] = "h" => V(j, g)[c] = Absent
                            /\ c[1] \in {"a", "s"} => V(j, g)[c] = Garbage
    BY <2>3 DEF Globals, Heap
  <2> DEFINE obj == [x \in Nat |-> j]
  <2>5. obj \in [Nat -> Int] /\ obj[1] = j
    BY <2>3
  <2> HIDE DEF V, B, obj
  <2>6. RunShape(m)
    <3>1. m.p = <<m.p[1], m.p[2]>> /\ m.p[2] \in Int
      BY <2>2
    <3>2. m.exact \in BOOLEAN
      BY <2>2
    <3> QED
      BY <2>2, <2>4, <3>1, <3>2 DEF RunShape
  <2>7. ASSUME NEW c \in Cells
        PROVE  SaidOf(path, m, c, obj) /\ Lifetime(path, m, c)
    <3>1. m.by[c] = <<c[1]>> /\ m.by[c][1] = c[1]
      BY <2>2, <2>4
    <3>2. CASE c[1] = "i"
      <4>1. m.val[c] = j /\ Holds(UnknownInt(1), j, obj)
        BY <1>3, <2>2, <2>4, <2>5, <3>2
      <4> QED
        BY <1>2, <2>3, <3>1, <3>2, <4>1 DEF SaidOf, Lifetime, Has
    <3>3. CASE c[1] = "g"
      <4>1. m.val[c] = g /\ ~Has(path, <<"g">>)
        BY <1>2, <2>2, <2>4, <3>3, RegionForms DEF Has
      <4> QED
        BY <2>3, <3>1, <3>3, <4>1 DEF SaidOf, Lifetime
    <3>4. CASE c[1] = "h"
      <4>1. m.val[c] = Absent /\ ~Has(path, <<"h">>) /\ c = <<"h", 0>>
        BY <1>2, <2>2, <2>4, <3>4, CellForms, RegionForms DEF Has
      <4> QED
        BY <2>3, <3>1, <3>4, <4>1 DEF SaidOf, Lifetime
    <3>5. CASE c[1] \in {"a", "s"}
      <4>1. /\ m.val[c] = Garbage /\ Has(path, <<c[1]>>)
            /\ Holds(path.vals[<<c[1]>>], Garbage, obj)
        BY <1>2, <1>4, <2>2, <2>4, <3>5 DEF Has
      <4> QED
        BY <2>3, <3>1, <4>1 DEF SaidOf, Lifetime
    <3> QED
      BY <3>2, <3>3, <3>4, <3>5, CellForms
  <2>8. m.by[<<"i", 0>>] = <<"i">>
    BY <2>2, <2>4, CellForms
  <2>9. Aim(path, m, obj)
    BY <1>2 DEF Aim
  <2>10. Entered(path, m)
    BY <1>2, RegionForms DEF Entered, Has
  <2> QED
    BY <2>5, <2>6, <2>7, <2>8, <2>9, <2>10 DEF RunOK
<1>7. rest \in Seq({}) /\ Len(rest) = 0
  BY <1>1
<1>8. \A i \in 1..Len(rest) : FALSE
  BY <1>7
<1> QED
  BY <1>1, <1>5, <1>6, <1>7, <1>8 DEF AllRight, Right

\* A place that is read, and what is read there.
LEMMA ReadingIs ==
  ASSUME NEW x \in Readings(path)
  PROVE  /\ x[1] \in Places /\ Fits(path, x[1]) /\ Indexable(path, x[1])
         /\ x[2] = GetStore(path, LValue(path, x[1]), fresh + 1)
BY DEF Readings

\* If every State is right then what is read at every place is.
LEMMA RightReads ==
  ASSUME AllRight
  PROVE  ReadsRight
<1>1. fresh \in Nat /\ StateOK(path, fresh, made)
  BY DEF AllRight, Right
<1>2. ASSUME NEW x \in Readings(path), x[2].kind \notin {"crash", "uninit", "dead"},
             NEW m \in runs, Legal(m, x[1]), Met(path, m, x[1])
      PROVE  Stands(x[2], Contents(m, x[1]))
  <2> DEFINE pl == x[1]
             v == x[2]
  <2>1. /\ pl \in Places /\ Fits(path, pl) /\ Indexable(path, pl)
        /\ v = GetStore(path, LValue(path, pl), fresh + 1)
    BY ReadingIs
  <2>2. PICK obj \in [Nat -> Int] : RunOK(path, m, obj)
    BY DEF AllRight, Right
  <2>3. v # Crash
    BY <1>2 DEF Crash
  <2>4. Legal(m, pl) /\ Met(path, m, pl) /\ v.kind \notin {"crash", "uninit", "dead"}
    BY <1>2
  <2> HIDE DEF pl, v
  <2>5. IsValue(v, fresh + 1)
    <3>1. PlaceForm(LValue(path, pl), fresh)
      BY <1>1, <2>1, LValueIs
    <3> QED
      BY <1>1, <2>1, <2>3, <3>1, ReadIs
  <2>6. /\ v.kind \in {"con", "rng", "unknown"}
        /\ v.kind = "con" => v.lo \in Ints /\ v.hi = v.lo
    BY <1>1, <2>4, <2>5, ValueFacts
  <2> DEFINE y == Contents(m, pl)
             other == With(obj, fresh + 1, y)
  <2>7. /\ y # Freed
        /\ \/ v.kind = "unknown" /\ y = Garbage
           \/ y \in Ints /\ Holds(v, y, other)
    BY <1>1, <2>1, <2>2, <2>4, <2>6, ReadHolds
  <2> HIDE DEF y, other
  <2>8. Stands(v, y)
    BY <2>6, <2>7, SizesAssumption DEF Stands, Ranges, Holds, Ints
  <2> QED
    BY <2>8 DEF y, v, pl
<1> QED
  BY <1>2 DEF ReadsRight

\* Where an element is said not to be set, for an index that is not known.
LEMMA PoisonIndex ==
  ASSUME AllRight, NEW r, PlaceForm(r, fresh), ~Has(path, r), r[2][1] = "in",
         GetStore(path, r, fresh + 1) \in {Uninit, Dead}
  PROVE  \E k \in Possible(r[2][2]) : NeverSet(k)
<1> DEFINE v == GetStore(path, r, fresh + 1)
           whole == path.vals[Root(r)]
<1>1. fresh \in Nat /\ StateOK(path, fresh, made)
  BY DEF AllRight, Right
<1>2. UnknownInt(fresh + 1) \notin {Uninit, Dead}
  BY <1>1, UnknownIntIs
<1>3. \/ /\ Has(path, Root(r)) /\ whole.kind = "uninit"
         /\ \E w : /\ IsValue(w, fresh) /\ w.kind = "rng" /\ r = Part("a", In(w))
                   /\ v = SummarizeArray(path, "a", w, fresh + 1) /\ v # None
      \/ /\ Has(path, Root(r)) /\ v = Extract(fresh + 1, whole)
         /\ \A w : r = Part("a", In(w)) /\ w.kind = "rng" /\ whole.kind = "uninit" =>
                      SummarizeArray(path, "a", w, fresh + 1) = None
  BY <1>1, <1>2, ReadCases
<1>4. PICK w : /\ IsValue(w, fresh) /\ w.kind \in {"rng", "unknown"}
               /\ r = Part("a", In(w))
  <2>1. Part("s", Field)[2][1] = "field" /\ Part("h", Field)[2][1] = "field"
    BY RegionForms DEF Field
  <2>2. \A root, j : Part(root, At(j))[2][1] = "at"
    BY RegionForms
  <2>3. r \in {<<"g">>, <<"i">>} => Root(r) = r
    BY DEF Root
  <2> QED
    BY <1>3, <2>1, <2>2, <2>3 DEF PlaceForm
<1>5. Root(r) = <<"a">> /\ r[2][2] = w
  BY <1>4, RegionForms DEF Root
<1>6. v \notin {None, Crash} /\ v.kind # "unknown"
      /\ \A lo, hi : v # Make(fresh + 1, lo, hi)
  BY DEF Uninit, Dead, None, Crash, Make, Con, Rng
<1> HIDE DEF v, whole
<1>7. ASSUME NEW u, IsValue(u, fresh), u.kind = "rng"
      PROVE  v # SummarizeArray(path, "a", u, fresh + 1)
  BY <1>1, <1>6, <1>7, SummaryIs
<1>8. v = Extract(fresh + 1, whole)
      /\ \A u : r = Part("a", In(u)) /\ u.kind = "rng" /\ whole.kind = "uninit" =>
                   SummarizeArray(path, "a", u, fresh + 1) = None
  BY <1>3, <1>7
<1>9. path.vals[<<"a">>] = Uninit
  <2>1. IsValue(whole, fresh) /\ whole = path.vals[<<"a">>] /\ whole # Dead
    BY <1>1, <1>5, RegionForms DEF StateOK, whole
  <2>2. CASE whole.kind \in {"unknown", "rng"}
    <3>1. v.kind = "rng"
      BY <1>8, <2>2 DEF Extract, UnknownInt, Rng
    <3> QED
      BY <3>1 DEF v, Uninit, Dead
  <2>3. CASE whole.kind \notin {"unknown", "rng"}
    <3>1. v = whole
      BY <1>8, <2>3 DEF Extract
    <3> QED
      BY <2>1, <3>1 DEF v
  <2> QED
    BY <2>2, <2>3
<1>10. CASE w.kind = "rng"
  <2>1. SummarizeArray(path, "a", w, fresh + 1) = None
    BY <1>4, <1>5, <1>8, <1>9, <1>10 DEF whole, Uninit
  <2>2. PICK k \in w.lo..w.hi : Part("a", At(k)) \notin made
    BY <1>1, <1>4, <1>10, <2>1, NoSummary
  <2>3. k \in Nat
    BY <1>1, <1>4, <1>10, <2>2, ValueFacts, SizesAssumption DEF Ints
  <2>4. ASSUME k < Size, NEW m \in runs,
               m.by[<<"a", k>>] \in {<<"a">>, Canonical(<<"a", k>>)}
        PROVE  m.val[<<"a", k>>] = Garbage
    <3>1. <<"a", k>> \in Cells
      BY <2>3, <2>4, CellForms, SizesAssumption
    <3>2. Canonical(<<"a", k>>) = Part("a", At(k))
      BY DEF Canonical
    <3>3. PICK obj : RunOK(path, m, obj)
      BY DEF AllRight, Right
    <3>4. SaidOf(path, m, <<"a", k>>, obj)
      BY <3>1, <3>3 DEF RunOK
    <3>5. ~Has(path, Part("a", At(k)))
      BY <1>1, <2>2 DEF StateOK, Has
    <3>6. m.by[<<"a", k>>] = <<"a">>
      BY <2>4, <3>2, <3>4, <3>5, RegionForms DEF SaidOf
    <3>7. Has(path, <<"a">>) /\ <<"a">> # NoRegion
      BY <1>1, RegionForms DEF StateOK, Has
    <3>8. Holds(Uninit, m.val[<<"a", k>>], obj)
      BY <1>9, <3>4, <3>6, <3>7 DEF SaidOf
    <3> QED
      BY <3>8 DEF Holds, Uninit
  <2>5. NeverSet(k)
    BY <2>4 DEF NeverSet
  <2> QED
    BY <1>5, <1>10, <2>2, <2>5 DEF Possible
<1>11. CASE w.kind = "unknown"
  <2>1. Size \in Possible(w)
    BY <1>11, SizesAssumption DEF Possible, Ints
  <2>2. NeverSet(Size)
    BY SizesAssumption DEF NeverSet
  <2> QED
    BY <1>5, <2>1, <2>2
<1> QED
  BY <1>4, <1>10, <1>11

\* Where a place that is known, or that has a value of its own, is said not to be
\* set or to be freed.
LEMMA PoisonPlace ==
  ASSUME AllRight, NEW pl \in Places, Fits(path, pl), Indexable(path, pl), NEW v,
         v = GetStore(path, LValue(path, pl), fresh + 1), v \in {Uninit, Dead},
         Has(path, LValue(path, pl)) \/ LValue(path, pl)[2][1] # "in",
         NEW m \in runs, Legal(m, pl), Met(path, m, pl)
  PROVE  Contents(m, pl) = IF v = Dead THEN Freed ELSE Garbage
<1> DEFINE r == LValue(path, pl)
           x == Contents(m, pl)
           whole == path.vals[Root(r)]
<1>1. fresh \in Nat /\ StateOK(path, fresh, made)
  BY DEF AllRight, Right
<1>2. PICK obj \in [Nat -> Int] : RunOK(path, m, obj)
  BY DEF AllRight, Right
<1>3. x = Freed => v = Dead
  BY <1>1, <1>2, FreedRead
<1>4. x # Freed => Told(path, m, r, Cell(m, pl), x, obj)
  BY <1>1, <1>2, MetIs
<1>5. PlaceForm(r, fresh)
  BY <1>1, LValueIs
<1>6. \A w : r = Part("a", In(w)) => Has(path, r)
  BY RegionForms
<1>7. UnknownInt(fresh + 1) \notin {Uninit, Dead}
  BY <1>1, UnknownIntIs
<1>8. \/ Has(path, r) /\ v = path.vals[r]
      \/ ~Has(path, r) /\ Has(path, Root(r)) /\ v = Extract(fresh + 1, whole)
  <2> HIDE DEF r
  <2>1. v = GetStore(path, r, fresh + 1)
    BY DEF r
  <2> QED
    BY <1>1, <1>5, <1>6, <1>7, <2>1, ReadCases
<1>9. /\ Uninit # Dead
      /\ \A y : (Holds(Uninit, y, obj) => y = Garbage) /\ (Holds(Dead, y, obj) => y = Freed)
  BY DEF Uninit, Dead, Holds
<1>10. v = Extract(fresh + 1, whole) => v = whole
  <2>1. whole.kind \in {"unknown", "rng"} => Extract(fresh + 1, whole).kind = "rng"
    BY DEF Extract, UnknownInt, Rng
  <2>2. v.kind # "rng"
    BY DEF Uninit, Dead
  <2>3. whole.kind \notin {"unknown", "rng"} => Extract(fresh + 1, whole) = whole
    BY DEF Extract
  <2> QED
    BY <2>1, <2>2, <2>3
<1> SUFFICES x = IF v = Dead THEN Freed ELSE Garbage
  OBVIOUS
<1> HIDE DEF r, x, whole
<1>11. x # Freed => Holds(v, x, obj)
  BY <1>4, <1>6, <1>8, <1>10 DEF Told, whole
<1> QED
  BY <1>3, <1>9, <1>11

\* If every State is right then what is called uninitialized or deallocated is.
LEMMA RightPoison ==
  ASSUME AllRight
  PROVE  PoisonReal
<1>1. ASSUME NEW x \in Readings(path), x[2] \in {Uninit, Dead}
      PROVE  LET r == LValue(path, x[1])
             IN  IF ~Has(path, r) /\ r[2][1] = "in"
                 THEN \E k \in Possible(r[2][2]) : NeverSet(k)
                 ELSE \A m \in runs :
                          Legal(m, x[1]) /\ Met(path, m, x[1]) =>
                              Contents(m, x[1]) = IF x[2] = Dead THEN Freed ELSE Garbage
  <2> DEFINE pl == x[1]
             r == LValue(path, pl)
  <2>1. /\ pl \in Places /\ Fits(path, pl) /\ Indexable(path, pl)
        /\ x[2] = GetStore(path, r, fresh + 1)
    BY ReadingIs
  <2>2. CASE ~Has(path, r) /\ r[2][1] = "in"
    <3>1. PlaceForm(r, fresh)
      BY <2>1, LValueIs DEF AllRight, Right
    <3>2. \E k \in Possible(r[2][2]) : NeverSet(k)
      BY <1>1, <2>1, <2>2, <3>1, PoisonIndex
    <3> QED
      BY <2>2, <3>2
  <2>3. CASE ~(~Has(path, r) /\ r[2][1] = "in")
    <3>1. ASSUME NEW m \in runs, Legal(m, pl), Met(path, m, pl)
          PROVE  Contents(m, pl) = IF x[2] = Dead THEN Freed ELSE Garbage
      BY <1>1, <2>1, <2>3, <3>1, PoisonPlace
    <3> QED
      BY <2>3, <3>1
  <2> QED
    BY <2>2, <2>3
<1> QED
  BY <1>1 DEF PoisonReal

\* On every path, the State and those set aside are right for the executions that take
\* them: of every cell, what the Region says that it was last written through.
THEOREM MemoryRight == MemorySpec => []AllRight
<1>1. MemoryInit => AllRight
  BY InitRight
<1>2. AllRight /\ [MemoryNext]_memory => AllRight'
  BY StepRight
<1> QED
  BY <1>1, <1>2, PTL DEF MemorySpec

\* No read gives what the place does not have (get_store, summarize_array, eval_lvalue,
\* deallocate_region), for any number of elements, ints, paths and statements.
THEOREM ReadsAreRight == MemorySpec => []ReadsRight
<1>1. AllRight => ReadsRight
  BY RightReads
<1> QED
  BY <1>1, MemoryRight, PTL

\* Nothing is called uninitialized or deallocated that is not; for an index that is not
\* known, an element that it may be has never been set.
THEOREM PoisonIsReal == MemorySpec => []PoisonReal
<1>1. AllRight => PoisonReal
  BY RightPoison
<1> QED
  BY <1>1, MemoryRight, PTL
================================================================================
