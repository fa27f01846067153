---------------------------- MODULE WrapperGC_proofs ----------------------------
(***************************************************************************)
(* For any number of Python objects and of GCC objects, and as long as no  *)
(* object is initialised twice: the list has every live wrapper, no object *)
(* is collected inside one, and the caches are current.                    *)
(***************************************************************************)
EXTENDS WrapperGC, FiniteSetTheorems, TLAPS

-----------------------------------------------------------------------------
(***************************************************************************)
(* The inductive invariant, in parts.                                      *)
(***************************************************************************)
Ring == Tracked \cup {sentinel}

\* wr_next and wr_prev are inverse to each other on the list.
Linked ==
    \A n \in Ring : /\ next[n] \in Ring /\ prev[n] \in Ring
                    /\ next[prev[n]] = n /\ prev[next[n]] = n

\* Memory that is not an object is not in the list and wraps nothing.
FreeIsClear == \A w \in Wrappers \ live : prev[w] = NULL /\ wraps[w] = NULL

\* A wrapper of a GCC object is in the list and its object exists.
WrapsTracked ==
    \A w \in live : wraps[w] # NULL => wraps[w] \in alive /\ prev[w] # NULL

CacheOfLive ==
    \A a \in Addrs : cache[a] # NULL => cache[a] \in live /\ wraps[cache[a]] = a

\* Before: u is before v on the list, by a strict order in which wr_next leads
\* to the next one.
Before(R, u, v) == <<u, v>> \in R

Ordered(R) ==
    /\ \A u \in Tracked : ~Before(R, u, u)
    /\ \A u, v \in Tracked : u = v \/ Before(R, u, v) \/ Before(R, v, u)
    /\ \A u, v, x \in Tracked : Before(R, u, v) /\ Before(R, v, x) => Before(R, u, x)
    /\ \A u \in Tracked : next[u] \in Tracked => Before(R, u, next[u])
    /\ \A u, v \in Tracked :
           Before(R, u, v) => next[u] = v \/ (next[u] \in Tracked /\ Before(R, next[u], v))
    /\ \A v \in Tracked :
           next[sentinel] = v
           \/ (next[sentinel] \in Tracked /\ Before(R, next[sentinel], v))

\* MarkedClosed: what is marked has also what it leads to marked.
MarkedClosed == Closed(refs, marked) /\ roots \subseteq marked

\* While my_walker walks, what it has passed is marked.
Walked(R) ==
    phase = "walk" =>
        /\ iter \in Ring /\ MarkedClosed
        /\ \A v \in Tracked :
               (iter = sentinel \/ Before(R, v, iter)) /\ wraps[v] # NULL => wraps[v] \in marked

ListOrdered == \E R \in SUBSET (Wrappers \X Wrappers) : Ordered(R) /\ Walked(R)

\* Once it has returned, everything that is wrapped is marked.
AllMarked ==
    phase = "marking" =>
        MarkedClosed /\ \A w \in live : wraps[w] # NULL => wraps[w] \in marked

Fields == TypeOK /\ FreeIsClear /\ WrapsTracked /\ CacheOfLive
IInv == Fields /\ Linked /\ Closed(refs, alive) /\ ListOrdered /\ AllMarked

-----------------------------------------------------------------------------
(***************************************************************************)
(* What is reached by pointers.                                            *)
(***************************************************************************)
\* A set that the pointers do not lead out of has all that is reached from it.
LEMMA ReachLeast ==
    ASSUME NEW f, NEW D, NEW S, NEW T \in SUBSET D, S \subseteq T, Closed(f, T)
    PROVE  Reach(f, D, S) \subseteq T
BY DEF Reach

\* What is reached has the start, and the pointers do not lead out of it.
LEMMA ReachClosed ==
    ASSUME NEW D, NEW f \in [D -> D \cup {NULL}], NEW S \in SUBSET D, NULL \notin D
    PROVE  /\ S \subseteq Reach(f, D, S) /\ Reach(f, D, S) \subseteq D
           /\ Closed(f, Reach(f, D, S))
<1>1. S \subseteq Reach(f, D, S) /\ Reach(f, D, S) \subseteq D
  BY DEF Reach
<1>2. ASSUME NEW d \in Reach(f, D, S), f[d] # NULL
      PROVE  f[d] \in Reach(f, D, S)
  <2>1. d \in D /\ f[d] \in D
    BY <1>2 DEF Reach
  <2>2. ASSUME NEW T \in SUBSET D, S \subseteq T, Closed(f, T)
        PROVE  f[d] \in T
    <3>1. d \in T
      BY <2>2 DEF Reach
    <3> QED
      BY <1>2, <2>2, <3>1 DEF Closed
  <2> QED
    BY <2>1, <2>2 DEF Reach
<1> QED
  BY <1>1, <1>2 DEF Closed

-----------------------------------------------------------------------------
(***************************************************************************)
(* The list.                                                               *)
(***************************************************************************)
\* Every step leaves the list alone, appends one object or takes one out.
LEMMA ListSteps ==
    ASSUME AllowReinit = FALSE, TypeOK, FreeIsClear, Linked, [Next]_vars
    PROVE  \/ UNCHANGED list /\ Tracked' = Tracked
           \/ /\ phase # "walk" /\ phase' = phase
              /\ \E w \in Wrappers \ Tracked : Track(w) /\ Tracked' = Tracked \cup {w}
           \/ /\ phase # "walk" /\ phase' = phase
              /\ \E w \in Tracked : Untrack(w) /\ Tracked' = Tracked \ {w}
<1> DEFINE Same == UNCHANGED list /\ Tracked' = Tracked
           Longer == \E w \in Wrappers \ Tracked : Track(w) /\ Tracked' = Tracked \cup {w}
           Shorter == \E w \in Tracked : Untrack(w) /\ Tracked' = Tracked \ {w}
<1>0. /\ prev[sentinel] \in Nodes /\ sentinel \notin Wrappers /\ NULL \notin Nodes
      /\ next \in [Nodes -> Nodes \cup {NULL}] /\ prev \in [Nodes -> Nodes \cup {NULL}]
      /\ live \subseteq Wrappers /\ Wrappers \subseteq Nodes /\ sentinel \in Nodes
  BY ConstantsAssumption DEF TypeOK, Linked, Ring, Tracked, Nodes
<1>1. ASSUME UNCHANGED list, live' = live PROVE Same
  BY <1>1 DEF Tracked, list
<1>2. ASSUME NEW w \in Wrappers, Track(w), w \notin Tracked, live' = live \cup {w}
      PROVE  Longer
  <2>1. \A v \in Nodes : prev'[v] = IF v = sentinel THEN w
                                    ELSE IF v = w THEN prev[sentinel] ELSE prev[v]
    BY <1>0, <1>2 DEF Track
  <2>2. Tracked' = Tracked \cup {w}
    BY <1>0, <1>2, <2>1 DEF Tracked
  <2> QED
    BY <1>2, <2>2
<1>3. ASSUME NEW w \in Wrappers, NEW a, NewWrapper(w, a), PythonRuns, UNCHANGED gc
      PROVE  Longer /\ phase # "walk" /\ phase' = phase
  <2>1. w \notin live /\ w \notin Tracked /\ live' = live \cup {w} /\ Track(w)
    BY <1>3 DEF NewWrapper, Tracked
  <2> QED
    BY <1>2, <1>3, <2>1 DEF PythonRuns, gc
<1>4. ASSUME NEW w \in Wrappers, Construct(w) PROVE Same
  BY <1>0, <1>4 DEF Construct, FreeIsClear, Tracked, list
<1>5. ASSUME NEW w \in Wrappers, ObjectInit(w)
      PROVE  Longer /\ phase # "walk" /\ phase' = phase
  <2>1. w \in live /\ w \notin Tracked /\ live' = live /\ Track(w)
    BY <1>5 DEF ObjectInit, TypeOK, Tracked
  <2> QED
    BY <1>2, <1>5, <2>1 DEF ObjectInit, PythonRuns, gc
<1>6. ASSUME NEW w \in Wrappers, Decref(w)
      PROVE  Same \/ (Shorter /\ phase # "walk" /\ phase' = phase)
  <2>1. CASE ~LastRef(w)
    BY <1>1, <1>6, <2>1 DEF Decref
  <2>2. CASE LastRef(w) /\ prev[w] = NULL
    BY <1>0, <1>6, <2>2 DEF Decref, Tracked, list
  <2>3. CASE LastRef(w) /\ prev[w] # NULL
    <3>1. w \in Tracked /\ Untrack(w) /\ live' = live \ {w}
      BY <1>6, <2>3 DEF Decref, Tracked
    <3>2. next[w] \in Ring /\ prev[w] \in Ring /\ prev[next[w]] = w
      BY <3>1 DEF Linked, Ring
    <3>3. \A v \in live' : prev'[v] # NULL <=> prev[v] # NULL
      BY <1>0, <3>1, <3>2 DEF Untrack, Ring, Tracked
    <3>4. Tracked' = Tracked \ {w}
      BY <3>1, <3>3 DEF Tracked
    <3> QED
      BY <1>6, <3>1, <3>4 DEF Decref, PythonRuns, gc
  <2> QED
    BY <2>1, <2>2, <2>3
<1>7. ASSUME NEW w \in Wrappers, NEW a \in Addrs, WrapNew(w, a)
      PROVE  Longer /\ phase # "walk" /\ phase' = phase
  <2>1. w \notin live /\ w \notin Tracked /\ live' = live \cup {w} /\ Track(w)
    BY <1>7 DEF WrapNew, NewWrapper, Tracked
  <2> QED
    BY <1>2, <1>7, <2>1 DEF WrapNew, PythonRuns
<1>8. ASSUME NEW w \in Wrappers, NEW a \in Addrs, WrapCached(w, a)
      PROVE  Longer /\ phase # "walk" /\ phase' = phase
  BY <1>3, <1>8 DEF WrapCached
<1>9. ASSUME NEW w \in Wrappers, NEW a \in Addrs \cup {NULL}, WrapUncached(w, a)
      PROVE  Longer /\ phase # "walk" /\ phase' = phase
  BY <1>3, <1>9 DEF WrapUncached
<1>10. ASSUME NEW w \in Wrappers, WrapPass(w)
       PROVE  Longer /\ phase # "walk" /\ phase' = phase
  BY <1>3, <1>10 DEF WrapPass
<1>11. ASSUME NEW w \in Wrappers, PassAgain(w) PROVE Same
  BY <1>1, <1>11 DEF PassAgain
<1>12. ASSUME NEW a \in Addrs, WrapAgain(a) \/ GccNew(a) \/ GccForget(a)
       PROVE  Same
  BY <1>1, <1>12 DEF WrapAgain, GccNew, GccForget, python
<1>13. ASSUME NEW a \in Addrs, NEW b \in Addrs \cup {NULL}, GccAssign(a, b)
       PROVE  Same
  BY <1>1, <1>13 DEF GccAssign, python
<1>14. ASSUME GgcStart \/ Collector \/ UNCHANGED vars
       PROVE  Same
  BY <1>1, <1>14 DEF GgcStart, Collector, GgcMarkRoots, WalkStep, WalkEnd, GgcSweep, vars, python
<1> HIDE DEF Same, Longer, Shorter
<1>15. Same \/ ((Longer \/ Shorter) /\ phase # "walk" /\ phase' = phase)
  BY <1>4, <1>5, <1>6, <1>7, <1>8, <1>9, <1>10, <1>11, <1>12, <1>13, <1>14 DEF Next
<1> QED
  BY <1>15 DEF Same, Longer, Shorter

\* An object is appended.
LEMMA TrackLinks ==
    ASSUME TypeOK, Linked, NEW w \in Wrappers \ Tracked, Track(w),
           Tracked' = Tracked \cup {w}
    PROVE  /\ Linked'
           /\ next'[w] = sentinel
           /\ \A n \in Ring : next'[n] = IF next[n] = sentinel THEN w ELSE next[n]
<1>0. /\ sentinel \notin Wrappers /\ sentinel \in Ring /\ w \notin Ring /\ Ring \subseteq Nodes
      /\ w \in Nodes /\ prev[sentinel] \in Ring /\ next[prev[sentinel]] = sentinel
      /\ next \in [Nodes -> Nodes \cup {NULL}] /\ prev \in [Nodes -> Nodes \cup {NULL}]
      /\ Ring' = Ring \cup {w}
  BY ConstantsAssumption DEF TypeOK, Linked, Ring, Tracked, Nodes
<1>1. \A n \in Nodes : next'[n] = IF n = w THEN sentinel
                                  ELSE IF n = prev[sentinel] THEN w ELSE next[n]
  BY <1>0 DEF Track
<1>2. \A n \in Nodes : prev'[n] = IF n = sentinel THEN w
                                  ELSE IF n = w THEN prev[sentinel] ELSE prev[n]
  BY <1>0 DEF Track
<1>3. \A n \in Ring : n = prev[sentinel] <=> next[n] = sentinel
  BY <1>0 DEF Linked
<1>4. \A n \in Ring : next'[n] = IF next[n] = sentinel THEN w ELSE next[n]
  BY <1>0, <1>1, <1>3
<1>5. ASSUME NEW n \in Ring'
      PROVE  /\ next'[n] \in Ring' /\ prev'[n] \in Ring'
             /\ next'[prev'[n]] = n /\ prev'[next'[n]] = n
  <2>1. CASE n = w
    BY <1>0, <1>1, <1>2, <2>1
  <2>2. CASE n \in Ring /\ n = sentinel
    BY <1>0, <1>1, <1>2, <1>4, <2>2 DEF Linked
  <2>3. CASE n \in Ring /\ n # sentinel
    <3>1. next[n] \in Ring /\ prev[n] \in Ring /\ next[prev[n]] = n /\ prev[next[n]] = n
      BY <2>3 DEF Linked
    <3>2. prev'[n] = prev[n] /\ next'[prev[n]] = n
      BY <1>0, <1>2, <1>4, <2>3, <3>1
    <3>3. prev'[next'[n]] = n /\ next'[n] \in Ring'
      BY <1>0, <1>2, <1>4, <2>3, <3>1
    <3> QED
      BY <1>0, <3>1, <3>2, <3>3
  <2> QED
    BY <1>0, <1>5, <2>1, <2>2, <2>3
<1> QED
  BY <1>0, <1>1, <1>4, <1>5 DEF Linked

\* An object is taken out.
LEMMA UntrackLinks ==
    ASSUME TypeOK, Linked, NEW w \in Tracked, Untrack(w), Tracked' = Tracked \ {w},
           NEW R \in SUBSET (Wrappers \X Wrappers), Ordered(R)
    PROVE  /\ Linked'
           /\ \A n \in Ring \ {w} : next'[n] = IF next[n] = w THEN next[w] ELSE next[n]
<1>0. /\ sentinel \notin Wrappers /\ sentinel \in Ring /\ w \in Ring /\ Ring \subseteq Nodes
      /\ w \in Nodes /\ w # sentinel
      /\ next \in [Nodes -> Nodes \cup {NULL}] /\ prev \in [Nodes -> Nodes \cup {NULL}]
      /\ Ring' = Ring \ {w}
  BY ConstantsAssumption DEF TypeOK, Ring, Tracked, Nodes
<1>1. \A n \in Ring : /\ next[n] \in Ring /\ prev[n] \in Ring
                      /\ next[prev[n]] = n /\ prev[next[n]] = n
  BY DEF Linked
<1>2. next[w] # w /\ prev[w] # w
  BY <1>0, <1>1 DEF Ordered
<1>3. \A n \in Nodes : next'[n] = IF n = w THEN NULL
                                  ELSE IF n = prev[w] THEN next[w] ELSE next[n]
  BY <1>0 DEF Untrack
<1>4. \A n \in Nodes : prev'[n] = IF n = w THEN NULL
                                  ELSE IF n = next[w] THEN prev[w] ELSE prev[n]
  BY <1>0 DEF Untrack
<1>5. \A n \in Ring \ {w} : next'[n] = IF next[n] = w THEN next[w] ELSE next[n]
  BY <1>0, <1>1, <1>3
<1>6. ASSUME NEW n \in Ring'
      PROVE  /\ next'[n] \in Ring' /\ prev'[n] \in Ring'
             /\ next'[prev'[n]] = n /\ prev'[next'[n]] = n
  <2>1. n \in Ring /\ n # w
    BY <1>0, <1>6
  <2>2. next'[n] \in Ring' /\ prev'[next'[n]] = n
    BY <1>0, <1>1, <1>2, <1>4, <1>5, <2>1
  <2>3. prev'[n] \in Ring' /\ next'[prev'[n]] = n
    BY <1>0, <1>1, <1>2, <1>3, <1>4, <2>1
  <2> QED
    BY <2>2, <2>3
<1> QED
  BY <1>5, <1>6 DEF Linked

\* The order after an object was appended has it behind all others.
LEMMA TrackOrdered ==
    ASSUME TypeOK, Linked, NEW w \in Wrappers \ Tracked, Track(w),
           Tracked' = Tracked \cup {w},
           NEW R \in SUBSET (Wrappers \X Wrappers), Ordered(R)
    PROVE  \E Q \in SUBSET (Wrappers \X Wrappers) : Ordered(Q)'
<1>0. /\ sentinel \notin Wrappers /\ Tracked \subseteq Wrappers /\ Ring = Tracked \cup {sentinel}
      /\ w \notin Tracked /\ w # sentinel
  BY ConstantsAssumption DEF TypeOK, Tracked, Ring
<1>1. (R \cap (Tracked \X Tracked)) \cup (Tracked \X {w}) \in SUBSET (Wrappers \X Wrappers)
  BY <1>0
<1>q. PICK Q \in SUBSET (Wrappers \X Wrappers) :
             Q = (R \cap (Tracked \X Tracked)) \cup (Tracked \X {w})
  BY <1>1
<1>2. \A u, v : Before(Q, u, v) <=> \/ u \in Tracked /\ v \in Tracked /\ Before(R, u, v)
                                    \/ u \in Tracked /\ v = w
  BY <1>q DEF Before
<1>3. /\ next'[w] = sentinel
      /\ \A n \in Ring : next[n] \in Ring
      /\ \A n \in Ring : next'[n] = IF next[n] = sentinel THEN w ELSE next[n]
  BY TrackLinks DEF Linked
<1>4. \A u \in Tracked' : ~Before(Q, u, u)
  BY <1>0, <1>2 DEF Ordered
<1>5. \A u, v \in Tracked' : u = v \/ Before(Q, u, v) \/ Before(Q, v, u)
  BY <1>0, <1>2 DEF Ordered
<1>6. \A u, v, x \in Tracked' : Before(Q, u, v) /\ Before(Q, v, x) => Before(Q, u, x)
  BY <1>0, <1>2 DEF Ordered
<1>7. ASSUME NEW u \in Tracked', next'[u] \in Tracked'
      PROVE  Before(Q, u, next'[u])
  <2>1. u # w
    BY <1>0, <1>3, <1>7
  <2>2. u \in Tracked /\ u \in Ring
    BY <1>0, <1>7, <2>1
  <2> QED
    BY <1>0, <1>2, <1>3, <2>2 DEF Ordered
<1>8. ASSUME NEW u \in Tracked', NEW v \in Tracked', Before(Q, u, v)
      PROVE  next'[u] = v \/ (next'[u] \in Tracked' /\ Before(Q, next'[u], v))
  <2>1. u \in Tracked /\ u \in Ring
    BY <1>0, <1>2, <1>8
  <2>2. CASE v = w
    BY <1>0, <1>2, <1>3, <2>1, <2>2
  <2>3. CASE v \in Tracked /\ Before(R, u, v)
    <3>1. next[u] = v \/ (next[u] \in Tracked /\ Before(R, next[u], v))
      BY <2>1, <2>3 DEF Ordered
    <3> QED
      BY <1>0, <1>2, <1>3, <2>1, <2>3, <3>1
  <2> QED
    BY <1>2, <1>8, <2>2, <2>3
<1>9. ASSUME NEW v \in Tracked'
      PROVE  \/ next'[sentinel] = v
             \/ next'[sentinel] \in Tracked' /\ Before(Q, next'[sentinel], v)
  <2>1. CASE v = w
    BY <1>0, <1>2, <1>3, <2>1
  <2>2. CASE v \in Tracked
    <3>1. \/ next[sentinel] = v
          \/ next[sentinel] \in Tracked /\ Before(R, next[sentinel], v)
      BY <2>2 DEF Ordered
    <3> QED
      BY <1>0, <1>2, <1>3, <2>2, <3>1
  <2> QED
    BY <1>9, <2>1, <2>2
<1>10. Ordered(Q)'
  BY <1>4, <1>5, <1>6, <1>7, <1>8, <1>9 DEF Ordered, Before
<1> QED
  BY <1>10

\* Without the object the others are in the same order.
LEMMA UntrackOrdered ==
    ASSUME TypeOK, Linked, NEW w \in Tracked, Untrack(w), Tracked' = Tracked \ {w},
           NEW R \in SUBSET (Wrappers \X Wrappers), Ordered(R)
    PROVE  Ordered(R)'
<1>0. /\ sentinel \notin Wrappers /\ Tracked \subseteq Wrappers /\ Ring = Tracked \cup {sentinel}
      /\ w \in Tracked /\ w # sentinel
  BY ConstantsAssumption DEF TypeOK, Tracked, Ring
<1>1. /\ \A n \in Ring : next[n] \in Ring
      /\ \A n \in Ring \ {w} : next'[n] = IF next[n] = w THEN next[w] ELSE next[n]
  BY UntrackLinks DEF Linked
<1>2. next[w] # w
  BY <1>0 DEF Ordered
<1>3. ASSUME NEW u \in Tracked', next'[u] \in Tracked'
      PROVE  Before(R, u, next'[u])
  <2>1. u \in Tracked /\ u # w /\ u \in Ring
    BY <1>0, <1>3
  <2>2. CASE next[u] = w
    BY <1>0, <1>1, <1>3, <2>1, <2>2 DEF Ordered
  <2>3. CASE next[u] # w
    BY <1>0, <1>1, <1>3, <2>1, <2>3 DEF Ordered
  <2> QED
    BY <2>2, <2>3
<1>4. ASSUME NEW u \in Ring \ {w}, NEW v \in Tracked',
             next[u] = v \/ (next[u] \in Tracked /\ Before(R, next[u], v))
      PROVE  next'[u] = v \/ (next'[u] \in Tracked' /\ Before(R, next'[u], v))
  <2>1. CASE next[u] = w
    <3>1. Before(R, w, v) /\ next'[u] = next[w]
      BY <1>0, <1>1, <1>4, <2>1
    <3>2. next[w] = v \/ (next[w] \in Tracked /\ Before(R, next[w], v))
      BY <1>0, <3>1 DEF Ordered
    <3> QED
      BY <1>2, <3>1, <3>2
  <2>2. CASE next[u] # w
    BY <1>1, <1>4, <2>2
  <2> QED
    BY <2>1, <2>2
<1>5. \A u, v \in Tracked' :
          Before(R, u, v) => next'[u] = v \/ (next'[u] \in Tracked' /\ Before(R, next'[u], v))
  BY <1>0, <1>4 DEF Ordered
<1>6. \A v \in Tracked' : \/ next'[sentinel] = v
                          \/ next'[sentinel] \in Tracked' /\ Before(R, next'[sentinel], v)
  BY <1>0, <1>4 DEF Ordered
<1>7. /\ \A u \in Tracked' : ~Before(R, u, u)
      /\ \A u, v \in Tracked' : u = v \/ Before(R, u, v) \/ Before(R, v, u)
      /\ \A u, v, x \in Tracked' : Before(R, u, v) /\ Before(R, v, x) => Before(R, u, x)
  BY DEF Ordered
<1> QED
  BY <1>3, <1>5, <1>6, <1>7 DEF Ordered, Before

\* The steps of the walk.
LEMMA WalkSteps ==
    ASSUME TypeOK, Linked, NEW R \in SUBSET (Wrappers \X Wrappers), Ordered(R),
           Walked(R), WrapsTracked, AllMarked,
           UNCHANGED list, Tracked' = Tracked, GgcStart \/ Collector
    PROVE  Walked(R)' /\ AllMarked'
<1>0. /\ sentinel \notin Wrappers /\ Tracked \subseteq Wrappers /\ Ring = Tracked \cup {sentinel}
      /\ roots \in SUBSET Addrs /\ refs \in [Addrs -> Addrs \cup {NULL}] /\ NULL \notin Addrs
      /\ wraps \in [Wrappers -> Addrs \cup {NULL}] /\ live \subseteq Wrappers
  BY ConstantsAssumption DEF TypeOK, Tracked, Ring
<1>1. \A n \in Ring : next[n] \in Ring
  BY DEF Linked
<1>2. CASE GgcMarkRoots
  <2>1. Closed(refs, marked') /\ roots \subseteq marked'
    BY <1>0, <1>2, ReachClosed DEF GgcMarkRoots, HeapReach
  <2>2. \A v \in Tracked : ~(iter' = sentinel \/ Before(R, v, iter'))
    <3>1. iter' = next[sentinel] /\ iter' \in Ring
      BY <1>0, <1>1, <1>2 DEF GgcMarkRoots
    <3> QED
      BY <1>0, <3>1 DEF Ordered
  <2>3. iter' \in Ring
    BY <1>0, <1>1, <1>2 DEF GgcMarkRoots
  <2> QED
    BY <1>2, <2>1, <2>2, <2>3 DEF GgcMarkRoots, Walked, AllMarked, MarkedClosed, Ring, heap, python
<1>3. CASE WalkStep
  <2> DEFINE new == HeapReach({wraps[iter]} \ {NULL})
  <2>1. /\ iter \in Tracked /\ Closed(refs, marked) /\ roots \subseteq marked
        /\ \A v \in Tracked : Before(R, v, iter) /\ wraps[v] # NULL => wraps[v] \in marked
    BY <1>0, <1>3 DEF WalkStep, Walked, MarkedClosed
  <2>2. Closed(refs, new) /\ {wraps[iter]} \ {NULL} \subseteq new
    BY <1>0, <2>1, ReachClosed DEF HeapReach
  <2>3. marked' = marked \cup new /\ iter' = next[iter]
    BY <1>3 DEF WalkStep
  <2> HIDE DEF new
  <2>4. Closed(refs, marked') /\ roots \subseteq marked'
    BY <2>1, <2>2, <2>3 DEF Closed
  <2>5. \A v \in Tracked : iter' = sentinel \/ Before(R, v, iter') => v = iter \/ Before(R, v, iter)
    BY <1>0, <1>1, <2>1, <2>3 DEF Ordered
  <2>6. \A v \in Tracked : (iter' = sentinel \/ Before(R, v, iter')) /\ wraps[v] # NULL
                              => wraps[v] \in marked'
    BY <2>1, <2>2, <2>3, <2>5
  <2>7. iter' \in Ring
    BY <1>0, <1>1, <2>1, <2>3
  <2> QED
    BY <1>3, <2>4, <2>6, <2>7 DEF WalkStep, Walked, AllMarked, MarkedClosed, Ring, heap, python
<1>4. CASE WalkEnd
  <2>1. MarkedClosed /\ \A v \in Tracked : wraps[v] # NULL => wraps[v] \in marked
    BY <1>4 DEF WalkEnd, Walked
  <2>2. \A v \in live : wraps[v] # NULL => v \in Tracked
    BY DEF WrapsTracked, Tracked
  <2> QED
    BY <1>4, <2>1, <2>2 DEF WalkEnd, Walked, AllMarked, MarkedClosed, heap, python
<1>5. CASE GgcSweep \/ GgcStart
  BY <1>5 DEF GgcSweep, GgcStart, Walked, AllMarked
<1> QED
  BY <1>2, <1>3, <1>4, <1>5 DEF Collector

\* Only the collector walks.
LEMMA PhaseSteps ==
    ASSUME [Next]_vars
    PROVE  GgcStart \/ Collector \/ UNCHANGED vars \/ (phase # "walk" /\ phase' = phase)
BY DEF Next, PythonRuns, WrapCached, WrapNew, WrapUncached, WrapPass, PassAgain, Construct,
       ObjectInit, Decref, WrapAgain, GccNew, GccForget, GccAssign, gc

\* The list is in order after every step, and what the walk has passed is marked.
LEMMA NextOrdered ==
    ASSUME AllowReinit = FALSE, TypeOK, FreeIsClear, WrapsTracked, Linked, AllMarked,
           ListOrdered, [Next]_vars
    PROVE  Linked' /\ ListOrdered'
<1>1. PICK R \in SUBSET (Wrappers \X Wrappers) : Ordered(R) /\ Walked(R)
  BY DEF ListOrdered
<1>2. CASE UNCHANGED list /\ Tracked' = Tracked
  <2>1. Linked' /\ Ordered(R)'
    BY <1>1, <1>2 DEF Linked, Ordered, Before, Ring, list
  <2>2. CASE GgcStart \/ Collector
    BY <1>1, <1>2, <2>1, <2>2, WalkSteps DEF ListOrdered
  <2>3. CASE UNCHANGED vars
    <3>1. Walked(R)'
      BY <1>1, <1>2, <2>3 DEF Walked, Before, MarkedClosed, Ring, vars, heap, gc, python
    <3> QED
      BY <2>1, <3>1 DEF ListOrdered
  <2>4. CASE phase # "walk" /\ phase' = phase
    <3>1. Walked(R)'
      BY <2>4 DEF Walked
    <3> QED
      BY <2>1, <3>1 DEF ListOrdered
  <2> QED
    BY <2>2, <2>3, <2>4, PhaseSteps
<1>3. ASSUME phase # "walk", phase' = phase, NEW w \in Wrappers \ Tracked, Track(w),
             Tracked' = Tracked \cup {w}
      PROVE  Linked' /\ ListOrdered'
  <2>1. PICK Q \in SUBSET (Wrappers \X Wrappers) : Ordered(Q)'
    BY <1>1, <1>3, TrackOrdered
  <2>2. Walked(Q)'
    BY <1>3 DEF Walked
  <2> QED
    BY <1>3, <2>1, <2>2, TrackLinks DEF ListOrdered
<1>4. ASSUME phase # "walk", phase' = phase, NEW w \in Tracked, Untrack(w),
             Tracked' = Tracked \ {w}
      PROVE  Linked' /\ ListOrdered'
  <2>1. Ordered(R)' /\ Linked'
    BY <1>1, <1>4, UntrackOrdered, UntrackLinks
  <2>2. Walked(R)'
    BY <1>4 DEF Walked
  <2> QED
    BY <2>1, <2>2 DEF ListOrdered
<1> QED
  BY <1>2, <1>3, <1>4, ListSteps

-----------------------------------------------------------------------------
(***************************************************************************)
(* The fields of the objects, the caches and the heap.                     *)
(***************************************************************************)
\* The types of wr_next and wr_prev are kept, and the walk stays on the list.
LEMMA NextListType ==
    ASSUME AllowReinit = FALSE, TypeOK, FreeIsClear, Linked, [Next]_vars
    PROVE  /\ next' \in [Nodes -> Nodes \cup {NULL}] /\ prev' \in [Nodes -> Nodes \cup {NULL}]
<1>0. /\ sentinel \in Nodes /\ Tracked \subseteq Nodes /\ Wrappers \subseteq Nodes
      /\ next \in [Nodes -> Nodes \cup {NULL}] /\ prev \in [Nodes -> Nodes \cup {NULL}]
  BY DEF TypeOK, Tracked, Nodes
<1>1. CASE UNCHANGED list
  BY <1>0, <1>1 DEF list
<1>2. ASSUME NEW w \in Nodes, Track(w) \/ Untrack(w)
      PROVE  /\ next' \in [Nodes -> Nodes \cup {NULL}] /\ prev' \in [Nodes -> Nodes \cup {NULL}]
  <2>1. next[w] \in Nodes \cup {NULL} /\ prev[w] \in Nodes \cup {NULL}
        /\ prev[sentinel] \in Nodes \cup {NULL}
    BY <1>0
  <2> QED
    BY <1>0, <1>2, <2>1 DEF Track, Untrack
<1> QED
  BY <1>0, <1>1, <1>2, ListSteps

\* An object that Python code may ask a wrapper of exists, and after the walk
\* it is marked.
LEMMA AccessibleExists ==
    ASSUME TypeOK, WrapsTracked, Closed(refs, alive), AllMarked, NEW a \in Accessible
    PROVE  a \in alive /\ (phase = "marking" => a \in marked)
<1> DEFINE S == roots \cup ({wraps[w] : w \in {v \in live : pyrefs[v] > 0}} \ {NULL})
<1>1. S \subseteq alive /\ alive \in SUBSET Addrs
  BY DEF TypeOK, WrapsTracked
<1>2. phase = "marking" => S \subseteq marked /\ marked \in SUBSET Addrs /\ Closed(refs, marked)
  BY DEF TypeOK, AllMarked, MarkedClosed
<1>3. a \in Reach(refs, Addrs, S)
  BY DEF Accessible, HeapReach
<1> HIDE DEF S
<1> QED
  BY <1>1, <1>2, <1>3, ReachLeast

\* What a new wrapper keeps, of an object that exists and, if the collector has
\* marked, is marked.
LEMMA NewWrapperKeeps ==
    ASSUME TypeOK, FreeIsClear, WrapsTracked, Linked,
           NEW w \in Wrappers, NEW a \in Addrs \cup {NULL}, NewWrapper(w, a),
           a # NULL => a \in alive', alive \subseteq alive'
    PROVE  /\ FreeIsClear' /\ WrapsTracked'
           /\ live' = live \cup {w} /\ w \notin live
           /\ live' \subseteq Wrappers /\ wraps' \in [Wrappers -> Addrs \cup {NULL}]
           /\ pyrefs' \in [Wrappers -> 0..MaxRefs]
           /\ wraps'[w] = a /\ \A v \in live : wraps'[v] = wraps[v]
<1>0. /\ sentinel \notin Wrappers /\ Wrappers \subseteq Nodes /\ sentinel \in Nodes
      /\ 1 \in 0..MaxRefs /\ w \notin live /\ live' = live \cup {w} /\ NULL \notin Nodes
      /\ prev \in [Nodes -> Nodes \cup {NULL}] /\ live \subseteq Wrappers
      /\ wraps \in [Wrappers -> Addrs \cup {NULL}] /\ wraps' = [wraps EXCEPT ![w] = a]
      /\ pyrefs \in [Wrappers -> 0..MaxRefs] /\ pyrefs' = [pyrefs EXCEPT ![w] = 1]
  BY ConstantsAssumption DEF TypeOK, NewWrapper, Nodes
<1>1. prev[sentinel] # NULL
  BY <1>0 DEF Linked, Ring, Tracked
<1>2. prev'[w] # NULL /\ \A v \in Wrappers \ {w} : prev'[v] = prev[v]
  <2>1. prev' = [prev EXCEPT ![w] = prev[sentinel], ![sentinel] = w]
    BY DEF NewWrapper, Track
  <2> QED
    BY <1>0, <1>1, <2>1
<1>3. /\ live' \subseteq Wrappers /\ wraps' \in [Wrappers -> Addrs \cup {NULL}]
      /\ pyrefs' \in [Wrappers -> 0..MaxRefs]
      /\ wraps'[w] = a /\ \A v \in Wrappers \ {w} : wraps'[v] = wraps[v]
  BY <1>0
<1>4. FreeIsClear'
  BY <1>0, <1>2, <1>3 DEF FreeIsClear
<1>5. WrapsTracked'
  BY <1>0, <1>2, <1>3 DEF WrapsTracked
<1> QED
  BY <1>0, <1>3, <1>4, <1>5

\* What every step keeps, beside the list.
Rest ==
    /\ live \subseteq Wrappers /\ own \subseteq live /\ passes \subseteq own
    /\ pyrefs \in [Wrappers -> 0..MaxRefs]
    /\ wraps \in [Wrappers -> Addrs \cup {NULL}]
    /\ cache \in [Addrs -> Wrappers \cup {NULL}]
    /\ alive \subseteq Addrs /\ refs \in [Addrs -> Addrs \cup {NULL}] /\ roots \subseteq alive
    /\ phase \in {"run", "start", "walk", "marking"}
    /\ marked \subseteq Addrs /\ iter \in Nodes
    /\ FreeIsClear /\ WrapsTracked /\ CacheOfLive /\ Closed(refs, alive) /\ AllMarked

\* A new wrapper and the caches it may be entered in.
LEMMA NextRestNew ==
    ASSUME IInv, Rest, NEW w \in Wrappers, NEW a \in Addrs \cup {NULL},
           PythonRuns, NewWrapper(w, a),
           \/ a = NULL /\ UNCHANGED <<heap, marked>>
           \/ a \in Accessible /\ UNCHANGED <<heap, marked>>
           \/ /\ a \in Addrs \ alive /\ alive' = alive \cup {a} /\ roots' = roots
              /\ \E v \in live : wraps[v] # NULL /\ refs' = [refs EXCEPT ![a] = wraps[v]]
              /\ marked' = IF phase = "marking" THEN marked \cup {a} ELSE marked,
           cache' = cache \/ (a \in Addrs /\ cache[a] = NULL /\ cache' = [cache EXCEPT ![a] = w]),
           \/ own' = own /\ passes' = passes
           \/ own' = own \cup {w} /\ passes' = passes \cup {w},
           UNCHANGED <<phase, iter>>
    PROVE  Rest'
<1> USE DEF Rest
<1>0. NULL \notin Addrs /\ alive \subseteq alive' /\ a # NULL => a \in Addrs
  BY ConstantsAssumption DEF heap
<1>1. /\ a # NULL => a \in alive' /\ (phase = "marking" => a \in marked')
      /\ alive \subseteq alive' /\ marked \subseteq marked'
  <2>1. CASE a = NULL /\ UNCHANGED <<heap, marked>>
    BY <2>1 DEF heap
  <2>2. CASE a \in Accessible /\ UNCHANGED <<heap, marked>>
    BY <2>2, AccessibleExists DEF heap, IInv, Fields
  <2>3. CASE /\ a \in Addrs \ alive /\ alive' = alive \cup {a}
             /\ marked' = IF phase = "marking" THEN marked \cup {a} ELSE marked
    BY <2>3
  <2> QED
    BY <2>1, <2>2, <2>3
<1>2. /\ FreeIsClear' /\ WrapsTracked' /\ live' = live \cup {w} /\ w \notin live
      /\ live' \subseteq Wrappers /\ wraps' \in [Wrappers -> Addrs \cup {NULL}]
      /\ pyrefs' \in [Wrappers -> 0..MaxRefs]
      /\ wraps'[w] = a /\ \A v \in live : wraps'[v] = wraps[v]
  BY <1>1, NewWrapperKeeps DEF IInv, Fields
<1>3. /\ alive' \subseteq Addrs /\ refs' \in [Addrs -> Addrs \cup {NULL}]
      /\ roots' \subseteq alive' /\ roots' = roots /\ marked' \subseteq Addrs
  BY DEF heap
<1>4. /\ Closed(refs, alive)'
      /\ phase = "marking" => Closed(refs, marked)'
  <2>1. CASE UNCHANGED <<heap, marked>>
    BY <2>1 DEF heap, Closed, AllMarked, MarkedClosed
  <2>2. ASSUME a \in Addrs \ alive, alive' = alive \cup {a}, NEW v \in live, wraps[v] # NULL,
               refs' = [refs EXCEPT ![a] = wraps[v]],
               marked' = IF phase = "marking" THEN marked \cup {a} ELSE marked
        PROVE  /\ Closed(refs, alive)'
               /\ phase = "marking" => Closed(refs, marked)'
    <3>1. wraps[v] \in alive /\ (phase = "marking" => wraps[v] \in marked)
      BY <2>2 DEF WrapsTracked, AllMarked
    <3>2. \A d \in Addrs : refs'[d] = IF d = a THEN wraps[v] ELSE refs[d]
      BY <2>2
    <3>3. Closed(refs, alive)'
      BY <2>2, <3>1, <3>2 DEF Closed
    <3>4. phase = "marking" => Closed(refs, marked)'
      BY <2>2, <3>1, <3>2 DEF Closed, AllMarked, MarkedClosed
    <3> QED
      BY <3>3, <3>4
  <2> QED
    BY <2>1, <2>2
<1>5. AllMarked'
  BY <1>1, <1>2, <1>3, <1>4 DEF AllMarked, MarkedClosed
<1>6. cache' \in [Addrs -> Wrappers \cup {NULL}] /\ CacheOfLive'
  <2>1. CASE cache' = cache
    BY <1>2, <2>1 DEF CacheOfLive
  <2>2. CASE a \in Addrs /\ cache' = [cache EXCEPT ![a] = w]
    BY <1>2, <2>2 DEF CacheOfLive
  <2> QED
    BY <2>1, <2>2
<1>7. own' \subseteq live' /\ passes' \subseteq own'
  BY <1>2
<1> QED
  BY <1>2, <1>3, <1>4, <1>5, <1>6, <1>7

\* Every step keeps the rest.
LEMMA NextRest ==
    ASSUME AllowReinit = FALSE, IInv, [Next]_vars
    PROVE  Rest'
<1>0. /\ Rest /\ NULL \notin Addrs /\ sentinel \notin Wrappers
      /\ prev \in [Nodes -> Nodes \cup {NULL}] /\ Wrappers \subseteq Nodes /\ sentinel \in Nodes
      /\ NULL \notin Nodes /\ MaxRefs \in Nat
  BY ConstantsAssumption DEF IInv, Fields, TypeOK, Rest, Nodes
<1>1. ASSUME NEW w \in Wrappers, NEW a \in Addrs, WrapCached(w, a)
      PROVE  Rest'
  <2>1. PythonRuns /\ NewWrapper(w, a) /\ a \in Accessible /\ UNCHANGED <<own, passes, heap, gc>>
        /\ cache[a] = NULL /\ cache' = [cache EXCEPT ![a] = w]
    BY <1>1 DEF WrapCached
  <2> QED
    BY <1>0, <2>1, NextRestNew DEF gc
<1>2. ASSUME NEW w \in Wrappers, NEW a \in Addrs, WrapNew(w, a)
      PROVE  Rest'
  <2>1. /\ PythonRuns /\ NewWrapper(w, a) /\ a \in Addrs \ alive /\ alive' = alive \cup {a}
        /\ UNCHANGED <<own, passes, roots, phase, iter>>
        /\ cache[a] = NULL /\ cache' = [cache EXCEPT ![a] = w]
        /\ \E v \in live : wraps[v] # NULL /\ refs' = [refs EXCEPT ![a] = wraps[v]]
        /\ marked' = IF phase = "marking" THEN marked \cup {a} ELSE marked
    BY <1>2 DEF WrapNew
  <2> QED
    BY <1>0, <2>1, NextRestNew
<1>3. ASSUME NEW w \in Wrappers, NEW a \in Addrs \cup {NULL}, WrapUncached(w, a)
      PROVE  Rest'
  <2>1. PythonRuns /\ NewWrapper(w, a) /\ (a \in Accessible \/ a = NULL)
        /\ UNCHANGED <<own, passes, cache, heap, gc>>
    BY <1>3 DEF WrapUncached
  <2> QED
    BY <1>0, <2>1, NextRestNew DEF gc
<1>4. ASSUME NEW w \in Wrappers, WrapPass(w)
      PROVE  Rest'
  <2>1. PythonRuns /\ NewWrapper(w, NULL) /\ UNCHANGED <<cache, heap, gc>>
        /\ own' = own \cup {w} /\ passes' = passes \cup {w}
    BY <1>4 DEF WrapPass
  <2> QED
    BY <1>0, <2>1, NextRestNew DEF gc
<1>5. ASSUME NEW w \in Wrappers, pyrefs[w] < MaxRefs, pyrefs' = [pyrefs EXCEPT ![w] = @ + 1],
             UNCHANGED <<list, live, own, wraps, cache, passes, heap, gc>>
      PROVE  Rest'
  <2>1. pyrefs' \in [Wrappers -> 0..MaxRefs]
    BY <1>0, <1>5 DEF Rest
  <2> QED
    BY <1>0, <1>5, <2>1 DEF Rest, FreeIsClear, WrapsTracked, CacheOfLive, Closed, AllMarked,
                            MarkedClosed, list, heap, gc
<1>6. ASSUME NEW w \in Wrappers, PassAgain(w)
      PROVE  Rest'
  BY <1>5, <1>6 DEF PassAgain
<1>7. ASSUME NEW a \in Addrs, WrapAgain(a)
      PROVE  Rest'
  <2>1. cache[a] \in Wrappers
    BY <1>0, <1>7 DEF WrapAgain, Rest
  <2> QED
    BY <1>5, <1>7, <2>1 DEF WrapAgain
<1>8. ASSUME NEW w \in Wrappers, Construct(w)
      PROVE  Rest'
  <2>1. /\ w \notin live /\ live' = live \cup {w} /\ own' = own \cup {w}
        /\ pyrefs' = [pyrefs EXCEPT ![w] = 1] /\ wraps[w] = NULL
        /\ UNCHANGED <<list, wraps, cache, passes, heap, gc>>
    BY <1>0, <1>8 DEF Construct, Rest, FreeIsClear
  <2>2. pyrefs' \in [Wrappers -> 0..MaxRefs]
    BY <1>0, <2>1, ConstantsAssumption DEF Rest
  <2> QED
    BY <1>0, <2>1, <2>2 DEF Rest, FreeIsClear, WrapsTracked, CacheOfLive, Closed, AllMarked,
                            MarkedClosed, list, heap, gc
<1>9. ASSUME NEW w \in Wrappers, ObjectInit(w)
      PROVE  Rest'
  <2>1. /\ w \in own /\ passes' \in {passes, passes \cup {w}}
        /\ UNCHANGED <<live, own, pyrefs, wraps, cache, heap, gc>>
    BY <1>9 DEF ObjectInit
  <2>2. prev[sentinel] # NULL
    BY <1>0 DEF IInv, Linked, Ring, Tracked, Rest
  <2>3. \A v \in Wrappers : v # w => prev'[v] = prev[v]
    BY <1>0, <1>9 DEF ObjectInit, Track
  <2>4. prev'[w] # NULL
    BY <1>0, <1>9, <2>2 DEF ObjectInit, Track
  <2>5. FreeIsClear' /\ WrapsTracked'
    BY <1>0, <2>1, <2>3, <2>4 DEF Rest, FreeIsClear, WrapsTracked, heap
  <2> QED
    BY <1>0, <2>1, <2>5 DEF Rest, CacheOfLive, Closed, AllMarked, MarkedClosed, heap, gc
<1>10. ASSUME NEW w \in Wrappers, Decref(w)
      PROVE  Rest'
  <2>1. /\ w \in live /\ pyrefs' = [pyrefs EXCEPT ![w] = @ - 1] /\ pyrefs[w] > 0
        /\ UNCHANGED <<cache, passes, heap, gc>>
    BY <1>10 DEF Decref
  <2>2. pyrefs' \in [Wrappers -> 0..MaxRefs]
    BY <1>0, <2>1 DEF Rest
  <2>3. CASE ~LastRef(w)
    <3>1. UNCHANGED <<list, live, own, wraps>>
      BY <1>10, <2>3 DEF Decref
    <3> QED
      BY <1>0, <2>1, <2>2, <3>1 DEF Rest, FreeIsClear, WrapsTracked, CacheOfLive, Closed,
                                    AllMarked, MarkedClosed, list, heap, gc
  <2>4. CASE LastRef(w)
    <3>1. /\ live' = live \ {w} /\ own' = own \ {w} /\ wraps' = [wraps EXCEPT ![w] = NULL]
          /\ w \notin passes /\ \A a \in Addrs : cache[a] # w
      BY <1>10, <2>4 DEF Decref, LastRef, Cached
    <3>2. prev'[w] = NULL
      <4>1. CASE prev[w] = NULL
        BY <1>10, <2>4, <4>1 DEF Decref, list
      <4>2. CASE prev[w] # NULL
        BY <1>0, <1>10, <2>4, <4>2 DEF Decref, Untrack
      <4> QED
        BY <4>1, <4>2
    <3>3. \A v \in Wrappers \ {w} : prev'[v] = NULL <=> prev[v] = NULL
      <4>1. CASE prev[w] = NULL
        BY <1>10, <2>4, <4>1 DEF Decref, list
      <4>2. CASE prev[w] # NULL
        <5>1. w \in Ring
          BY <2>1, <4>2 DEF Ring, Tracked
        <5>2. next[w] \in Ring /\ prev[next[w]] = w
          BY <5>1 DEF IInv, Linked
        <5>3. prev' = [[prev EXCEPT ![next[w]] = prev[w]] EXCEPT ![w] = NULL]
          BY <1>10, <2>4, <4>2 DEF Decref, Untrack
        <5>4. prev[next[w]] # NULL
          BY <1>0, <5>2
        <5> QED
          BY <1>0, <4>2, <5>3, <5>4
      <4> QED
        BY <4>1, <4>2
    <3>4. wraps' \in [Wrappers -> Addrs \cup {NULL}] /\ wraps'[w] = NULL
          /\ \A v \in Wrappers \ {w} : wraps'[v] = wraps[v]
      BY <1>0, <3>1 DEF Rest
    <3>5. FreeIsClear' /\ WrapsTracked'
      BY <1>0, <2>1, <3>1, <3>2, <3>3, <3>4 DEF Rest, FreeIsClear, WrapsTracked, heap
    <3>6. CacheOfLive' /\ AllMarked'
      BY <1>0, <2>1, <3>1, <3>4 DEF Rest, CacheOfLive, AllMarked, MarkedClosed, Closed, heap, gc
    <3> QED
      BY <1>0, <2>1, <2>2, <3>1, <3>4, <3>5, <3>6 DEF Rest, Closed, heap, gc
  <2> QED
    BY <2>3, <2>4
<1>11. ASSUME NEW a \in Addrs, GccNew(a)
      PROVE  Rest'
  <2>1. /\ phase = "run" /\ alive' = alive \cup {a} /\ roots' = roots \cup {a}
        /\ refs' = [refs EXCEPT ![a] = NULL] /\ UNCHANGED <<list, python, gc>>
    BY <1>11 DEF GccNew
  <2>2. Closed(refs, alive)'
    BY <1>0, <2>1 DEF Rest, Closed
  <2> QED
    BY <1>0, <2>1, <2>2 DEF Rest, FreeIsClear, WrapsTracked, CacheOfLive, AllMarked, list, python, gc
<1>12. ASSUME NEW a \in Addrs, GccForget(a)
      PROVE  Rest'
  BY <1>0, <1>12 DEF GccForget, Rest, FreeIsClear, WrapsTracked, CacheOfLive, AllMarked, Closed,
                     list, python, gc
<1>13. ASSUME NEW a \in Addrs, NEW b \in Addrs \cup {NULL}, GccAssign(a, b)
      PROVE  Rest'
  <2>1. /\ phase = "run" /\ refs' = [refs EXCEPT ![a] = b]
        /\ UNCHANGED <<list, python, alive, roots, gc>>
        /\ b \in HeapReach(roots) \cup {NULL}
    BY <1>13 DEF GccAssign
  <2>2. HeapReach(roots) \subseteq alive
    BY <1>0, ReachLeast DEF Rest, HeapReach
  <2>3. Closed(refs, alive)'
    BY <1>0, <2>1, <2>2 DEF Rest, Closed
  <2> QED
    BY <1>0, <2>1, <2>3 DEF Rest, FreeIsClear, WrapsTracked, CacheOfLive, AllMarked, list, python, gc
<1>14. ASSUME GgcStart \/ GgcMarkRoots \/ WalkEnd
      PROVE  FreeIsClear' /\ WrapsTracked' /\ CacheOfLive' /\ Closed(refs, alive)'
  BY <1>0, <1>14 DEF GgcStart, GgcMarkRoots, WalkEnd, Rest, FreeIsClear, WrapsTracked, CacheOfLive,
                     Closed, list, python, heap
<1>15. ASSUME GgcStart \/ Collector
      PROVE  AllMarked' /\ iter' \in Nodes /\ marked' \subseteq Addrs
  <2>1. PICK R \in SUBSET (Wrappers \X Wrappers) : Ordered(R) /\ Walked(R)
    BY DEF IInv, ListOrdered
  <2>2. UNCHANGED list /\ Tracked' = Tracked
    BY <1>15 DEF GgcStart, Collector, GgcMarkRoots, WalkStep, WalkEnd, GgcSweep, list, python, Tracked
  <2>3. Walked(R)' /\ AllMarked'
    BY <1>15, <2>1, <2>2, WalkSteps DEF IInv, Fields
  <2>4. iter' \in Nodes
    <3>1. Ring \subseteq Nodes /\ sentinel \in Ring /\ \A n \in Ring : next[n] \in Ring
      BY <1>0 DEF IInv, Linked, Ring, Tracked, Rest, Nodes
    <3>2. phase = "walk" => iter \in Ring
      BY <2>1 DEF Walked
    <3> QED
      BY <1>0, <1>15, <3>1, <3>2 DEF GgcStart, Collector, GgcMarkRoots, WalkStep, WalkEnd, GgcSweep, Rest
  <2>5. marked' \subseteq Addrs
    BY <1>0, <1>15 DEF GgcStart, Collector, GgcMarkRoots, WalkStep, WalkEnd, GgcSweep, Rest,
                       HeapReach, Reach
  <2> QED
    BY <2>3, <2>4, <2>5
<1>16. ASSUME GgcSweep
      PROVE  FreeIsClear' /\ WrapsTracked' /\ CacheOfLive' /\ Closed(refs, alive)' /\ roots' \subseteq alive'
  <2>1. /\ alive' = alive \cap marked /\ UNCHANGED <<list, python, refs, roots>>
        /\ MarkedClosed /\ \A w \in live : wraps[w] # NULL => wraps[w] \in marked
    BY <1>0, <1>16 DEF GgcSweep, AllMarked, Rest
  <2>2. Closed(refs, alive)' /\ roots' \subseteq alive'
    BY <1>0, <2>1 DEF Rest, Closed, MarkedClosed
  <2>3. FreeIsClear' /\ WrapsTracked' /\ CacheOfLive'
    BY <1>0, <2>1 DEF Rest, FreeIsClear, WrapsTracked, CacheOfLive, list, python
  <2> QED
    BY <2>2, <2>3
<1>17. ASSUME GgcStart \/ Collector
      PROVE  Rest'
  <2>1. CASE GgcStart \/ GgcMarkRoots \/ WalkEnd
    BY <1>0, <1>14, <1>15, <1>17, <2>1 DEF GgcStart, GgcMarkRoots, WalkEnd, Rest, python, heap
  <2>2. CASE WalkStep
    <3>1. FreeIsClear' /\ WrapsTracked' /\ CacheOfLive' /\ Closed(refs, alive)'
      BY <1>0, <2>2 DEF WalkStep, Rest, FreeIsClear, WrapsTracked, CacheOfLive, Closed, list, python, heap
    <3> QED
      BY <1>0, <1>15, <1>17, <2>2, <3>1 DEF WalkStep, Rest, python, heap
  <2>3. CASE GgcSweep
    BY <1>0, <1>15, <1>16, <1>17, <2>3 DEF GgcSweep, Rest, python
  <2> QED
    BY <1>17, <2>1, <2>2, <2>3 DEF Collector
<1>18. CASE UNCHANGED vars
  BY <1>0, <1>18 DEF Rest, FreeIsClear, WrapsTracked, CacheOfLive, Closed, AllMarked, MarkedClosed,
                     vars, list, python, heap, gc
<1> QED
  BY <1>1, <1>2, <1>3, <1>4, <1>6, <1>7, <1>8, <1>9, <1>10, <1>11, <1>12, <1>13, <1>17, <1>18
  DEF Next

\* Initially the list is empty.
LEMMA InitInv == Init => IInv
<1> SUFFICES ASSUME Init PROVE IInv
  OBVIOUS
<1>0. /\ sentinel \notin Wrappers /\ NULL \notin Nodes \cup Addrs /\ MaxRefs \in Nat \ {0}
      /\ Nodes = Wrappers \cup {sentinel}
  BY ConstantsAssumption DEF Nodes
<1>1. /\ live = {} /\ Tracked = {} /\ Ring = {sentinel}
      /\ next[sentinel] = sentinel /\ prev[sentinel] = sentinel
      /\ \A w \in Wrappers : prev[w] = NULL /\ wraps[w] = NULL
  BY <1>0 DEF Init, Tracked, Ring
<1>2. TypeOK
  BY <1>0 DEF Init, TypeOK
<1>3. FreeIsClear /\ WrapsTracked /\ CacheOfLive /\ Closed(refs, alive) /\ AllMarked
  BY <1>1 DEF Init, FreeIsClear, WrapsTracked, CacheOfLive, Closed, AllMarked
<1>4. Linked
  BY <1>1 DEF Linked
<1>5. Ordered({}) /\ Walked({})
  BY <1>1 DEF Init, Ordered, Walked
<1>6. ListOrdered
  <2>1. {} \in SUBSET (Wrappers \X Wrappers)
    OBVIOUS
  <2> QED
    BY <1>5, <2>1 DEF ListOrdered
<1> QED
  BY <1>2, <1>3, <1>4, <1>6 DEF IInv, Fields

\* Every step keeps the invariant.
LEMMA NextInv ==
    ASSUME AllowReinit = FALSE, IInv, [Next]_vars
    PROVE  IInv'
<1>1. Rest'
  BY NextRest
<1>2. Linked' /\ ListOrdered'
  BY NextOrdered DEF IInv, Fields
<1>3. (next \in [Nodes -> Nodes \cup {NULL}] /\ prev \in [Nodes -> Nodes \cup {NULL}])'
  BY NextListType DEF IInv, Fields
<1>4. TypeOK'
  BY <1>1, <1>3 DEF TypeOK, Rest
<1> QED
  BY <1>1, <1>2, <1>4 DEF IInv, Fields, Rest

\* Invariant: IInv is one.
THEOREM Invariant ==
    ASSUME AllowReinit = FALSE
    PROVE  Spec => []IInv
<1>1. IInv /\ [Next]_vars => IInv'
  BY NextInv
<1> QED
  BY InitInv, <1>1, PTL DEF Spec

-----------------------------------------------------------------------------
(***************************************************************************)
(* What follows from the invariant.                                        *)
(***************************************************************************)
\* WrappersTyped: every variable has its type, for every number of wrappers.
THEOREM WrappersTyped ==
    ASSUME AllowReinit = FALSE
    PROVE  Spec => []TypeOK
<1>1. IInv => TypeOK
  BY DEF IInv, Fields
<1> QED
  BY Invariant, <1>1, PTL

\* WrappedSurvives: what a live wrapper points at, and what that leads to, has
\* not been collected.
THEOREM WrappedSurvives ==
    ASSUME AllowReinit = FALSE
    PROVE  Spec => []WrappedSurvive
<1>1. ASSUME IInv, NEW w \in live, wraps[w] # NULL
      PROVE  HeapReach({wraps[w]}) \subseteq alive
  <2>1. {wraps[w]} \subseteq alive /\ alive \subseteq Addrs /\ Closed(refs, alive)
    BY <1>1 DEF IInv, Fields, TypeOK, WrapsTracked
  <2> QED
    BY <2>1, ReachLeast DEF HeapReach
<1>2. IInv => WrappedSurvive
  BY <1>1 DEF WrappedSurvive
<1> QED
  BY Invariant, <1>2, PTL

\* CacheStaysCurrent: a cache never returns a wrapper of what was at its address
\* before.
THEOREM CacheStaysCurrent ==
    ASSUME AllowReinit = FALSE
    PROVE  Spec => []CacheIsCurrent
<1>1. IInv => CacheIsCurrent
  BY ConstantsAssumption DEF IInv, Fields, CacheOfLive, WrapsTracked, CacheIsCurrent
<1> QED
  BY Invariant, <1>1, PTL

\* WalkMarksLive: unless an object is initialised twice, my_walker marks what
\* every live wrapper points at.
THEOREM WalkMarksLive ==
    ASSUME AllowReinit = FALSE
    PROVE  Spec => []LiveAreMarked
<1>1. IInv => LiveAreMarked
  BY DEF IInv, AllMarked, LiveAreMarked
<1> QED
  BY Invariant, <1>1, PTL

\* By wr_next one comes to every tracked object: of those one does not come to,
\* the first would have an earlier one before it.
LEMMA RingIsReached ==
    ASSUME IInv
    PROVE  Reach(next, Nodes, {sentinel}) = Ring
<1>0. /\ Ring \subseteq Nodes /\ sentinel \in Ring /\ Tracked \subseteq Wrappers
      /\ IsFiniteSet(Wrappers) /\ NULL \notin Nodes /\ Ring = Tracked \cup {sentinel}
  BY ConstantsAssumption DEF IInv, Fields, TypeOK, Ring, Tracked, Nodes
<1>1. \A n \in Ring : next[n] \in Ring /\ prev[n] \in Ring /\ next[prev[n]] = n
  BY DEF IInv, Linked
<1>2. Closed(next, Ring)
  BY <1>1 DEF Closed
<1>3. PICK R \in SUBSET (Wrappers \X Wrappers) : Ordered(R)
  BY DEF IInv, ListOrdered
<1>4. ASSUME NEW T \in SUBSET Nodes, sentinel \in T, Closed(next, T), ~(Ring \subseteq T)
      PROVE  FALSE
  <2> DEFINE U == Tracked \ T
             Earlier(y) == {x \in U : Before(R, x, y)}
             Sets == {Earlier(y) : y \in U}
  <2>1. U # {} /\ Sets # {}
    <3>1. PICK n \in Ring : n \notin T
      BY <1>4
    <3>2. n \in U
      BY <1>0, <1>4, <3>1
    <3>3. Earlier(n) \in Sets
      BY <3>2
    <3> QED
      BY <3>2, <3>3
  <2>2. ASSUME NEW y \in U
        PROVE  prev[y] \in U /\ Before(R, prev[y], y)
    <3>1. y \in Ring /\ y \in Tracked /\ y # NULL
      BY <1>0
    <3>2. prev[y] \in Ring /\ next[prev[y]] = y
      BY <1>1, <3>1
    <3>3. prev[y] \notin T
      BY <1>4, <3>1, <3>2 DEF Closed
    <3>4. prev[y] \in Tracked
      BY <1>0, <1>4, <3>2, <3>3
    <3>5. Before(R, prev[y], y)
      BY <1>3, <3>1, <3>2, <3>4 DEF Ordered
    <3> QED
      BY <3>3, <3>4, <3>5
  <2>3. IsWellFoundedOn(StrictSubsetOrdering(Wrappers), SUBSET Wrappers)
    BY <1>0, FS_StrictSubsetOrderingWellFounded, FS_FiniteSubsetsOfFinite
  <2>4. Sets \subseteq SUBSET Wrappers
    BY <1>0
  <2> HIDE DEF Sets
  <2>5. PICK X \in Sets : \A Y \in Sets : ~(<<Y, X>> \in StrictSubsetOrdering(Wrappers))
    BY <2>1, <2>3, <2>4, WFMin
  <2>6. PICK y \in U : X = Earlier(y)
    BY DEF Sets
  <2>7. Earlier(prev[y]) \in Sets
    BY <2>2 DEF Sets
  <2>8. Earlier(prev[y]) \subseteq Earlier(y)
    <3>1. y \in Tracked /\ prev[y] \in Tracked
      BY <2>2
    <3> QED
      BY <1>3, <2>2, <3>1 DEF Ordered
  <2>9. prev[y] \in Earlier(y) /\ prev[y] \notin Earlier(prev[y])
    BY <1>3, <2>2 DEF Ordered
  <2>10. <<Earlier(prev[y]), X>> \in StrictSubsetOrdering(Wrappers)
    <3>1. Earlier(prev[y]) \in SUBSET Wrappers /\ X \in SUBSET Wrappers
      BY <2>4, <2>7
    <3>2. Earlier(prev[y]) \subseteq X /\ Earlier(prev[y]) # X
      BY <2>6, <2>8, <2>9
    <3> HIDE DEF Earlier
    <3> QED
      BY <3>1, <3>2 DEF StrictSubsetOrdering
  <2> QED
    BY <2>5, <2>7, <2>10
<1>5. Reach(next, Nodes, {sentinel}) \subseteq Ring
  BY <1>0, <1>2, ReachLeast
<1>6. Ring \subseteq Reach(next, Nodes, {sentinel})
  BY <1>0, <1>4 DEF Reach
<1> QED
  BY <1>5, <1>6

\* ListStaysLive: the list has every tracked object that exists and no other,
\* in both directions.
THEOREM ListStaysLive ==
    ASSUME AllowReinit = FALSE
    PROVE  Spec => []ListIsLive
<1>1. IInv => ListIsLive
  BY RingIsReached DEF IInv, Linked, Ring, ListIsLive
<1> QED
  BY Invariant, <1>1, PTL

-----------------------------------------------------------------------------
(***************************************************************************)
(* The walk ends.                                                          *)
(***************************************************************************)
\* What my_walker has still to come to.
Onward == Reach([next EXCEPT ![sentinel] = NULL], Nodes, {iter})

WalkGoesOn ==
    [][phase = "walk" /\ phase' = "walk" => Onward' \subseteq Onward /\ Onward' # Onward]_vars

\* WalkEndsInTime: in each step of my_walker there is less of the list before it,
\* and of finitely many wrappers; it comes to no wrapper twice, although wr_next
\* leads round in a ring.
THEOREM WalkEndsInTime ==
    ASSUME AllowReinit = FALSE
    PROVE  Spec => WalkGoesOn
<1>1. ASSUME IInv, Next, phase = "walk", phase' = "walk"
      PROVE  Onward' \subseteq Onward /\ Onward' # Onward
  <2> DEFINE ahead == [next EXCEPT ![sentinel] = NULL]
  <2>1. WalkStep
    BY <1>1 DEF Next, PythonRuns, WrapCached, WrapNew, WrapUncached, WrapPass, PassAgain,
                Construct, ObjectInit, Decref, WrapAgain, GccNew, GccForget, GccAssign,
                GgcStart, Collector, GgcMarkRoots, WalkEnd, GgcSweep
  <2>2. iter \in Wrappers /\ iter' = next[iter] /\ next' = next
    BY <2>1 DEF WalkStep, list
  <2>3. /\ iter \in Tracked /\ iter # sentinel /\ Tracked \subseteq Nodes /\ sentinel \in Nodes
        /\ sentinel \notin Tracked /\ NULL \notin Nodes
        /\ next \in [Nodes -> Nodes \cup {NULL}]
        /\ Ring = Tracked \cup {sentinel} /\ \A n \in Ring : next[n] \in Ring
    <3>1. iter \in Ring
      BY <1>1 DEF IInv, ListOrdered, Walked
    <3> QED
      BY <1>1, <2>2, <3>1, ConstantsAssumption
         DEF IInv, Fields, TypeOK, Linked, Ring, Tracked, Nodes
  <2>4. /\ ahead \in [Nodes -> Nodes \cup {NULL}] /\ ahead[sentinel] = NULL
        /\ \A n \in Nodes \ {sentinel} : ahead[n] = next[n]
    BY <2>3
  <2>5. Onward = Reach(ahead, Nodes, {iter}) /\ Onward' = Reach(ahead, Nodes, {next[iter]})
    BY <2>2 DEF Onward, Reach, Closed
  <2> HIDE DEF ahead
  <2>6. /\ iter \in Onward /\ Onward \subseteq Nodes /\ Closed(ahead, Onward)
    BY <2>3, <2>4, <2>5, ReachClosed
  <2>7. next[iter] \in Onward
    BY <2>3, <2>4, <2>6 DEF Closed
  <2>8. Onward' \subseteq Onward
    BY <2>5, <2>6, <2>7, ReachLeast
  \* Behind the walker is not before it.
  <2>9. iter \notin Onward'
    <3>1. PICK R \in SUBSET (Wrappers \X Wrappers) : Ordered(R)
      BY <1>1 DEF IInv, ListOrdered
    <3> DEFINE T == {v \in Ring : v = sentinel \/ Before(R, iter, v)}
    <3>2. next[iter] \in T
      BY <2>3, <3>1 DEF Ordered
    <3>3. ASSUME NEW v \in T, v # sentinel PROVE next[v] \in T
      <4>1. v \in Tracked /\ Before(R, iter, v) /\ next[v] \in Ring
        BY <2>3, <3>3
      <4>2. next[v] = sentinel \/ (next[v] \in Tracked /\ Before(R, v, next[v]))
        BY <2>3, <3>1, <4>1 DEF Ordered
      <4> QED
        BY <2>3, <3>1, <4>1, <4>2 DEF Ordered
    <3>4. Closed(ahead, T)
      BY <2>3, <2>4, <3>3 DEF Closed
    <3>5. iter \notin T
      BY <2>3, <3>1 DEF Ordered
    <3>6. T \subseteq Nodes
      BY <2>3
    <3> HIDE DEF T
    <3>7. Onward' \subseteq T
      BY <2>5, <3>2, <3>4, <3>6, ReachLeast
    <3> QED
      BY <3>5, <3>7
  <2> QED
    BY <2>6, <2>8, <2>9
<1>2. IInv /\ [Next]_vars =>
          [phase = "walk" /\ phase' = "walk" => Onward' \subseteq Onward /\ Onward' # Onward]_vars
  BY <1>1
<1> QED
  BY <1>2, Invariant, PTL DEF Spec, WalkGoesOn

-----------------------------------------------------------------------------
(***************************************************************************)
(* The wrappers implement PinnedObjects.                                   *)
(***************************************************************************)
LEMMA InitPins == Init => Pinned!Init
BY DEF Init, Pinned!Init

\* A new wrapper takes an object that exists, a new one, or none.
LEMMA WrapPins ==
    ASSUME IInv, NEW w \in Wrappers, NEW a \in Addrs \cup {NULL}, NewWrapper(w, a),
           a \in Accessible \cup {NULL}, UNCHANGED heap
    PROVE  [Pinned!Next]_(Pinned!vars)
<1>1. wraps[w] = NULL /\ wraps' = [wraps EXCEPT ![w] = a]
  BY DEF IInv, Fields, FreeIsClear, NewWrapper
<1>2. CASE a = NULL
  <2>1. wraps' = wraps
    BY <1>1, <1>2 DEF IInv, Fields, TypeOK
  <2> QED
    BY <2>1 DEF Pinned!vars, heap
<1>3. CASE a # NULL
  <2>1. a \in Addrs /\ a \in alive
    BY <1>3, AccessibleExists DEF IInv, Fields
  <2>2. Pinned!Acquire(w, a)
    BY <1>1, <2>1 DEF Pinned!Acquire, heap
  <2> QED
    BY <2>1, <2>2 DEF Pinned!Next
<1> QED
  BY <1>2, <1>3

\* A collection takes nothing that is used, nor what that leads to.
LEMMA SweepPins ==
    ASSUME IInv, GgcSweep
    PROVE  Pinned!Collect
<1>1. /\ alive' = alive \cap marked /\ UNCHANGED <<refs, roots, wraps>>
      /\ MarkedClosed /\ \A w \in live : wraps[w] # NULL => wraps[w] \in marked
  BY DEF GgcSweep, IInv, AllMarked, python
<1>2. Pinned!Used \subseteq alive \cap marked
  <2>1. \A w \in Wrappers : wraps[w] # NULL => w \in live
    BY DEF IInv, Fields, FreeIsClear
  <2> QED
    BY <1>1, <2>1 DEF IInv, Fields, WrapsTracked, Pinned!Used
<1>3. /\ alive \cap marked \in SUBSET Addrs
      /\ roots \cup Pinned!Used \subseteq alive \cap marked
      /\ Closed(refs, alive \cap marked)
  BY <1>1, <1>2 DEF IInv, Fields, TypeOK, Closed, MarkedClosed
<1>4. Reach(refs, Addrs, roots \cup Pinned!Used) \subseteq alive'
  BY <1>1, <1>3, ReachLeast
<1>5. Pinned!Reach(refs, Addrs, roots \cup Pinned!Used) = Reach(refs, Addrs, roots \cup Pinned!Used)
  BY DEF Pinned!Reach, Pinned!Closed, Reach, Closed
<1> QED
  BY <1>1, <1>4, <1>5 DEF Pinned!Collect

\* Every step is one of PinnedObjects or leaves its variables alone.
LEMMA NextPins ==
    ASSUME IInv, [Next]_vars
    PROVE  [Pinned!Next]_(Pinned!vars)
<1>1. ASSUME NEW w \in Wrappers, NEW a \in Addrs, WrapCached(w, a)
      PROVE  [Pinned!Next]_(Pinned!vars)
  BY <1>1, WrapPins DEF WrapCached
<1>2. ASSUME NEW w \in Wrappers, NEW a \in Addrs, WrapNew(w, a)
      PROVE  [Pinned!Next]_(Pinned!vars)
  <2>1. wraps[w] = NULL /\ wraps' = [wraps EXCEPT ![w] = a]
    BY <1>2 DEF IInv, Fields, FreeIsClear, WrapNew, NewWrapper
  <2>2. PICK v \in live : wraps[v] # NULL /\ refs' = [refs EXCEPT ![a] = wraps[v]]
    BY <1>2 DEF WrapNew
  <2>3. wraps[v] \in alive
    BY <2>2 DEF IInv, Fields, WrapsTracked
  <2>4. Pinned!Acquire(w, a)
    BY <1>2, <2>1, <2>2, <2>3 DEF Pinned!Acquire, WrapNew
  <2> QED
    BY <2>4 DEF Pinned!Next
<1>3. ASSUME NEW w \in Wrappers, NEW a \in Addrs \cup {NULL}, WrapUncached(w, a)
      PROVE  [Pinned!Next]_(Pinned!vars)
  BY <1>3, WrapPins DEF WrapUncached
<1>4. ASSUME NEW w \in Wrappers, WrapPass(w)
      PROVE  [Pinned!Next]_(Pinned!vars)
  BY <1>4, WrapPins DEF WrapPass
<1>5. ASSUME NEW w \in Wrappers, PassAgain(w) \/ Construct(w) \/ ObjectInit(w)
      PROVE  [Pinned!Next]_(Pinned!vars)
  BY <1>5 DEF PassAgain, Construct, ObjectInit, Pinned!vars, heap
<1>6. ASSUME NEW w \in Wrappers, Decref(w)
      PROVE  [Pinned!Next]_(Pinned!vars)
  <2>1. CASE LastRef(w)
    BY <1>6, <2>1 DEF Decref, Pinned!Next, Pinned!Release, heap
  <2>2. CASE ~LastRef(w)
    BY <1>6, <2>2 DEF Decref, Pinned!vars, heap
  <2> QED
    BY <2>1, <2>2
<1>7. ASSUME NEW a \in Addrs, WrapAgain(a)
      PROVE  [Pinned!Next]_(Pinned!vars)
  BY <1>7 DEF WrapAgain, Pinned!vars, heap
<1>8. ASSUME NEW a \in Addrs, GccNew(a)
      PROVE  [Pinned!Next]_(Pinned!vars)
  BY <1>8 DEF GccNew, Pinned!Next, Pinned!Allocate, python
<1>9. ASSUME NEW a \in Addrs, GccForget(a)
      PROVE  [Pinned!Next]_(Pinned!vars)
  <2>1. roots' \subseteq alive /\ a \in alive /\ UNCHANGED <<alive, refs, wraps>>
    BY <1>9 DEF GccForget, IInv, Fields, TypeOK, python
  <2> QED
    BY <2>1 DEF Pinned!Next, Pinned!Mutate
<1>10. ASSUME NEW a \in Addrs, NEW b \in Addrs \cup {NULL}, GccAssign(a, b)
       PROVE  [Pinned!Next]_(Pinned!vars)
  <2>1. HeapReach(roots) \subseteq alive
    BY ReachLeast DEF IInv, Fields, TypeOK, HeapReach
  <2>2. /\ a \in alive /\ b \in alive \cup {NULL} /\ roots' \subseteq alive
        /\ UNCHANGED <<alive, wraps>> /\ refs' = [refs EXCEPT ![a] = b]
    BY <1>10, <2>1 DEF GccAssign, IInv, Fields, TypeOK, python
  <2> QED
    BY <2>2 DEF Pinned!Next, Pinned!Mutate
<1>11. ASSUME GgcStart \/ GgcMarkRoots \/ WalkStep \/ WalkEnd \/ UNCHANGED vars
       PROVE  [Pinned!Next]_(Pinned!vars)
  BY <1>11 DEF GgcStart, GgcMarkRoots, WalkStep, WalkEnd, vars, Pinned!vars, heap, python
<1>12. ASSUME GgcSweep
       PROVE  [Pinned!Next]_(Pinned!vars)
  BY <1>12, SweepPins DEF Pinned!Next
<1> QED
  BY <1>1, <1>2, <1>3, <1>4, <1>5, <1>6, <1>7, <1>8, <1>9, <1>10, <1>11, <1>12
  DEF Next, Collector

\* WrappersPin: whatever the wrappers, the caches and the collector do, a GCC
\* object that a Python object uses, and what it leads to, is not collected.
THEOREM WrappersPin ==
    ASSUME AllowReinit = FALSE
    PROVE  Spec => Pins
<1>1. IInv /\ [Next]_vars => [Pinned!Next]_(Pinned!vars)
  BY NextPins
<1> QED
  BY InitPins, Invariant, <1>1, PTL DEF Spec, Pins, Pinned!Spec
=============================================================================
