-------------------------- MODULE GraphQueries_proofs --------------------------
(***************************************************************************)
(* For all programs: runs are followed in the supergraph, and paths, sorts *)
(* and removals are right, in whichever order sets and heaps are gone      *)
(* through.                                                                *)
(***************************************************************************)
EXTENDS GraphQueries, FiniteSetTheorems, SequenceTheorems, TLAPS

-----------------------------------------------------------------------------
(***************************************************************************)
(* Rounds of a function on sets.                                           *)
(***************************************************************************)

\* Induction over the naturals, for the members of a set.
LEMMA NatSetInduction ==
    ASSUME NEW S, 0 \in S, \A n \in Nat : n \in S => n + 1 \in S
    PROVE  Nat \subseteq S
<1> DEFINE T == Nat \ S
           R == {ss \in Nat \X Nat : ss[1] < ss[2]}
<1>1. SUFFICES ASSUME T # {} PROVE FALSE
  OBVIOUS
<1>2. IsWellFoundedOn(R, Nat)
  BY NatLessThanWellFounded DEF OpToRel
<1>3. PICK x \in T : \A y \in T : ~ (<<y, x>> \in R)
  <2>1. T \subseteq Nat
    OBVIOUS
  <2> HIDE DEF T, R
  <2> QED
    BY <1>1, <1>2, <2>1, WFMin
<1>4. x # 0 /\ x - 1 \in Nat /\ x - 1 < x /\ (x - 1) + 1 = x
  BY <1>3
<1>5. x - 1 \notin T
  BY <1>3, <1>4
<1> QED
  BY <1>3, <1>4, <1>5

\* No round changes nothing, and a further one is a step.
LEMMA GrownDef ==
    ASSUME NEW S, NEW step \in [S -> S], NEW start \in S
    PROVE  /\ Grown(step, start, 0) = start
           /\ \A k \in Nat : Grown(step, start, k + 1) = step[Grown(step, start, k)]
           /\ \A k \in Nat : Grown(step, start, k) \in S
<1> DEFINE body(f, i) == IF i = 0 THEN start ELSE step[f[i - 1]]
           upTo(k) == CHOOSE f : f = [i \in 0 .. k |-> body(f, i)]
           T == {k \in Nat : \E f : f = [i \in 0 .. k |-> body(f, i)]}
<1>1. \A f, h, i : (i = 0 \/ f[i - 1] = h[i - 1]) => body(f, i) = body(h, i)
  OBVIOUS
<1>2. 0 \in T
  <2> DEFINE f == [i \in 0 .. 0 |-> start]
  <2>1. f = [i \in 0 .. 0 |-> body(f, i)]
    OBVIOUS
  <2> QED
    BY <2>1
<1>3. ASSUME NEW k \in Nat, k \in T PROVE k + 1 \in T
  <2>1. PICK f : f = [i \in 0 .. k |-> body(f, i)]
    BY <1>3
  <2> DEFINE h == [i \in 0 .. (k + 1) |-> IF i = k + 1 THEN body(f, i) ELSE f[i]]
  <2>2. \A i \in 0 .. (k + 1) : i # 0 => h[i - 1] = f[i - 1]
    OBVIOUS
  <2>3. \A i \in 0 .. (k + 1) : h[i] = body(h, i)
    <3> TAKE i \in 0 .. (k + 1)
    <3>1. body(h, i) = body(f, i)
      <4> HIDE DEF h, body
      <4> QED
        BY <1>1, <2>2
    <3>2. CASE i = k + 1
      <4> HIDE DEF body
      <4> QED
        BY <3>1, <3>2
    <3>3. CASE i \in 0 .. k
      <4> HIDE DEF body
      <4>1. h[i] = f[i]
        BY <3>3
      <4>2. f[i] = body(f, i)
        BY <2>1, <3>3
      <4> QED
        BY <3>1, <4>1, <4>2
    <3>4. i = k + 1 \/ i \in 0 .. k
      OBVIOUS
    <3> HIDE DEF h, body
    <3> QED
      BY <3>2, <3>3, <3>4
  <2>4. h = [i \in 0 .. (k + 1) |-> body(h, i)]
    <3> HIDE DEF body
    <3> QED
      BY <2>3
  <2> HIDE DEF h, body
  <2> QED
    BY <2>4
<1>4. \A k \in Nat : upTo(k) = [i \in 0 .. k |-> body(upTo(k), i)]
  <2> TAKE k \in Nat
  <2>1. k \in T
    <3> HIDE DEF T
    <3> QED
      BY <1>2, <1>3, NatSetInduction
  <2> HIDE DEF body
  <2> QED
    BY <2>1
<1>5. \A k \in Nat : Grown(step, start, k) = upTo(k)[k]
  BY DEF Grown
<1>6. \A k \in Nat : \A i \in 0 .. k : upTo(k)[i] = body(upTo(k), i)
  <2> HIDE DEF upTo, body
  <2> QED
    BY <1>4
<1>7. \A k \in Nat : upTo(k)[0] = start
  <2> TAKE k \in Nat
  <2>1. upTo(k)[0] = body(upTo(k), 0)
    <3> HIDE DEF upTo, body
    <3> QED
      BY <1>6
  <2> HIDE DEF upTo
  <2> QED
    BY <2>1
<1>8. \A k \in Nat : \A i \in 0 .. (k - 1) : upTo(k)[i + 1] = step[upTo(k)[i]]
  <2> TAKE k \in Nat
  <2> TAKE i \in 0 .. (k - 1)
  <2>1. upTo(k)[i + 1] = body(upTo(k), i + 1)
    <3> HIDE DEF upTo, body
    <3> QED
      BY <1>6
  <2>2. i + 1 # 0 /\ (i + 1) - 1 = i
    OBVIOUS
  <2> HIDE DEF upTo
  <2> QED
    BY <2>1, <2>2
<1> HIDE DEF upTo, body, T
\* The functions for fewer and for more rounds agree.
<1>9. \A k \in Nat : \A i \in Nat : i <= k => upTo(k)[i] = upTo(k + 1)[i]
  <2> TAKE k \in Nat
  <2> DEFINE A == {i \in Nat : i <= k => upTo(k)[i] = upTo(k + 1)[i]}
  <2>1. 0 \in A
    BY <1>7
  <2>2. ASSUME NEW i \in Nat, i \in A PROVE i + 1 \in A
    <3>1. SUFFICES ASSUME i + 1 <= k PROVE upTo(k)[i + 1] = upTo(k + 1)[i + 1]
      OBVIOUS
    <3>2. i \in 0 .. (k - 1) /\ i \in 0 .. ((k + 1) - 1) /\ k + 1 \in Nat
      BY <3>1
    <3> QED
      BY <2>2, <3>1, <3>2, <1>8
  <2> HIDE DEF A
  <2>3. Nat \subseteq A
    BY <2>1, <2>2, NatSetInduction
  <2> QED
    BY <2>3 DEF A
<1>10. \A k \in Nat : Grown(step, start, k + 1) = step[Grown(step, start, k)]
  <2> TAKE k \in Nat
  <2>1. k + 1 \in Nat /\ k \in 0 .. ((k + 1) - 1)
    OBVIOUS
  <2>2. upTo(k + 1)[k + 1] = step[upTo(k + 1)[k]]
    BY <2>1, <1>8
  <2> QED
    BY <2>1, <2>2, <1>5, <1>9
<1>11. Grown(step, start, 0) = start
  BY <1>5, <1>7
<1>12. \A k \in Nat : Grown(step, start, k) \in S
  <2> DEFINE A == {k \in Nat : Grown(step, start, k) \in S}
  <2>1. 0 \in A
    BY <1>11
  <2>2. ASSUME NEW k \in Nat, k \in A PROVE k + 1 \in A
    BY <2>2, <1>10
  <2> HIDE DEF A
  <2>3. Nat \subseteq A
    BY <2>1, <2>2, NatSetInduction
  <2> QED
    BY <2>3 DEF A
<1> QED
  BY <1>10, <1>11, <1>12

\* Where a step only adds, a finite set grows no more after as many rounds as
\* it has members.
LEMMA GrownClosed ==
    ASSUME NEW S, IsFiniteSet(S), NEW step \in [SUBSET S -> SUBSET S],
           NEW start \in SUBSET S, \A X \in SUBSET S : X \subseteq step[X]
    PROVE  LET all == Grown(step, start, Cardinality(S))
           IN  /\ step[all] = all /\ start \subseteq all
               /\ all \in SUBSET S
<1> DEFINE g(k) == Grown(step, start, k)
           N == Cardinality(S)
<1>1. N \in Nat
  BY FS_CardinalityType
<1>2. /\ g(0) = start
      /\ \A k \in Nat : g(k + 1) = step[g(k)] /\ g(k) \in SUBSET S /\ g(k) \subseteq g(k + 1)
  <2> DEFINE T == SUBSET S
  <2>1. step \in [T -> T] /\ start \in T
    OBVIOUS
  <2> HIDE DEF T
  <2>2. /\ g(0) = start
        /\ \A k \in Nat : g(k + 1) = step[g(k)]
        /\ \A k \in Nat : g(k) \in T
    BY <2>1, GrownDef
  <2> QED
    BY <2>2 DEF T
<1> HIDE DEF g, N
<1>3. \A k \in Nat : start \subseteq g(k)
  <2> DEFINE A == {k \in Nat : start \subseteq g(k)}
  <2>1. 0 \in A
    BY <1>2
  <2>2. ASSUME NEW k \in Nat, k \in A PROVE k + 1 \in A
    BY <2>2, <1>2
  <2> HIDE DEF A
  <2>3. Nat \subseteq A
    BY <2>1, <2>2, NatSetInduction
  <2> QED
    BY <2>3 DEF A
<1>4. \A k \in Nat : IsFiniteSet(g(k)) /\ Cardinality(g(k)) \in Nat
  BY <1>2, FS_Subset, FS_CardinalityType
<1>5. \A k \in Nat : g(k) = g(k + 1) => g(k + 1) = g((k + 1) + 1)
  <2> TAKE k \in Nat
  <2>1. k + 1 \in Nat
    OBVIOUS
  <2> QED
    BY <2>1, <1>2
<1>6. \A k \in Nat : g(k) # g(k + 1) => Cardinality(g(k)) < Cardinality(g(k + 1))
  <2> TAKE k \in Nat
  <2>1. k + 1 \in Nat /\ g(k) \in SUBSET g(k + 1)
    BY <1>2
  <2>2. /\ Cardinality(g(k)) <= Cardinality(g(k + 1))
        /\ Cardinality(g(k + 1)) = Cardinality(g(k)) => g(k + 1) = g(k)
    BY <2>1, <1>4, FS_Subset
  <2> QED
    BY <2>1, <2>2, <1>4
<1>7. \A k \in Nat : g(k) = g(k + 1) \/ Cardinality(g(k + 1)) >= k + 1
  <2> DEFINE A == {k \in Nat : g(k) = g(k + 1) \/ Cardinality(g(k + 1)) >= k + 1}
  <2>1. 0 \in A
    <3>1. g(0) = g(0 + 1) \/ Cardinality(g(0)) < Cardinality(g(0 + 1))
      BY <1>6
    <3>2. Cardinality(g(0)) \in Nat /\ Cardinality(g(0 + 1)) \in Nat
      BY <1>4
    <3> QED
      BY <3>1, <3>2
  <2>2. ASSUME NEW k \in Nat, k \in A PROVE k + 1 \in A
    <3>1. k + 1 \in Nat /\ (k + 1) + 1 \in Nat
      OBVIOUS
    <3>2. \/ g(k + 1) = g((k + 1) + 1)
          \/ /\ Cardinality(g(k + 1)) < Cardinality(g((k + 1) + 1))
             /\ Cardinality(g(k + 1)) >= k + 1
      BY <2>2, <3>1, <1>5, <1>6
    <3>3. Cardinality(g(k + 1)) \in Nat /\ Cardinality(g((k + 1) + 1)) \in Nat
      BY <3>1, <1>4
    <3> QED
      BY <3>1, <3>2, <3>3
  <2> HIDE DEF A
  <2>3. Nat \subseteq A
    BY <2>1, <2>2, NatSetInduction
  <2> QED
    BY <2>3 DEF A
<1>8. g(N) = g(N + 1)
  <2>1. N + 1 \in Nat /\ g(N + 1) \in SUBSET S
    BY <1>1, <1>2
  <2>2. Cardinality(g(N + 1)) <= N /\ Cardinality(g(N + 1)) \in Nat
    BY <2>1, <1>4, FS_Subset DEF N
  <2> QED
    BY <2>2, <1>1, <1>7
<1>9. step[g(N)] = g(N) /\ start \subseteq g(N) /\ g(N) \in SUBSET S
  BY <1>8, <1>1, <1>2, <1>3
<1> QED
  BY <1>9 DEF g, N

\* What a step does not lead out of, rounds do not lead out of.
LEMMA GrownInside ==
    ASSUME NEW S, NEW step \in [SUBSET S -> SUBSET S], NEW start \in SUBSET S,
           NEW bound \in SUBSET S, start \subseteq bound,
           \A X \in SUBSET bound : step[X] \subseteq bound
    PROVE  \A k \in Nat : Grown(step, start, k) \subseteq bound
<1>1. /\ Grown(step, start, 0) = start
      /\ \A k \in Nat : Grown(step, start, k + 1) = step[Grown(step, start, k)]
  <2> DEFINE T == SUBSET S
  <2>1. step \in [T -> T] /\ start \in T
    OBVIOUS
  <2> HIDE DEF T
  <2> QED
    BY <2>1, GrownDef
<1> DEFINE A == {k \in Nat : Grown(step, start, k) \subseteq bound}
<1>2. 0 \in A
  BY <1>1
<1>3. ASSUME NEW k \in Nat, k \in A PROVE k + 1 \in A
  BY <1>1, <1>3
<1> HIDE DEF A
<1>4. Nat \subseteq A
  BY <1>2, <1>3, NatSetInduction
<1> QED
  BY <1>4 DEF A

-----------------------------------------------------------------------------
(***************************************************************************)
(* Stacks.                                                                 *)
(***************************************************************************)

\* The top and the rest of a stack that is not empty.
LEMMA PopProperties ==
    ASSUME NEW S, NEW s \in Seq(S), s # <<>>
    PROVE  /\ Len(s) \in Nat \ {0}
           /\ Top(s) \in S
           /\ Pop(s) \in Seq(S)
           /\ Len(Pop(s)) = Len(s) - 1
           /\ \A i \in 1 .. (Len(s) - 1) : Pop(s)[i] = s[i]
<1>1. Len(s) \in Nat \ {0}
  BY EmptySeq, LenProperties
<1>2. Top(s) \in S
  BY <1>1, ElementOfSeq DEF Top
<1>3. \A i \in 1 .. (Len(s) - 1) : s[i] \in S
  BY <1>1, ElementOfSeq
<1>4. 1 \in Int /\ Len(s) - 1 \in Int
  BY <1>1
<1>5. /\ SubSeq(s, 1, Len(s) - 1) \in Seq(S)
      /\ Len(SubSeq(s, 1, Len(s) - 1)) = IF 1 <= Len(s) - 1 THEN Len(s) - 1 - 1 + 1 ELSE 0
      /\ \A i \in 1 .. (Len(s) - 1 - 1 + 1) : SubSeq(s, 1, Len(s) - 1)[i] = s[1 + i - 1]
  BY <1>3, <1>4, SubSeqProperties
<1> DEFINE n == Len(s)
<1> HIDE DEF n
<1>6. n \in Nat \ {0}
  BY <1>1 DEF n
<1>7. (IF 1 <= n - 1 THEN n - 1 - 1 + 1 ELSE 0) = n - 1
  BY <1>6
<1>8. \A i \in 1 .. (n - 1) : i \in 1 .. (n - 1 - 1 + 1) /\ 1 + i - 1 = i
  BY <1>6
<1>9. Len(SubSeq(s, 1, n - 1)) = n - 1 /\ \A i \in 1 .. (n - 1) : SubSeq(s, 1, n - 1)[i] = s[i]
  <2>1. /\ Len(SubSeq(s, 1, n - 1)) = IF 1 <= n - 1 THEN n - 1 - 1 + 1 ELSE 0
        /\ \A i \in 1 .. (n - 1 - 1 + 1) : SubSeq(s, 1, n - 1)[i] = s[1 + i - 1]
    BY <1>5 DEF n
  <2> QED
    BY <2>1, <1>6, <1>7, <1>8
<1>10. Pop(s) = SubSeq(s, 1, n - 1)
  BY DEF Pop, n
<1> QED
  BY <1>1, <1>2, <1>5, <1>9, <1>10, Zenon DEF n

\* Another top.
LEMMA ReplaceTop ==
    ASSUME NEW S, NEW s \in Seq(S), s # <<>>, NEW x \in S
    PROVE  /\ Append(Pop(s), x) \in Seq(S)
           /\ Len(Append(Pop(s), x)) = Len(s)
           /\ \A i \in 1 .. (Len(s) - 1) : Append(Pop(s), x)[i] = s[i]
           /\ Append(Pop(s), x)[Len(s)] = x
<1>1. /\ Len(s) \in Nat \ {0} /\ Pop(s) \in Seq(S) /\ Len(Pop(s)) = Len(s) - 1
      /\ \A i \in 1 .. (Len(s) - 1) : Pop(s)[i] = s[i]
  BY PopProperties
<1>2. /\ Append(Pop(s), x) \in Seq(S)
      /\ Len(Append(Pop(s), x)) = Len(Pop(s)) + 1
      /\ \A i \in 1 .. Len(Pop(s)) : Append(Pop(s), x)[i] = Pop(s)[i]
      /\ Append(Pop(s), x)[Len(Pop(s)) + 1] = x
  BY <1>1, AppendProperties
<1> QED
  BY <1>1, <1>2

-----------------------------------------------------------------------------
(***************************************************************************)
(* The program and its graph.                                              *)
(***************************************************************************)

\* A list of finitely many has finitely many members.
LEMMA FiniteRange ==
    ASSUME NEW S, NEW s \in Seq(S)
    PROVE  IsFiniteSet({s[i] : i \in DOMAIN s})
<1> DEFINE R == {s[i] : i \in 1 .. Len(s)}
<1>1. Len(s) \in Nat /\ DOMAIN s = 1 .. Len(s) /\ s \in [1 .. Len(s) -> S]
  BY LenProperties
<1>2. IsFiniteSet(1 .. Len(s))
  BY <1>1, FS_Interval
<1>3. s \in Surjection(1 .. Len(s), R)
  BY <1>1 DEF Surjection
<1>4. IsFiniteSet(R)
  BY <1>2, <1>3, FS_Surjection
<1> QED
  BY <1>1, <1>4

\* As many values as arguments, at most.
LEMMA FiniteImage ==
    ASSUME NEW S, IsFiniteSet(S), NEW f
    PROVE  IsFiniteSet({f[x] : x \in S})
<1> DEFINE R == {f[x] : x \in S}
           g == [x \in S |-> f[x]]
<1>1. g \in Surjection(S, R)
  BY DEF Surjection
<1> QED
  BY <1>1, FS_Surjection

\* A program has finitely many nodes.
LEMMA FiniteNodes ==
    ASSUME NEW p \in Programs
    PROVE  IsFiniteSet(SuperNodes(p)) /\ Cardinality(SuperNodes(p)) \in 0 .. (INFINITY - 1)
<1>1. WellFormed(p) /\ Cardinality(SuperNodes(p)) < INFINITY
  BY ProgramsAssumption
<1>2. \A f \in Funs(p) : IsFiniteSet(StmtNodes(p.funs[f]))
  <2> TAKE f \in Funs(p)
  <2> DEFINE fn == p.funs[f]
             inner(b) == {StmtNode(b, Body(fn, b)[i]) : i \in DOMAIN Body(fn, b)}
             part == [b \in fn.blocks |-> {EntryOfBB(fn, b)} \cup inner(b)]
  <2>1. \A b \in fn.blocks : IsFiniteSet(part[b])
    <3> TAKE b \in fn.blocks
    <3> DEFINE body == Body(fn, b)
               held == {body[i] : i \in DOMAIN body}
             made == [s \in held |-> StmtNode(b, s)]
    <3>1. body \in Seq(Stmts)
      BY <1>1 DEF WellFormed
    <3>2. IsFiniteSet(held)
      BY <3>1, FiniteRange
    <3>3. IsFiniteSet({made[s] : s \in held})
      <4> HIDE DEF made, held
      <4> QED
        BY <3>2, FiniteImage
    <3>4. {made[s] : s \in held} = inner(b)
      OBVIOUS
    <3>5. IsFiniteSet({EntryOfBB(fn, b)})
      BY FS_Singleton
    <3>6. IsFiniteSet(inner(b))
      BY <3>3, <3>4
    <3>7. part[b] = inner(b) \cup {EntryOfBB(fn, b)}
      OBVIOUS
    <3> HIDE DEF inner, part
    <3> QED
      BY <3>6, <3>7, FS_AddElement
  <2>2. IsFiniteSet(fn.blocks)
    BY <1>1 DEF WellFormed
  <2>3. IsFiniteSet({part[b] : b \in fn.blocks})
    BY <2>2, FiniteImage
  <2>4. IsFiniteSet(UNION {part[b] : b \in fn.blocks})
    <3> HIDE DEF part
    <3> QED
      BY <2>1, <2>3, FS_UNION
  <2>5. StmtNodes(fn) = UNION {part[b] : b \in fn.blocks}
    BY DEF StmtNodes
  <2> QED
    BY <2>4, <2>5
<1> DEFINE of == [f \in Funs(p) |->
                    UNION {{Arrival(p, f, n), Departure(p, f, n)} : n \in StmtNodes(p.funs[f])}]
<1>3. \A f \in Funs(p) : IsFiniteSet(of[f])
  <2> TAKE f \in Funs(p)
  <2> DEFINE ns == StmtNodes(p.funs[f])
             pair == [n \in ns |-> {Arrival(p, f, n), Departure(p, f, n)}]
  <2>1. IsFiniteSet({pair[n] : n \in ns})
    <3> HIDE DEF pair, ns
    <3> QED
      BY <1>2, FiniteImage DEF ns
  <2>2. \A n \in ns : IsFiniteSet({Arrival(p, f, n)} \cup {Departure(p, f, n)})
    BY FS_Singleton, FS_AddElement
  <2>3. \A n \in ns : pair[n] = {Arrival(p, f, n)} \cup {Departure(p, f, n)}
    OBVIOUS
  <2>4. IsFiniteSet(UNION {pair[n] : n \in ns})
    <3> HIDE DEF pair, ns
    <3> QED
      BY <2>1, <2>2, <2>3, FS_UNION
  <2>5. of[f] = UNION {pair[n] : n \in ns}
    OBVIOUS
  <2> HIDE DEF of, pair, ns
  <2> QED
    BY <2>4, <2>5
<1>4. IsFiniteSet(Funs(p))
  BY <1>1 DEF WellFormed
<1>5. IsFiniteSet({of[f] : f \in Funs(p)})
  BY <1>4, FiniteImage
<1>6. IsFiniteSet(UNION {of[f] : f \in Funs(p)})
  <2> HIDE DEF of
  <2> QED
    BY <1>3, <1>5, FS_UNION
<1>7. SuperNodes(p) = UNION {of[f] : f \in Funs(p)}
  BY DEF SuperNodes
<1>8. IsFiniteSet(SuperNodes(p))
  BY <1>6, <1>7
<1>9. Cardinality(SuperNodes(p)) \in Nat
  BY <1>8, FS_CardinalityType
<1> QED
  BY <1>1, <1>8, <1>9 DEF INFINITY

-----------------------------------------------------------------------------
(***************************************************************************)
(* Removal.                                                                *)
(***************************************************************************)

\* Nodes all of whose edges come from nodes that go.
Orphans(p, gone) ==
    {n \in SuperNodes(p) : /\ \E e \in SuperEdges(p) : e.dst = n
                           /\ \A e \in SuperEdges(p) : e.dst = n => e.src \in gone}

\* One more round of what goes.
LEMMA OrphanedDef ==
    ASSUME NEW p
    PROVE  /\ Orphaned(p) \in [SUBSET SuperNodes(p) -> SUBSET SuperNodes(p)]
           /\ \A gone \in SUBSET SuperNodes(p) : Orphaned(p)[gone] = gone \cup Orphans(p, gone)
<1>1. \A gone \in SUBSET SuperNodes(p) :
          Orphans(p, gone) = {n \in SuperNodes(p) :
                                 LET in == {e \in SuperEdges(p) : e.dst = n}
                                 IN  in # {} /\ \A e \in in : e.src \in gone}
  BY DEF Orphans
<1>2. Orphaned(p) = [gone \in SUBSET SuperNodes(p) |-> gone \cup Orphans(p, gone)]
  BY <1>1 DEF Orphaned
<1>3. \A gone : Orphans(p, gone) \subseteq SuperNodes(p)
  BY DEF Orphans
<1> HIDE DEF Orphaned
<1> QED
  BY <1>2, <1>3

AllGone(p, n) == Grown(Orphaned(p), {n}, Cardinality(SuperNodes(p)))

\* What goes with a node: all that is orphaned by it, and no more.
LEMMA GoneLeast ==
    ASSUME NEW p \in Programs, NEW n \in SuperNodes(p)
    PROVE  /\ n \in AllGone(p, n)
           /\ AllGone(p, n) \subseteq SuperNodes(p)
           /\ Orphans(p, AllGone(p, n)) \subseteq AllGone(p, n)
           /\ \A T \in SUBSET SuperNodes(p) :
                 n \in T /\ Orphans(p, T) \subseteq T => AllGone(p, n) \subseteq T
<1> DEFINE S == SuperNodes(p)
           step == Orphaned(p)
<1>1. IsFiniteSet(S) /\ Cardinality(S) \in Nat
  BY FiniteNodes
<1>2. step \in [SUBSET S -> SUBSET S]
      /\ \A X \in SUBSET S : step[X] = X \cup Orphans(p, X)
  BY OrphanedDef
<1>3. {n} \in SUBSET S
  OBVIOUS
<1> HIDE DEF S, step
<1>4. /\ step[AllGone(p, n)] = AllGone(p, n)
      /\ {n} \subseteq AllGone(p, n) /\ AllGone(p, n) \in SUBSET S
  <2>1. \A X \in SUBSET S : X \subseteq step[X]
    BY <1>2
  <2>2. LET all == Grown(step, {n}, Cardinality(S))
        IN  step[all] = all /\ {n} \subseteq all /\ all \in SUBSET S
    BY <1>1, <1>2, <1>3, <2>1, GrownClosed
  <2> QED
    BY <2>2 DEF AllGone, S, step
<1>5. ASSUME NEW T \in SUBSET S, n \in T, Orphans(p, T) \subseteq T
      PROVE  AllGone(p, n) \subseteq T
  <2>1. \A X \in SUBSET T : step[X] \subseteq T
    <3> TAKE X \in SUBSET T
    <3>1. X \in SUBSET S
      BY <1>5
    <3>2. Orphans(p, X) \subseteq Orphans(p, T)
      BY DEF Orphans
    <3> QED
      BY <3>1, <3>2, <1>2, <1>5
  <2>2. {n} \subseteq T
    BY <1>5
  <2>3. \A k \in Nat : Grown(step, {n}, k) \subseteq T
    BY <1>2, <1>3, <2>1, <2>2, GrownInside
  <2> QED
    BY <2>3, <1>1 DEF AllGone, S, step
<1> QED
  BY <1>2, <1>4, <1>5 DEF S

-----------------------------------------------------------------------------
(***************************************************************************)
(* One task at a time: what the others work on is as it was.               *)
(***************************************************************************)
TaskOK ==
    /\ prog \in Programs
    /\ task.kind # "remove" => nodes = SuperNodes(prog) /\ edges = SuperEdges(prog)
    /\ task.kind \notin {"sort", "remove"} => frames = <<>>
    /\ task.kind # "sort" => visited = {} /\ order = <<>>
    /\ task.kind = "sort" => task \in [kind : {"sort"}, todo : SUBSET Funs(prog)]
    /\ task.kind # "run" => stack = <<>>
    /\ task.kind # "path" => answer = [state |-> "open", path |-> <<>>]

\* The actions of each task.
Runs   == Start \/ Call \/ Advance \/ Return
Paths  == (\E f \in Funs(prog), dst \in nodes \cup {Outside} : AskPath(Entry(prog, f), dst))
              \/ PopItem \/ Disjoint
Sorts  == AskSort \/ SortRoot \/ SortCaller \/ SortAppend
Removes == (\E n \in nodes : AskRemove(n)) \/ RemoveEdge \/ RemoveReturn

\* Every step is for one of the tasks.
LEMMA NextCases == Next <=> Runs \/ Paths \/ Sorts \/ Removes
BY DEF Next, Runs, Paths, Sorts, Removes

\* The tasks that an action is for, and what it leaves alone.
LEMMA RunsFrame ==
    ASSUME TaskOK, Runs
    PROVE  /\ task.kind \in {"none", "run"} /\ task'.kind = "run"
           /\ UNCHANGED <<prog, nodes, edges, search, walk>>
BY DEF TaskOK, Runs, Start, Call, Advance, Return, Running

\* A search leaves the graph, the run and the walks alone.
LEMMA PathsFrame ==
    ASSUME TaskOK, Paths
    PROVE  /\ task.kind \in {"none", "path"} /\ task'.kind = "path"
           /\ task.kind = "path" => task' = task
           /\ UNCHANGED <<prog, nodes, edges, stack, walk>>
<1>1. CASE \E f \in Funs(prog), dst \in nodes \cup {Outside} : AskPath(Entry(prog, f), dst)
  BY <1>1 DEF AskPath
<1>2. CASE PopItem
  BY <1>2 DEF PopItem, Searching
<1>3. CASE Disjoint
  BY <1>3 DEF Disjoint, Searching
<1> QED
  BY <1>1, <1>2, <1>3 DEF Paths

\* A sort leaves the graph, the run and the searches alone.
LEMMA SortsFrame ==
    ASSUME TaskOK, Sorts
    PROVE  /\ task.kind \in {"none", "sort"} /\ task'.kind = "sort"
           /\ task' \in [kind : {"sort"}, todo : SUBSET Funs(prog)]
           /\ UNCHANGED <<prog, nodes, edges, stack, search>>
<1>1. CASE AskSort
  BY <1>1 DEF AskSort
<1>2. CASE SortRoot
  BY <1>2 DEF SortRoot, TaskOK, Sorting
<1>3. CASE SortCaller
  BY <1>3 DEF SortCaller, TaskOK, Sorting
<1>4. CASE SortAppend
  BY <1>4 DEF SortAppend, TaskOK, Sorting
<1> QED
  BY <1>1, <1>2, <1>3, <1>4 DEF Sorts

\* A removal leaves the run, the searches and the sort alone.
LEMMA RemovesFrame ==
    ASSUME TaskOK, Removes
    PROVE  /\ task.kind \in {"none", "remove"} /\ task'.kind = "remove"
           /\ task.kind = "remove" => task' = task
           /\ UNCHANGED <<prog, stack, search, visited, order>>
<1>1. CASE \E n \in nodes : AskRemove(n)
  BY <1>1 DEF AskRemove
<1>2. CASE RemoveEdge
  BY <1>2 DEF RemoveEdge
<1>3. CASE RemoveReturn
  BY <1>3 DEF RemoveReturn
<1> QED
  BY <1>1, <1>2, <1>3 DEF Removes

\* There is one task at a time, and it alone uses its variables: get_shortest_path,
\* topological_sort and remove_node are not interleaved, and only the last changes
\* the graph.
THEOREM TaskInvariant == Spec => []TaskOK
<1>1. Init => TaskOK
  BY DEF Init, TaskOK
<1>2. TaskOK /\ [Next]_vars => TaskOK'
  <2> SUFFICES ASSUME TaskOK, [Next]_vars PROVE TaskOK'
    OBVIOUS
  <2>1. CASE Runs
    <3>1. /\ task.kind \in {"none", "run"} /\ task'.kind = "run"
          /\ UNCHANGED <<prog, nodes, edges, search, walk>>
      BY <2>1, RunsFrame
    <3> QED
      BY <3>1 DEF TaskOK, search, walk
  <2>2. CASE Paths
    <3>1. /\ task.kind \in {"none", "path"} /\ task'.kind = "path"
          /\ UNCHANGED <<prog, nodes, edges, stack, walk>>
      BY <2>2, PathsFrame
    <3> QED
      BY <3>1 DEF TaskOK, walk
  <2>3. CASE Sorts
    <3>1. /\ task.kind \in {"none", "sort"} /\ task'.kind = "sort"
          /\ task' \in [kind : {"sort"}, todo : SUBSET Funs(prog)]
          /\ UNCHANGED <<prog, nodes, edges, stack, search>>
      BY <2>3, SortsFrame
    <3> QED
      BY <3>1 DEF TaskOK, search
  <2>4. CASE Removes
    <3>1. /\ task.kind \in {"none", "remove"} /\ task'.kind = "remove"
          /\ UNCHANGED <<prog, stack, search, visited, order>>
      BY <2>4, RemovesFrame
    <3> QED
      BY <3>1 DEF TaskOK, search
  <2>5. CASE UNCHANGED vars
    BY <2>5 DEF vars, TaskOK
  <2> QED
    BY <2>1, <2>2, <2>3, <2>4, <2>5, NextCases
<1> QED
  BY <1>1, <1>2, PTL DEF Spec

-----------------------------------------------------------------------------
(***************************************************************************)
(* RemovedExactly, by an invariant of the removal: the edges that are gone *)
(* had an end that is gone, those that will go are in the loops, and what  *)
(* remains keeps an edge into it.                                          *)
(***************************************************************************)
Removed == SuperNodes(prog) \ nodes
Touches(e) == e.src \in Removed \/ e.dst \in Removed
RemoveFrames == [node : Removed, todo : SUBSET SuperEdges(prog)]

Removing ==
    /\ nodes \subseteq SuperNodes(prog) /\ edges \subseteq SuperEdges(prog)
    /\ frames \in Seq(RemoveFrames)
    /\ \A i \in 1 .. Len(frames) : \A e \in frames[i].todo : frames[i].node \in {e.src, e.dst}
    /\ task.node \in Removed /\ Removed \subseteq AllGone(prog, task.node)
    /\ \A e \in SuperEdges(prog) \ edges : Touches(e)
    /\ \A e \in edges : Touches(e) => \E i \in 1 .. Len(frames) : e \in frames[i].todo
    /\ \A n \in nodes : (\E e \in SuperEdges(prog) : e.dst = n) => \E e \in edges : e.dst = n

\* A call of remove_node, that starts with the edges of the node still there.
LEMMA DetachKeeps ==
    ASSUME TaskOK, NEW n \in nodes, NEW calls \in Seq(RemoveFrames), Detach(n, calls),
           nodes \subseteq SuperNodes(prog), edges' \subseteq SuperEdges(prog), prog' = prog,
           \A i \in 1 .. Len(calls) : \A e \in calls[i].todo : calls[i].node \in {e.src, e.dst},
           \A e \in SuperEdges(prog) \ edges' : Touches(e),
           \A e \in edges' : Touches(e) => \E i \in 1 .. Len(calls) : e \in calls[i].todo,
           \A m \in nodes \ {n} : (\E e \in SuperEdges(prog) : e.dst = m)
                                     => \E e \in edges' : e.dst = m,
           task'.node \in Removed \cup {n},
           Removed \subseteq AllGone(prog, task'.node), n \in AllGone(prog, task'.node)
    PROVE  Removing'
<1> DEFINE top == [node |-> n, todo |-> {e \in edges' : n \in {e.src, e.dst}}]
<1>1. nodes' = nodes \ {n} /\ frames' = Append(calls, top)
  BY DEF Detach
<1>2. Removed' = Removed \cup {n}
  BY <1>1 DEF Removed
<1>3. RemoveFrames' = [node : Removed \cup {n}, todo : SUBSET SuperEdges(prog)]
  BY <1>2 DEF RemoveFrames
<1>4. RemoveFrames \subseteq RemoveFrames'
  BY <1>3 DEF RemoveFrames
<1>5. calls \in Seq(RemoveFrames')
  BY <1>4, SeqMonotonic
<1>6. top \in RemoveFrames'
  BY <1>3
<1> HIDE DEF top
<1>7. /\ frames' \in Seq(RemoveFrames') /\ Len(frames') = Len(calls) + 1 /\ Len(calls) \in Nat
      /\ \A i \in 1 .. Len(calls) : frames'[i] = calls[i]
      /\ frames'[Len(calls) + 1] = top
  BY <1>1, <1>5, <1>6, AppendProperties, LenProperties
<1>8. \A i \in 1 .. Len(frames') : \A e \in frames'[i].todo : frames'[i].node \in {e.src, e.dst}
  <2> TAKE i \in 1 .. Len(frames')
  <2>1. CASE i \in 1 .. Len(calls)
    BY <2>1, <1>7
  <2>2. CASE i = Len(calls) + 1
    BY <2>2, <1>7 DEF top
  <2> QED
    BY <2>1, <2>2, <1>7
<1>9. \A e : Touches(e)' <=> Touches(e) \/ n \in {e.src, e.dst}
  BY <1>2 DEF Touches
<1>10. \A e \in edges' : Touches(e)' => \E i \in 1 .. Len(frames') : e \in frames'[i].todo
  <2> SUFFICES ASSUME NEW e \in edges', Touches(e)'
               PROVE  \E i \in 1 .. Len(frames') : e \in frames'[i].todo
    OBVIOUS
  <2>1. CASE n \in {e.src, e.dst}
    <3>1. e \in top.todo
      BY <2>1 DEF top
    <3> QED
      BY <3>1, <1>7
  <2>2. CASE Touches(e)
    <3>1. PICK i \in 1 .. Len(calls) : e \in calls[i].todo
      BY <2>2
    <3>2. i \in 1 .. Len(frames') /\ frames'[i] = calls[i]
      BY <1>7
    <3> QED
      BY <3>1, <3>2
  <2> QED
    BY <2>1, <2>2, <1>9
<1>11. \A e \in SuperEdges(prog') \ edges' : Touches(e)'
  BY <1>9
<1>12. \A m \in nodes' : (\E e \in SuperEdges(prog') : e.dst = m) => \E e \in edges' : e.dst = m
  BY <1>1
<1>13. task'.node \in Removed' /\ Removed' \subseteq AllGone(prog', task'.node)
  BY <1>2
<1>14. nodes' \subseteq SuperNodes(prog') /\ edges' \subseteq SuperEdges(prog')
  BY <1>1
<1> QED
  BY <1>7, <1>8, <1>10, <1>11, <1>12, <1>13, <1>14 DEF Removing

\* One edge less to do in the loop on top.
LEMMA WithoutKeeps ==
    ASSUME NEW S, NEW T, frames \in Seq([node : S, todo : SUBSET T]), frames # <<>>, NEW x
    PROVE  /\ Without(x) \in Seq([node : S, todo : SUBSET T])
           /\ Len(Without(x)) = Len(frames) /\ Len(frames) \in Nat \ {0}
           /\ \A i \in 1 .. (Len(frames) - 1) : Without(x)[i] = frames[i]
           /\ Without(x)[Len(frames)] =
                 [node |-> Top(frames).node, todo |-> Top(frames).todo \ {x}]
           /\ Top(frames) = frames[Len(frames)]
           /\ Top(frames) \in [node : S, todo : SUBSET T]
<1> DEFINE F == [node : S, todo : SUBSET T]
           top == [Top(frames) EXCEPT !.todo = @ \ {x}]
<1>1. Top(frames) \in F /\ Len(frames) \in Nat \ {0}
  BY PopProperties
<1>2. top = [node |-> Top(frames).node, todo |-> Top(frames).todo \ {x}] /\ top \in F
  <2>1. \A t \in F : \A rest : [t EXCEPT !.todo = rest] = [node |-> t.node, todo |-> rest]
    OBVIOUS
  <2>2. \A t \in F : [node |-> t.node, todo |-> t.todo \ {x}] \in F
    OBVIOUS
  <2> HIDE DEF F
  <2> QED
    BY <1>1, <2>1, <2>2
<1>3. Without(x) = Append(Pop(frames), top)
  BY DEF Without
<1> HIDE DEF F, top
<1>4. frames \in Seq(F)
  BY DEF F
<1>5. /\ Append(Pop(frames), top) \in Seq(F)
      /\ Len(Append(Pop(frames), top)) = Len(frames)
      /\ \A i \in 1 .. (Len(frames) - 1) : Append(Pop(frames), top)[i] = frames[i]
      /\ Append(Pop(frames), top)[Len(frames)] = top
  BY <1>4, <1>2, ReplaceTop
<1>6. Without(x) \in Seq([node : S, todo : SUBSET T])
  BY <1>3, <1>5 DEF F
<1>7. Top(frames) \in [node : S, todo : SUBSET T]
  BY <1>1 DEF F
<1> QED
  BY <1>1, <1>2, <1>3, <1>5, <1>6, <1>7, Zenon DEF Top

\* Every step of a removal keeps its invariant.
LEMMA RemoveEdgeKeeps ==
    ASSUME TaskOK, Removing, RemoveEdge
    PROVE  Removing'
<1>1. /\ task.kind = "remove" /\ frames # <<>> /\ prog' = prog /\ task' = task
      /\ prog \in Programs
  BY DEF RemoveEdge, TaskOK
<1>2. PICK e \in Top(frames).todo :
           IF e \notin edges THEN frames' = Without(e) /\ UNCHANGED <<nodes, edges>>
           ELSE /\ edges' = edges \ {e}
                /\ IF e.dst \in nodes /\ \A other \in edges' : other.dst # e.dst
                   THEN Detach(e.dst, Without(e))
                   ELSE frames' = Without(e) /\ UNCHANGED nodes
  BY DEF RemoveEdge
<1>3. /\ nodes \subseteq SuperNodes(prog) /\ edges \subseteq SuperEdges(prog)
      /\ frames \in Seq(RemoveFrames)
      /\ \A i \in 1 .. Len(frames) : \A f \in frames[i].todo : frames[i].node \in {f.src, f.dst}
      /\ task.node \in Removed /\ Removed \subseteq AllGone(prog, task.node)
      /\ \A f \in SuperEdges(prog) \ edges : Touches(f)
      /\ \A f \in edges : Touches(f) => \E i \in 1 .. Len(frames) : f \in frames[i].todo
      /\ \A n \in nodes : (\E f \in SuperEdges(prog) : f.dst = n) => \E f \in edges : f.dst = n
  BY DEF Removing
<1>4. /\ Without(e) \in Seq(RemoveFrames)
      /\ Len(Without(e)) = Len(frames) /\ Len(frames) \in Nat \ {0}
      /\ \A i \in 1 .. (Len(frames) - 1) : Without(e)[i] = frames[i]
      /\ Without(e)[Len(frames)] = [node |-> Top(frames).node, todo |-> Top(frames).todo \ {e}]
      /\ Top(frames) = frames[Len(frames)]
      /\ Top(frames) \in RemoveFrames
  BY <1>1, <1>3, WithoutKeeps DEF RemoveFrames
\* What the loops have left to do.
<1>5. \A i \in 1 .. Len(frames) : /\ Without(e)[i].node = frames[i].node
                                  /\ Without(e)[i].todo \subseteq frames[i].todo
                                  /\ frames[i].todo \subseteq Without(e)[i].todo \cup {e}
  <2> TAKE i \in 1 .. Len(frames)
  <2>1. CASE i = Len(frames)
    BY <2>1, <1>4
  <2>2. CASE i \in 1 .. (Len(frames) - 1)
    BY <2>2, <1>4
  <2> QED
    BY <2>1, <2>2, <1>4
<1>6. \A i \in 1 .. Len(Without(e)) :
          \A f \in Without(e)[i].todo : Without(e)[i].node \in {f.src, f.dst}
  BY <1>3, <1>4, <1>5
<1>7. edges' \subseteq edges /\ e \notin edges' /\ edges \subseteq edges' \cup {e}
  BY <1>2
\* The edge itself has an end that is gone: that of the loop.
<1>8. Touches(e)
  <2>1. Top(frames).node \in Removed
    BY <1>4 DEF RemoveFrames
  <2>2. Top(frames).node \in {e.src, e.dst}
    BY <1>3, <1>4
  <2> QED
    BY <2>1, <2>2 DEF Touches
<1>9. \A f \in SuperEdges(prog) \ edges' : Touches(f)
  BY <1>3, <1>7, <1>8
<1>10. \A f \in edges' : Touches(f) => \E i \in 1 .. Len(Without(e)) : f \in Without(e)[i].todo
  <2> SUFFICES ASSUME NEW f \in edges', Touches(f)
               PROVE  \E i \in 1 .. Len(frames) : f \in Without(e)[i].todo
    BY <1>4
  <2>1. f \in edges /\ f # e
    BY <1>7
  <2>2. PICK i \in 1 .. Len(frames) : f \in frames[i].todo
    BY <2>1, <1>3
  <2> QED
    BY <2>1, <2>2, <1>5
<1>11. CASE frames' = Without(e) /\ UNCHANGED nodes
            /\ (e \in edges => ~(e.dst \in nodes /\ \A other \in edges' : other.dst # e.dst))
  <2>1. Removed' = Removed /\ RemoveFrames' = RemoveFrames /\ \A f : Touches(f)' <=> Touches(f)
    BY <1>1, <1>11 DEF Removed, RemoveFrames, Touches
  <2>2. \A n \in nodes : (\E f \in SuperEdges(prog) : f.dst = n) => \E f \in edges' : f.dst = n
    <3> SUFFICES ASSUME NEW n \in nodes, NEW f \in SuperEdges(prog), f.dst = n
                 PROVE  \E other \in edges' : other.dst = n
      OBVIOUS
    <3>1. PICK g \in edges : g.dst = n
      BY <1>3
    <3>2. CASE g \in edges'
      BY <3>1, <3>2
    <3>3. CASE g = e
      BY <3>1, <3>3, <1>11
    <3> QED
      BY <3>2, <3>3, <1>7
  <2>3. edges' \subseteq SuperEdges(prog)
    BY <1>3, <1>7
  <2> QED
    BY <1>1, <1>3, <1>4, <1>6, <1>9, <1>10, <1>11, <2>1, <2>2, <2>3 DEF Removing
<1>12. CASE e \in edges /\ e.dst \in nodes /\ (\A other \in edges' : other.dst # e.dst)
            /\ Detach(e.dst, Without(e))
  \* All edges into the node are gone, so all come from nodes that are.
  <2>1. e.dst \in Orphans(prog, AllGone(prog, task.node))
    <3>1. e.dst \in SuperNodes(prog) /\ e \in SuperEdges(prog)
      BY <1>3, <1>12
    <3>2. ASSUME NEW f \in SuperEdges(prog), f.dst = e.dst
          PROVE  f.src \in AllGone(prog, task.node)
      <4>1. f \notin edges'
        BY <1>12, <3>2
      <4>2. Touches(f)
        BY <4>1, <1>9
      <4>3. f.dst \notin Removed
        BY <1>12, <3>2 DEF Removed
      <4> QED
        BY <4>2, <4>3, <1>3 DEF Touches
    <3> QED
      BY <3>1, <3>2 DEF Orphans
  <2>2. task.node \in SuperNodes(prog)
    BY <1>3 DEF Removed
  <2>3. e.dst \in AllGone(prog, task.node)
    BY <2>1, <2>2, <1>1, GoneLeast
  <2>4. \A m \in nodes \ {e.dst} : (\E f \in SuperEdges(prog) : f.dst = m)
                                      => \E f \in edges' : f.dst = m
    BY <1>3, <1>7
  <2>5. edges' \subseteq SuperEdges(prog)
    BY <1>3, <1>7
  <2> HIDE DEF Removing
  <2> QED
    BY <1>1, <1>3, <1>4, <1>6, <1>9, <1>10, <1>12, <2>3, <2>4, <2>5, DetachKeeps
<1> QED
  BY <1>2, <1>11, <1>12

\* So long as a removal goes on, and when it is done.
THEOREM RemovalInvariant == Spec => [](task.kind = "remove" => Removing)
<1> DEFINE Inv == task.kind = "remove" => Removing
<1>1. Init => Inv
  BY DEF Init
<1>2. TaskOK /\ Inv /\ [Next]_vars => Inv'
  <2> SUFFICES ASSUME TaskOK, Inv, [Next]_vars, task'.kind = "remove" PROVE Removing'
    OBVIOUS
  <2>1. CASE \E n \in nodes : AskRemove(n)
    <3>1. PICK n \in nodes : AskRemove(n)
      BY <2>1
    <3>2. /\ task.kind = "none" /\ task' = [kind |-> "remove", node |-> n]
          /\ edges' = edges /\ Detach(n, frames) /\ prog' = prog
      BY <3>1 DEF AskRemove
    <3>3. /\ nodes = SuperNodes(prog) /\ edges = SuperEdges(prog) /\ frames = <<>>
          /\ prog \in Programs
      BY <3>2 DEF TaskOK
    <3>4. Removed = {} /\ \A e : ~Touches(e)
      BY <3>3 DEF Removed, Touches
    <3>5. frames \in Seq(RemoveFrames) /\ Len(frames) = 0
      BY <3>3, EmptySeq
    <3>6. n \in AllGone(prog, n)
      BY <3>3, GoneLeast
    <3>7. Detach(n, frames) /\ nodes \subseteq SuperNodes(prog) /\ edges' \subseteq SuperEdges(prog)
      BY <3>2, <3>3
    <3>8. \A i \in 1 .. Len(frames) : \A e \in frames[i].todo : frames[i].node \in {e.src, e.dst}
      BY <3>5
    <3>9. /\ \A e \in SuperEdges(prog) \ edges' : Touches(e)
          /\ \A e \in edges' : Touches(e) => \E i \in 1 .. Len(frames) : e \in frames[i].todo
          /\ \A m \in nodes \ {n} : (\E e \in SuperEdges(prog) : e.dst = m)
                                     => \E e \in edges' : e.dst = m
      BY <3>2, <3>3, <3>4
    <3>10. /\ task'.node \in Removed \cup {n} /\ n \in AllGone(prog, task'.node)
           /\ Removed \subseteq AllGone(prog, task'.node)
      BY <3>2, <3>4, <3>6
    <3> QED
      BY <3>2, <3>5, <3>7, <3>8, <3>9, <3>10, DetachKeeps
  <2>2. CASE RemoveEdge
    BY <2>2, RemoveEdgeKeeps DEF RemoveEdge
  <2>3. CASE RemoveReturn
    <3>1. /\ task.kind = "remove" /\ frames # <<>> /\ Top(frames).todo = {}
          /\ frames' = Pop(frames)
          /\ UNCHANGED <<prog, nodes, edges, task>>
      BY <2>3 DEF RemoveReturn
    <3>2. Removing /\ frames \in Seq(RemoveFrames)
      BY <3>1 DEF Removing
    <3>3. Removed' = Removed /\ RemoveFrames' = RemoveFrames /\ \A f : Touches(f)' <=> Touches(f)
      BY <3>1 DEF Removed, RemoveFrames, Touches
    <3>4. /\ Len(frames) \in Nat \ {0} /\ frames' \in Seq(RemoveFrames)
          /\ Len(frames') = Len(frames) - 1
          /\ \A i \in 1 .. (Len(frames) - 1) : frames'[i] = frames[i]
      BY <3>1, <3>2, PopProperties
    <3>5. frames[Len(frames)].todo = {}
      BY <3>1 DEF Top
    <3>6. ASSUME NEW e \in edges, Touches(e)
          PROVE  \E i \in 1 .. Len(frames') : e \in frames'[i].todo
      <4>1. PICK i \in 1 .. Len(frames) : e \in frames[i].todo
        BY <3>2, <3>6 DEF Removing
      <4>2. i \in 1 .. (Len(frames) - 1)
        BY <4>1, <3>4, <3>5
      <4> QED
        BY <4>1, <4>2, <3>4
    <3>7. \A i \in 1 .. Len(frames') : \A e \in frames'[i].todo : frames'[i].node \in {e.src, e.dst}
      BY <3>2, <3>4 DEF Removing
    <3>8. /\ nodes \subseteq SuperNodes(prog) /\ edges \subseteq SuperEdges(prog)
          /\ task.node \in Removed /\ Removed \subseteq AllGone(prog, task.node)
          /\ \A e \in SuperEdges(prog) \ edges : Touches(e)
          /\ \A n \in nodes : (\E e \in SuperEdges(prog) : e.dst = n) => \E e \in edges : e.dst = n
      BY <3>2 DEF Removing
    <3> QED
      BY <3>1, <3>3, <3>4, <3>6, <3>7, <3>8 DEF Removing
  <2>4. CASE UNCHANGED vars
    BY <2>4 DEF vars, Removing, Removed, RemoveFrames, Touches, AllGone
  <2>5. CASE Runs \/ Paths \/ Sorts
    BY <2>5, RunsFrame, PathsFrame, SortsFrame
  <2> QED
    BY <2>1, <2>2, <2>3, <2>4, <2>5, NextCases DEF Removes
<1> HIDE DEF Inv
<1>3. Spec => []Inv
  BY <1>1, <1>2, TaskInvariant, PTL DEF Spec
<1> QED
  BY <1>3 DEF Inv

\* RemovedExactly: what is left is what is still reached, with its edges.
THEOREM RemovesExactly == Spec => []RemovedExactly
<1>1. TaskOK /\ (task.kind = "remove" => Removing) => RemovedExactly
  <2> SUFFICES ASSUME TaskOK, Removing, frames = <<>>
               PROVE  /\ nodes = SuperNodes(prog) \ Gone
                      /\ edges = {e \in SuperEdges(prog) : {e.src, e.dst} \cap Gone = {}}
    BY DEF RemovedExactly
  <2>1. /\ nodes \subseteq SuperNodes(prog) /\ edges \subseteq SuperEdges(prog)
        /\ task.node \in Removed /\ Removed \subseteq AllGone(prog, task.node)
        /\ \A e \in SuperEdges(prog) \ edges : Touches(e)
        /\ \A n \in nodes : (\E e \in SuperEdges(prog) : e.dst = n) => \E e \in edges : e.dst = n
    BY DEF Removing
  <2>2. \A e \in edges : ~Touches(e)
    <3>1. Len(frames) = 0
      BY EmptySeq
    <3> QED
      BY <3>1 DEF Removing
  <2>3. Orphans(prog, Removed) \subseteq Removed
    <3> SUFFICES ASSUME NEW n \in Orphans(prog, Removed), n \in nodes PROVE FALSE
      BY DEF Orphans, Removed
    <3>1. PICK e \in edges : e.dst = n
      BY <2>1 DEF Orphans
    <3>2. e.src \in Removed
      BY <3>1, <2>1 DEF Orphans
    <3> QED
      BY <3>2, <2>2 DEF Touches
  <2>4. AllGone(prog, task.node) \subseteq Removed
    <3>1. Removed \in SUBSET SuperNodes(prog) /\ task.node \in SuperNodes(prog) /\ prog \in Programs
      BY <2>1 DEF Removed, TaskOK
    <3> QED
      BY <3>1, <2>1, <2>3, GoneLeast
  <2>5. Gone = Removed
    BY <2>1, <2>4 DEF Gone, AllGone
  <2> HIDE DEF Gone
  <2> QED
    BY <2>1, <2>2, <2>5 DEF Removed, Touches
<1> QED
  BY <1>1, TaskInvariant, RemovalInvariant, PTL

-----------------------------------------------------------------------------
(***************************************************************************)
(* CallersFirst, by an invariant of the sort: the calls of visit are a     *)
(* chain of callers, whose nodes are visited and not yet listed, and the   *)
(* callers that a call is done with have been visited.                     *)
(***************************************************************************)

\* What CalledFrom adds up to: callers, and the callers of those.
LEMMA CalledFromClosed ==
    ASSUME prog \in Programs, NEW f \in Funs(prog)
    PROVE  /\ Callers(f) \subseteq CalledFrom(f)
           /\ CalledFrom(f) \subseteq Funs(prog)
           /\ \A g \in CalledFrom(f) : Callers(g) \subseteq CalledFrom(f)
<1> DEFINE S == Funs(prog)
           all == CalledFrom(f)
           up(near) == UNION {Callers(g) : g \in near}
<1>1. IsFiniteSet(S)
  BY ProgramsAssumption DEF WellFormed
<1>2. \A g : Callers(g) \in SUBSET S
  BY DEF Callers
<1>3. \A near \in SUBSET S : near \cup up(near) \in SUBSET S
  BY <1>2
<1>4. Upward = [near \in SUBSET S |-> near \cup up(near)]
  BY DEF Upward
<1>5. /\ Upward \in [SUBSET S -> SUBSET S]
      /\ \A near \in SUBSET S : Upward[near] = near \cup up(near)
  <2> HIDE DEF up, S
  <2> QED
    BY <1>3, <1>4
<1>6. /\ Upward[all] = all /\ Callers(f) \subseteq all /\ all \in SUBSET S
  <2>1. \A near \in SUBSET S : near \subseteq Upward[near]
    BY <1>5
  <2> DEFINE step == Upward
  <2>2. step \in [SUBSET S -> SUBSET S] /\ \A near \in SUBSET S : near \subseteq step[near]
    BY <1>5, <2>1
  <2> HIDE DEF step, S
  <2>3. LET grown == Grown(step, Callers(f), Cardinality(S))
        IN  step[grown] = grown /\ Callers(f) \subseteq grown /\ grown \in SUBSET S
    BY <1>1, <1>2, <2>2, GrownClosed
  <2> QED
    BY <2>3 DEF CalledFrom, step, S
<1> HIDE DEF all
<1>7. up(all) \subseteq all
  BY <1>5, <1>6
<1> QED
  BY <1>6, <1>7 DEF all

SortFrames == [node : Funs(prog), todo : SUBSET Funs(prog)]
Listed == {order[i] : i \in 1 .. Len(order)}

CallChain(calls, seen) ==
    /\ calls \in Seq(SortFrames)
    /\ visited = Listed \cup {calls[i].node : i \in 1 .. Len(calls)}
    /\ \A i \in 1 .. Len(calls) :
          /\ calls[i].node \notin Listed
          /\ calls[i].todo \subseteq Callers(calls[i].node)
          /\ Callers(calls[i].node) \subseteq calls[i].todo \cup seen
    /\ \A i, j \in 1 .. Len(calls) : i < j => /\ calls[i].node # calls[j].node
                                              /\ calls[j].node \in CalledFrom(calls[i].node)

SortOK ==
    /\ order \in Seq(Funs(prog))
    /\ CallersFirst
    /\ CallChain(frames, visited)

Precedes(s, f, g) == \E i, j \in DOMAIN s : i < j /\ s[i] = f /\ s[j] = g

\* Callers are what the program has of them.
LEMMA SortUnchanged ==
    ASSUME prog' = prog
    PROVE  /\ SortFrames' = SortFrames
           /\ \A f : Callers(f)' = Callers(f) /\ CalledFrom(f)' = CalledFrom(f)
BY DEF SortFrames, Callers, CalledFrom, Upward

\* A call of visit, from the loop of the one before it if there is one.
LEMMA VisitKeeps ==
    ASSUME prog \in Programs, prog' = prog, order \in Seq(Funs(prog)), CallersFirst,
           NEW f \in Funs(prog), NEW calls, CallChain(calls, visited \cup {f}),
           calls # <<>> => f \in Callers(Top(calls).node),
           Visit(f, calls)
    PROVE  SortOK'
<1>1. /\ SortFrames' = SortFrames
      /\ \A g : Callers(g)' = Callers(g) /\ CalledFrom(g)' = CalledFrom(g)
  BY SortUnchanged
<1>2. order' = order /\ Listed' = Listed
  BY DEF Visit, Listed
<1>3. CallersFirst'
  BY <1>1, <1>2, prog' = prog DEF CallersFirst, Before
<1>4. /\ calls \in Seq(SortFrames)
      /\ visited = Listed \cup {calls[i].node : i \in 1 .. Len(calls)}
      /\ \A i \in 1 .. Len(calls) :
            /\ calls[i].node \notin Listed
            /\ calls[i].todo \subseteq Callers(calls[i].node)
            /\ Callers(calls[i].node) \subseteq calls[i].todo \cup (visited \cup {f})
      /\ \A i, j \in 1 .. Len(calls) : i < j => /\ calls[i].node # calls[j].node
                                                /\ calls[j].node \in CalledFrom(calls[i].node)
  BY DEF CallChain
<1>5. CASE f \in visited
  <2>1. frames' = calls /\ visited' = visited
    BY <1>5 DEF Visit
  <2>2. CallChain(frames, visited)'
    BY <1>1, <1>2, <1>4, <1>5, <2>1 DEF CallChain
  <2> QED
    BY <1>2, <1>3, <2>2 DEF SortOK
<1>6. CASE f \notin visited
  <2> DEFINE top == [node |-> f, todo |-> Callers(f)]
             n == Len(calls)
  <2>1. visited' = visited \cup {f} /\ frames' = Append(calls, top)
    BY <1>6 DEF Visit
  <2>2. top \in SortFrames
    BY DEF SortFrames, Callers
  <2>3. /\ frames' \in Seq(SortFrames) /\ n \in Nat /\ Len(frames') = n + 1
        /\ \A i \in 1 .. n : frames'[i] = calls[i]
        /\ frames'[n + 1] = top
    <3> HIDE DEF top
    <3> QED
      BY <1>4, <2>1, <2>2, AppendProperties, LenProperties
  <2> HIDE DEF n
  <2>4. visited' = Listed' \cup {frames'[i].node : i \in 1 .. Len(frames')}
    <3>1. {frames'[i].node : i \in 1 .. (n + 1)} = {calls[i].node : i \in 1 .. n} \cup {f}
      <4>1. \A i \in 1 .. (n + 1) : i \in 1 .. n \/ i = n + 1
        BY <2>3
      <4>2. 1 .. n \subseteq 1 .. (n + 1) /\ n + 1 \in 1 .. (n + 1)
        BY <2>3
      <4> QED
        BY <2>3, <4>1, <4>2
    <3> QED
      BY <1>2, <1>4, <2>1, <2>3, <3>1 DEF n
  <2>5. \A i \in 1 .. Len(frames') :
            /\ frames'[i].node \notin Listed'
            /\ frames'[i].todo \subseteq Callers(frames'[i].node)
            /\ Callers(frames'[i].node) \subseteq frames'[i].todo \cup visited'
    <3> TAKE i \in 1 .. Len(frames')
    <3>1. CASE i \in 1 .. n
      BY <3>1, <1>2, <1>4, <2>1, <2>3 DEF n
    <3>2. CASE i = n + 1
      BY <3>2, <1>2, <1>4, <1>6, <2>3
    <3> QED
      BY <3>1, <3>2, <2>3
  <2>6. \A i, j \in 1 .. Len(frames') :
            i < j => /\ frames'[i].node # frames'[j].node
                     /\ frames'[j].node \in CalledFrom(frames'[i].node)
    <3> SUFFICES ASSUME NEW i \in 1 .. Len(frames'), NEW j \in 1 .. Len(frames'), i < j
                 PROVE  /\ frames'[i].node # frames'[j].node
                        /\ frames'[j].node \in CalledFrom(frames'[i].node)
      OBVIOUS
    <3>1. i \in 1 .. n /\ frames'[i] = calls[i]
      BY <2>3
    <3>2. CASE j \in 1 .. n
      BY <3>1, <3>2, <1>4, <2>3 DEF n
    <3>3. CASE j = n + 1
      <4>1. frames'[j].node = f
        BY <3>3, <2>3
      <4>2. calls[i].node \in visited
        BY <3>1, <1>4 DEF n
      <4>3. n \in 1 .. n /\ Top(calls) = calls[n] /\ calls # <<>>
        BY <3>1, <2>3, EmptySeq DEF Top, n
      <4>4. f \in Callers(calls[n].node)
        BY <4>3
      <4>5. calls[i].node \in Funs(prog) /\ calls[n].node \in Funs(prog)
        <5>1. calls[i] \in SortFrames /\ calls[n] \in SortFrames
          BY <3>1, <4>3, <1>4, ElementOfSeq DEF n
        <5> QED
          BY <5>1 DEF SortFrames
      <4>6. CASE i = n
        BY <4>1, <4>2, <4>4, <4>5, <4>6, <3>1, <1>6, CalledFromClosed
      <4>7. CASE i < n
        <5>1. calls[n].node \in CalledFrom(calls[i].node)
          BY <4>3, <4>7, <3>1, <1>4 DEF n
        <5> QED
          BY <5>1, <4>1, <4>2, <4>4, <4>5, <3>1, <1>6, CalledFromClosed
      <4> QED
        BY <4>6, <4>7, <3>1, <2>3
    <3> QED
      BY <3>2, <3>3, <2>3
  <2>7. CallChain(frames, visited)'
    BY <1>1, <2>3, <2>4, <2>5, <2>6 DEF CallChain
  <2> QED
    BY <1>2, <1>3, <2>7 DEF SortOK
<1> QED
  BY <1>5, <1>6

\* A node is listed: its callers that are not are in calls that wait for it.
LEMMA SortAppendKeeps ==
    ASSUME TaskOK, SortOK, SortAppend
    PROVE  SortOK'
<1> DEFINE n == Len(frames)
           f == Top(frames).node
           k == Len(order)
<1>1. /\ prog \in Programs /\ prog' = prog /\ frames # <<>> /\ Top(frames).todo = {}
      /\ order' = Append(order, f) /\ frames' = Pop(frames) /\ visited' = visited
  BY DEF SortAppend, TaskOK
<1>2. /\ SortFrames' = SortFrames
      /\ \A g : Callers(g)' = Callers(g) /\ CalledFrom(g)' = CalledFrom(g)
  BY <1>1, SortUnchanged
<1>3. /\ order \in Seq(Funs(prog)) /\ CallersFirst
      /\ frames \in Seq(SortFrames)
      /\ visited = Listed \cup {frames[i].node : i \in 1 .. n}
      /\ \A i \in 1 .. n :
            /\ frames[i].node \notin Listed
            /\ frames[i].todo \subseteq Callers(frames[i].node)
            /\ Callers(frames[i].node) \subseteq frames[i].todo \cup visited
      /\ \A i, j \in 1 .. n : i < j => /\ frames[i].node # frames[j].node
                                       /\ frames[j].node \in CalledFrom(frames[i].node)
  BY DEF SortOK, CallChain
<1>4. /\ n \in Nat \ {0} /\ n \in 1 .. n /\ frames[n] = Top(frames) /\ Top(frames) \in SortFrames
      /\ frames' \in Seq(SortFrames) /\ Len(frames') = n - 1
      /\ \A i \in 1 .. (n - 1) : frames'[i] = frames[i]
  BY <1>1, <1>3, PopProperties DEF Top
<1>5. f \in Funs(prog) /\ frames[n].node = f
  BY <1>4 DEF SortFrames
<1> HIDE DEF n, f
<1>6. /\ k \in Nat /\ order' \in Seq(Funs(prog)) /\ Len(order') = k + 1
      /\ DOMAIN order = 1 .. k /\ DOMAIN order' = 1 .. (k + 1)
      /\ \A i \in 1 .. k : order'[i] = order[i]
      /\ order'[k + 1] = f
  <2>1. /\ order' \in Seq(Funs(prog)) /\ Len(order') = k + 1
        /\ \A i \in 1 .. k : order'[i] = order[i]
        /\ order'[k + 1] = f
    BY <1>1, <1>3, <1>5, AppendProperties
  <2> QED
    BY <2>1, <1>3, LenProperties
<1> HIDE DEF k
<1>7. Listed = {order[i] : i \in 1 .. k} /\ Listed' = Listed \cup {f}
  <2>1. \A i \in 1 .. (k + 1) : i \in 1 .. k \/ i = k + 1
    BY <1>6
  <2>2. 1 .. k \subseteq 1 .. (k + 1) /\ k + 1 \in 1 .. (k + 1)
    BY <1>6
  <2>3. Listed = {order[i] : i \in 1 .. k} /\ Listed' = {order'[i] : i \in 1 .. (k + 1)}
    BY <1>6 DEF Listed, k
  <2> QED
    BY <1>6, <2>1, <2>2, <2>3
<1>8. f \notin Listed
  BY <1>3, <1>4, <1>5
<1>9. \A g, h : Precedes(order, g, h) => Precedes(order', g, h)
  <2> SUFFICES ASSUME NEW g, NEW h, Precedes(order, g, h) PROVE Precedes(order', g, h)
    OBVIOUS
  <2>1. PICK i \in 1 .. k, j \in 1 .. k : i < j /\ order[i] = g /\ order[j] = h
    BY <1>6 DEF Precedes
  <2>2. i \in 1 .. (k + 1) /\ j \in 1 .. (k + 1) /\ order'[i] = g /\ order'[j] = h
    BY <2>1, <1>6
  <2> QED
    BY <2>1, <2>2, <1>6 DEF Precedes
<1>10. ASSUME NEW g \in Callers(f)
       PROVE  f \in CalledFrom(g) \/ Precedes(order', g, f)
  <2>1. g \in visited /\ g # f
    BY <1>1, <1>3, <1>4, <1>5, <1>10 DEF Callers
  <2>2. CASE g \in Listed
    <3>1. PICK i \in 1 .. k : order[i] = g
      BY <2>2, <1>7
    <3>2. /\ i \in 1 .. (k + 1) /\ k + 1 \in 1 .. (k + 1) /\ i < k + 1
          /\ order'[i] = g /\ order'[k + 1] = f
      BY <3>1, <1>6
    <3> QED
      BY <3>2, <1>6 DEF Precedes
  <2>3. CASE g \notin Listed
    <3>1. PICK i \in 1 .. n : frames[i].node = g
      BY <2>1, <2>3, <1>3
    <3>2. i < n
      BY <3>1, <2>1, <1>4, <1>5
    <3> QED
      BY <3>1, <3>2, <1>3, <1>4, <1>5
  <2> QED
    BY <2>2, <2>3
<1>11. CallersFirst'
  <2>1. \A i, j \in 1 .. (k + 1) : i # j => order'[i] # order'[j]
    <3> SUFFICES ASSUME NEW i \in 1 .. (k + 1), NEW j \in 1 .. (k + 1), i # j
                 PROVE  order'[i] # order'[j]
      OBVIOUS
    <3>1. CASE i \in 1 .. k /\ j \in 1 .. k
      BY <3>1, <1>3, <1>6 DEF CallersFirst
    <3>2. CASE i = k + 1 /\ j \in 1 .. k
      BY <3>2, <1>6, <1>7, <1>8
    <3>3. CASE j = k + 1 /\ i \in 1 .. k
      BY <3>3, <1>6, <1>7, <1>8
    <3> QED
      BY <3>1, <3>2, <3>3, <1>6
  <2>2. ASSUME NEW i \in 1 .. (k + 1), NEW g \in Callers(order'[i])
        PROVE  order'[i] \in CalledFrom(g) \/ Precedes(order', g, order'[i])
    <3>1. CASE i \in 1 .. k
      <4>1. order'[i] = order[i] /\ i \in DOMAIN order
        BY <3>1, <1>6
      <4>2. order[i] \in CalledFrom(g) \/ Before(g, order[i])
        BY <4>1, <2>2, <1>3 DEF CallersFirst
      <4>3. Before(g, order[i]) => Precedes(order, g, order[i])
        BY DEF Before, Precedes
      <4> QED
        BY <4>1, <4>2, <4>3, <1>9
    <3>2. CASE i = k + 1
      BY <3>2, <2>2, <1>6, <1>10
    <3> QED
      BY <3>1, <3>2, <1>6
  <2> QED
    BY <2>1, <2>2, <1>2, <1>6 DEF CallersFirst, Before, Precedes
<1>12. visited' = Listed' \cup {frames'[i].node : i \in 1 .. Len(frames')}
  <2>1. {frames[i].node : i \in 1 .. n} = {frames'[i].node : i \in 1 .. (n - 1)} \cup {f}
    <3>1. \A i \in 1 .. n : i \in 1 .. (n - 1) \/ i = n
      BY <1>4
    <3>2. 1 .. (n - 1) \subseteq 1 .. n
      BY <1>4
    <3> QED
      BY <1>4, <1>5, <3>1, <3>2
  <2> QED
    BY <2>1, <1>1, <1>3, <1>4, <1>7
<1>13. \A i \in 1 .. (n - 1) : i \in 1 .. n /\ i < n
  BY <1>4
<1>14. \A i \in 1 .. Len(frames') :
          /\ frames'[i].node \notin Listed'
          /\ frames'[i].todo \subseteq Callers(frames'[i].node)
          /\ Callers(frames'[i].node) \subseteq frames'[i].todo \cup visited'
  BY <1>1, <1>3, <1>4, <1>5, <1>7, <1>13, ZenonT(40)
<1>15. \A i, j \in 1 .. Len(frames') :
          i < j => /\ frames'[i].node # frames'[j].node
                   /\ frames'[j].node \in CalledFrom(frames'[i].node)
  BY <1>3, <1>4, <1>13
<1>16. CallChain(frames, visited)'
  BY <1>2, <1>4, <1>12, <1>14, <1>15 DEF CallChain
<1> QED
  BY <1>1, <1>6, <1>11, <1>16 DEF SortOK

\* In a sort, and before one.
THEOREM SortInvariant == Spec => [](task.kind = "sort" => SortOK)
<1> DEFINE Inv == task.kind = "sort" => SortOK
<1>1. Init => Inv
  BY DEF Init
<1>2. TaskOK /\ Inv /\ [Next]_vars => Inv'
  <2> SUFFICES ASSUME TaskOK, Inv, [Next]_vars, task'.kind = "sort" PROVE SortOK'
    OBVIOUS
  <2>1. CASE AskSort
    <3>1. frames' = <<>> /\ visited' = {} /\ order' = <<>>
      BY <2>1 DEF AskSort, TaskOK, walk
    <3>2. /\ order' \in Seq(Funs(prog')) /\ frames' \in Seq(SortFrames')
          /\ Len(order') = 0 /\ Len(frames') = 0 /\ DOMAIN order' = {}
      BY <3>1, EmptySeq
    <3>3. CallersFirst'
      BY <3>2 DEF CallersFirst
    <3>4. Listed' = {} /\ {frames'[i].node : i \in 1 .. Len(frames')} = {}
      BY <3>2 DEF Listed
    <3>5. CallChain(frames, visited)'
      BY <3>1, <3>2, <3>4 DEF CallChain
    <3> QED
      BY <3>2, <3>3, <3>5 DEF SortOK
  <2>2. CASE SortRoot
    <3>1. PICK f \in task.todo :
              IF Callees(f) = {} THEN Visit(f, frames) ELSE UNCHANGED walk
      BY <2>2 DEF SortRoot
    <3>2. /\ prog \in Programs /\ prog' = prog /\ SortOK /\ frames = <<>> /\ f \in Funs(prog)
      BY <2>2, <3>1 DEF SortRoot, Sorting, TaskOK
    <3>3. CASE Visit(f, frames)
      <4>1. order \in Seq(Funs(prog)) /\ CallersFirst /\ CallChain(frames, visited \cup {f})
        BY <3>2 DEF SortOK, CallChain
      <4> QED
        BY <3>2, <3>3, <4>1, VisitKeeps
    <3>4. CASE UNCHANGED walk
      BY <3>2, <3>4, SortUnchanged
         DEF SortOK, CallersFirst, Before, CallChain, Listed, walk
    <3> QED
      BY <3>1, <3>3, <3>4
  <2>3. CASE SortCaller
    <3>1. PICK f \in Top(frames).todo : Visit(f, Without(f))
      BY <2>3 DEF SortCaller
    <3>2. prog \in Programs /\ prog' = prog /\ SortOK /\ frames # <<>>
      BY <2>3 DEF SortCaller, Sorting, TaskOK
    <3>3. /\ order \in Seq(Funs(prog)) /\ CallersFirst
          /\ frames \in Seq(SortFrames)
          /\ visited = Listed \cup {frames[i].node : i \in 1 .. Len(frames)}
          /\ \A i \in 1 .. Len(frames) :
                /\ frames[i].node \notin Listed
                /\ frames[i].todo \subseteq Callers(frames[i].node)
                /\ Callers(frames[i].node) \subseteq frames[i].todo \cup visited
          /\ \A i, j \in 1 .. Len(frames) :
                i < j => /\ frames[i].node # frames[j].node
                         /\ frames[j].node \in CalledFrom(frames[i].node)
      BY <3>2 DEF SortOK, CallChain
    <3>4. /\ Without(f) \in Seq(SortFrames)
          /\ Len(Without(f)) = Len(frames) /\ Len(frames) \in Nat \ {0}
          /\ \A i \in 1 .. (Len(frames) - 1) : Without(f)[i] = frames[i]
          /\ Without(f)[Len(frames)] =
                [node |-> Top(frames).node, todo |-> Top(frames).todo \ {f}]
          /\ Top(frames) = frames[Len(frames)]
          /\ Top(frames) \in SortFrames
      BY <3>2, <3>3, WithoutKeeps DEF SortFrames
    <3>5. \A i \in 1 .. Len(frames) : /\ Without(f)[i].node = frames[i].node
                                      /\ Without(f)[i].todo \subseteq frames[i].todo
                                      /\ frames[i].todo \subseteq Without(f)[i].todo \cup {f}
      <4> TAKE i \in 1 .. Len(frames)
      <4>1. CASE i = Len(frames)
        BY <4>1, <3>4
      <4>2. CASE i \in 1 .. (Len(frames) - 1)
        BY <4>2, <3>4
      <4> QED
        BY <4>1, <4>2, <3>4
    <3>6. f \in Funs(prog)
      BY <3>4 DEF SortFrames
    <3>7. f \in Callers(Top(Without(f)).node)
      <4>1. Top(Without(f)) = Without(f)[Len(Without(f))]
        BY DEF Top
      <4>2. Top(Without(f)).node = Top(frames).node
        BY <4>1, <3>4
      <4>3. Len(frames) \in 1 .. Len(frames)
        BY <3>4
      <4> QED
        BY <4>2, <4>3, <3>1, <3>3, <3>4
    <3>8. CallChain(Without(f), visited \cup {f})
      <4> DEFINE calls == Without(f)
                 n == Len(frames)
      <4>1. calls \in Seq(SortFrames) /\ Len(calls) = n
        BY <3>4
      <4>2. \A i \in 1 .. n : /\ calls[i].node = frames[i].node
                              /\ calls[i].todo \subseteq frames[i].todo
                              /\ frames[i].todo \subseteq calls[i].todo \cup {f}
        BY <3>5
      <4> HIDE DEF calls
      <4>3. visited = Listed \cup {calls[i].node : i \in 1 .. n}
        BY <3>3, <4>2
      <4>4. \A i \in 1 .. n :
               /\ calls[i].node \notin Listed
               /\ calls[i].todo \subseteq Callers(calls[i].node)
               /\ Callers(calls[i].node) \subseteq calls[i].todo \cup (visited \cup {f})
        <5> TAKE i \in 1 .. n
        <5>1. /\ frames[i].node \notin Listed
              /\ frames[i].todo \subseteq Callers(frames[i].node)
              /\ Callers(frames[i].node) \subseteq frames[i].todo \cup visited
          BY <3>3
        <5> QED
          BY <5>1, <4>2
      <4>5. \A i, j \in 1 .. n : i < j => /\ calls[i].node # calls[j].node
                                          /\ calls[j].node \in CalledFrom(calls[i].node)
        BY <3>3, <4>2
      <4>6. CallChain(calls, visited \cup {f})
        BY <4>1, <4>3, <4>4, <4>5 DEF CallChain
      <4> QED
        BY <4>6 DEF calls
    <3>9. order \in Seq(Funs(prog)) /\ CallersFirst
      BY <3>3
    <3> QED
      BY <3>1, <3>2, <3>6, <3>7, <3>8, <3>9, VisitKeeps
  <2>4. CASE SortAppend
    BY <2>4, SortAppendKeeps DEF SortAppend, Sorting
  <2>5. CASE UNCHANGED vars
    <3>1. prog' = prog /\ SortOK
      BY <2>5 DEF vars
    <3> QED
      BY <2>5, <3>1, SortUnchanged
         DEF SortOK, CallersFirst, Before, CallChain, Listed, vars
  <2>6. CASE Runs \/ Paths \/ Removes
    BY <2>6, RunsFrame, PathsFrame, RemovesFrame
  <2> QED
    BY <2>1, <2>2, <2>3, <2>4, <2>5, <2>6, NextCases DEF Sorts
<1> HIDE DEF Inv
<1>3. Spec => []Inv
  BY <1>1, <1>2, TaskInvariant, PTL DEF Spec
<1> QED
  BY <1>3 DEF Inv

\* CallersFirst: sorted_callgraph lists no function twice, and none before a
\* caller of it that it does not call.
THEOREM SortsCallersFirst == Spec => []CallersFirst
<1>1. TaskOK /\ (task.kind = "sort" => SortOK) => CallersFirst
  <2>1. DOMAIN <<>> = {}
    OBVIOUS
  <2> QED
    BY <2>1 DEF TaskOK, SortOK, CallersFirst
<1> QED
  BY <1>1, TaskInvariant, SortInvariant, PTL

-----------------------------------------------------------------------------
(***************************************************************************)
(* RunFollowed, by an invariant of the stack: a frame is at a statement of *)
(* its function, between calls if it is a call, and a frame below another  *)
(* is at a call of that one's function.                                    *)
(***************************************************************************)
Fn(f) == prog.funs[f]

RunFrames ==
    {fr \in [fun : Funs(prog), bb : UNION {Fn(f).blocks : f \in Funs(prog)}, i : Nat,
             side : {"node", "call", "return"}] :
        /\ fr.bb \in Fn(fr.fun).blocks
        /\ \/ fr.i = 0 /\ Body(Fn(fr.fun), fr.bb) = <<>>
           \/ fr.i \in 1 .. Len(Body(Fn(fr.fun), fr.bb))
        /\ IsIpCall(prog, StmtAt(fr)) <=> fr.side # "node"}

Calling(fr, callee) ==
    /\ fr.side = "call"
    /\ \E c \in IpCalls(prog) : c.stmt = StmtAt(fr) /\ c.callee = callee

StackOK ==
    /\ stack \in Seq(RunFrames)
    /\ \A k \in 1 .. (Len(stack) - 1) : Calling(stack[k], stack[k + 1].fun)

\* The frames of a program.
LEMMA RunUnchanged ==
    ASSUME prog' = prog
    PROVE  /\ RunFrames' = RunFrames
           /\ \A fr, f : Calling(fr, f)' <=> Calling(fr, f)
BY DEF RunFrames, Fn, Calling, StmtAt

\* Of what GCC sees to, that about a function.
LEMMA FunctionFacts ==
    ASSUME prog \in Programs, NEW f \in Funs(prog)
    PROVE  /\ Fn(f).entry \in Fn(f).blocks /\ Fn(f).exit \in Fn(f).blocks
           /\ \A b \in Fn(f).blocks : Body(Fn(f), b) \in Seq(Stmts)
           /\ Body(Fn(f), Fn(f).exit) = <<>>
           /\ \A e \in Fn(f).edges : e.src \in Fn(f).blocks
BY ProgramsAssumption DEF WellFormed, Fn

\* A statement of a block is one, and one of the function.
LEMMA BodyFacts ==
    ASSUME prog \in Programs, NEW f \in Funs(prog), NEW b \in Fn(f).blocks
    PROVE  LET body == Body(Fn(f), b)
           IN  /\ Len(body) \in Nat /\ DOMAIN body = 1 .. Len(body)
               /\ body = <<>> <=> Len(body) = 0
               /\ \A i \in 1 .. Len(body) : body[i] \in StmtsOf(Fn(f)) /\ body[i] \in Stmts
               /\ body # <<>> => Head(body) = body[1]
<1> DEFINE body == Body(Fn(f), b)
<1>1. body \in Seq(Stmts)
  BY FunctionFacts
<1>2. Len(body) \in Nat /\ DOMAIN body = 1 .. Len(body)
  BY <1>1, LenProperties
<1>3. \A i \in 1 .. Len(body) : body[i] \in Stmts
  BY <1>1, ElementOfSeq
<1>4. \A i \in 1 .. Len(body) : body[i] \in StmtsOf(Fn(f))
  <2> DEFINE of(c) == {Body(Fn(f), c)[i] : i \in DOMAIN Body(Fn(f), c)}
  <2>1. StmtsOf(Fn(f)) = UNION {of(c) : c \in Fn(f).blocks}
    BY DEF StmtsOf
  <2>2. \A i \in 1 .. Len(body) : body[i] \in of(b)
    BY <1>2
  <2> HIDE DEF of
  <2> QED
    BY <2>1, <2>2
<1> HIDE DEF body
<1>5. body = <<>> <=> Len(body) = 0
  BY <1>1, EmptySeq
<1>6. body # <<>> => Head(body) = body[1]
  BY <1>1
<1> QED
  BY <1>2, <1>3, <1>4, <1>5, <1>6 DEF body

\* None is no call.
LEMMA NoneIsNoCall ==
    ASSUME prog \in Programs
    PROVE  ~IsIpCall(prog, NoStmt)
<1> SUFFICES ASSUME NEW c \in prog.calls, c.stmt = NoStmt PROVE FALSE
  BY DEF IsIpCall, IpCalls
<1>1. PICK f \in Funs(prog) : NoStmt \in StmtsOf(Fn(f))
  BY ProgramsAssumption DEF WellFormed, Fn
<1>2. PICK b \in Fn(f).blocks : \E i \in DOMAIN Body(Fn(f), b) : NoStmt = Body(Fn(f), b)[i]
  BY <1>1 DEF StmtsOf
<1>3. NoStmt \in Stmts
  BY <1>2, BodyFacts
<1> QED
  BY <1>3, StmtsAssumption

\* The function that a statement is in.
LEMMA CallerIs ==
    ASSUME prog \in Programs, NEW f \in Funs(prog), NEW s \in StmtsOf(Fn(f))
    PROVE  Caller(prog, s) = f
<1>1. PICK b \in Fn(f).blocks : \E i \in DOMAIN Body(Fn(f), b) : s = Body(Fn(f), b)[i]
  BY DEF StmtsOf
<1>2. PICK i \in DOMAIN Body(Fn(f), b) : s = Body(Fn(f), b)[i]
  BY <1>1
<1>3. s \in Stmts /\ s # NoStmt
  BY <1>2, BodyFacts, StmtsAssumption
<1>4. \E n \in StmtNodes(Fn(f)) : n.stmt = s
  <2>1. StmtNode(b, s) \in StmtNodes(Fn(f))
    BY <1>2 DEF StmtNodes
  <2>2. StmtNode(b, s).stmt = s
    BY DEF StmtNode
  <2> QED
    BY <2>1, <2>2
<1>5. ASSUME NEW g \in Funs(prog), NEW n \in StmtNodes(Fn(g)), n.stmt = s
      PROVE  g = f
  <2>1. PICK c \in Fn(g).blocks :
             n \in {EntryOfBB(Fn(g), c)} \cup
                   {StmtNode(c, Body(Fn(g), c)[j]) : j \in DOMAIN Body(Fn(g), c)}
    BY DEF StmtNodes
  <2>2. CASE n = EntryOfBB(Fn(g), c)
    <3>1. Body(Fn(g), c) # <<>> /\ s = Head(Body(Fn(g), c))
      BY <1>3, <1>5, <2>2 DEF EntryOfBB, StmtNode
    <3>2. s = Body(Fn(g), c)[1] /\ 1 \in 1 .. Len(Body(Fn(g), c))
      BY <3>1, BodyFacts
    <3>3. s \in StmtsOf(Fn(g))
      BY <3>2, BodyFacts
    <3> QED
      BY <3>3, ProgramsAssumption DEF WellFormed, Fn
  <2>3. CASE n \in {StmtNode(c, Body(Fn(g), c)[j]) : j \in DOMAIN Body(Fn(g), c)}
    <3>1. PICK j \in DOMAIN Body(Fn(g), c) : s = Body(Fn(g), c)[j]
      BY <1>5, <2>3 DEF StmtNode
    <3>2. s \in StmtsOf(Fn(g))
      BY <3>1, BodyFacts
    <3> QED
      BY <3>2, ProgramsAssumption DEF WellFormed, Fn
  <2> QED
    BY <2>1, <2>2, <2>3
<1> QED
  <2>1. Caller(prog, s) \in Funs(prog) /\ \E n \in StmtNodes(Fn(Caller(prog, s))) : n.stmt = s
    BY <1>4 DEF Caller, Fn
  <2> QED
    BY <2>1, <1>5

\* A block is entered at its node.
LEMMA EntersBlock ==
    ASSUME prog \in Programs, NEW f \in Funs(prog), NEW b \in Fn(f).blocks
    PROVE  /\ At(f, b) \in RunFrames /\ At(f, b).fun = f /\ At(f, b).bb = b
           /\ NodeAt(At(f, b)) = EntryOfBB(Fn(f), b)
           /\ Place(At(f, b)) = Arrival(prog, f, EntryOfBB(Fn(f), b))
<1> DEFINE body == Body(Fn(f), b)
           fr == At(f, b)
           call == body # <<>> /\ IsIpCall(prog, Head(body))
<1>1. fr = [fun |-> f, bb |-> b, i |-> IF body = <<>> THEN 0 ELSE 1,
            side |-> IF call THEN "call" ELSE "node"]
  BY DEF At, Fn
<1>2. /\ Len(body) \in Nat /\ (body = <<>> <=> Len(body) = 0)
      /\ (body # <<>> => Head(body) = body[1])
  BY BodyFacts
<1>3. StmtAt(fr) = IF body = <<>> THEN NoStmt ELSE Head(body)
  BY <1>1, <1>2 DEF StmtAt, Fn
<1>4. EntryOfBB(Fn(f), b) = StmtNode(b, StmtAt(fr))
  BY <1>3 DEF EntryOfBB
<1>5. IsIpCall(prog, StmtAt(fr)) <=> call
  BY <1>3, NoneIsNoCall
<1> HIDE DEF fr, body
<1>6. fr.fun = f /\ fr.bb = b /\ fr.side \in {"node", "call"} /\ (fr.side = "call" <=> call)
  BY <1>1
<1>7. fr \in [fun : Funs(prog), bb : UNION {Fn(g).blocks : g \in Funs(prog)}, i : Nat,
              side : {"node", "call", "return"}]
  BY <1>1
<1>8. \/ fr.i = 0 /\ body = <<>>
      \/ fr.i \in 1 .. Len(body)
  BY <1>1, <1>2
<1>9. fr \in RunFrames
  BY <1>5, <1>6, <1>7, <1>8 DEF RunFrames, body
<1>10. NodeAt(fr) = EntryOfBB(Fn(f), b)
  BY <1>4, <1>6 DEF NodeAt
<1>11. Place(fr) = Arrival(prog, f, EntryOfBB(Fn(f), b))
  <2>1. Key(EntryOfBB(Fn(f), b)) = StmtAt(fr)
    BY <1>4 DEF Key, StmtNode
  <2>2. Arrival(prog, f, EntryOfBB(Fn(f), b)) = SuperNode(f, StmtAt(fr), fr.side)
    BY <2>1, <1>5, <1>6 DEF Arrival
  <2> QED
    BY <2>2, <1>6 DEF Place
<1> QED
  BY <1>6, <1>9, <1>10, <1>11 DEF fr

\* Where a frame is: its statement, and its supernode once it has returned
\* from the call if that is one.
LEMMA FrameFacts ==
    ASSUME prog \in Programs, NEW fr \in RunFrames
    PROVE  /\ fr.fun \in Funs(prog) /\ fr.bb \in Fn(fr.fun).blocks
           /\ fr.i \in 0 .. Len(Body(Fn(fr.fun), fr.bb))
           /\ fr.i = 0 <=> Body(Fn(fr.fun), fr.bb) = <<>>
           /\ fr.i = 0 => StmtAt(fr) = NoStmt
           /\ fr.i # 0 => /\ StmtAt(fr) = Body(Fn(fr.fun), fr.bb)[fr.i]
                          /\ StmtAt(fr) \in StmtsOf(Fn(fr.fun))
           /\ fr.side # "call" => Place(fr) = Departure(prog, fr.fun, NodeAt(fr))
           /\ NodeAt(fr) = StmtNode(fr.bb, StmtAt(fr))
<1> DEFINE body == Body(Fn(fr.fun), fr.bb)
<1>1. /\ fr.fun \in Funs(prog) /\ fr.bb \in Fn(fr.fun).blocks
      /\ fr.i \in Nat /\ fr.side \in {"node", "call", "return"}
      /\ \/ fr.i = 0 /\ body = <<>>
         \/ fr.i \in 1 .. Len(body)
      /\ IsIpCall(prog, StmtAt(fr)) <=> fr.side # "node"
  BY DEF RunFrames
<1>2. /\ Len(body) \in Nat /\ (body = <<>> <=> Len(body) = 0)
      /\ \A i \in 1 .. Len(body) : body[i] \in StmtsOf(Fn(fr.fun))
  BY <1>1, BodyFacts
<1>3. StmtAt(fr) = IF fr.i = 0 THEN NoStmt ELSE body[fr.i]
  BY DEF StmtAt, Fn
<1>4. NodeAt(fr) = StmtNode(fr.bb, StmtAt(fr))
  BY DEF NodeAt
<1>5. ASSUME fr.side # "call" PROVE Place(fr) = Departure(prog, fr.fun, NodeAt(fr))
  <2>1. Key(NodeAt(fr)) = StmtAt(fr)
    BY <1>4 DEF Key, StmtNode
  <2>2. Departure(prog, fr.fun, NodeAt(fr)) = SuperNode(fr.fun, StmtAt(fr), fr.side)
    BY <2>1, <1>1, <1>5 DEF Departure
  <2> QED
    BY <2>2 DEF Place
<1> HIDE DEF body
<1> QED
  BY <1>1, <1>2, <1>3, <1>4, <1>5 DEF body

\* At the end of a block a frame is where it is left, in the exit block where
\* the function is.
LEMMA LeavesBlock ==
    ASSUME prog \in Programs, NEW fr \in RunFrames, fr.i = Len(Body(Fn(fr.fun), fr.bb))
    PROVE  NodeAt(fr) = ExitOfBB(Fn(fr.fun), fr.bb)
<1> DEFINE body == Body(Fn(fr.fun), fr.bb)
<1>1. /\ fr.fun \in Funs(prog) /\ fr.bb \in Fn(fr.fun).blocks
      /\ fr.i = 0 <=> body = <<>>
      /\ fr.i = 0 => StmtAt(fr) = NoStmt
      /\ fr.i # 0 => StmtAt(fr) = body[fr.i]
      /\ NodeAt(fr) = StmtNode(fr.bb, StmtAt(fr))
  BY FrameFacts
<1> QED
  BY <1>1 DEF ExitOfBB

\* An edge of the statements of a function is one of the supergraph.
LEMMA CloneEdge ==
    ASSUME NEW f \in Funs(prog), NEW e \in StmtEdges(Fn(f), FALSE)
    PROVE  Joined(SuperEdges(prog), Departure(prog, f, e.src), Arrival(prog, f, e.dst))
<1> DEFINE s == Edge(Departure(prog, f, e.src), Arrival(prog, f, e.dst), "inner", e.cfgedge)
           of(g) == {Edge(Departure(prog, g, d.src), Arrival(prog, g, d.dst), "inner", d.cfgedge)
                        : d \in StmtEdges(prog.funs[g], FALSE)}
<1>1. CloneEdges(prog) = UNION {of(g) : g \in Funs(prog)}
  BY DEF CloneEdges
<1>2. s \in of(f)
  BY DEF Fn
<1> HIDE DEF of
<1>3. s \in SuperEdges(prog)
  BY <1>1, <1>2 DEF SuperEdges
<1>4. s.src = Departure(prog, f, e.src) /\ s.dst = Arrival(prog, f, e.dst)
  BY DEF Edge
<1> QED
  BY <1>3, <1>4 DEF Joined

\* The edges of a call are those of the supergraph.
LEMMA CallEdge ==
    ASSUME NEW c \in IpCalls(prog)
    PROVE  /\ Joined(SuperEdges(prog), CallNode(prog, c), Entry(prog, c.callee))
           /\ Joined(SuperEdges(prog), Exit(prog, c.callee), ReturnNode(prog, c))
<1> DEFINE of(d) == {Edge(CallNode(prog, d), ReturnNode(prog, d), "callToReturn", NoStmt),
                     Edge(CallNode(prog, d), Entry(prog, d.callee), "callToStart", NoStmt),
                     Edge(Exit(prog, d.callee), ReturnNode(prog, d), "exitToReturn", NoStmt)}
           in  == Edge(CallNode(prog, c), Entry(prog, c.callee), "callToStart", NoStmt)
           out == Edge(Exit(prog, c.callee), ReturnNode(prog, c), "exitToReturn", NoStmt)
<1>1. CallEdges(prog) = UNION {of(d) : d \in IpCalls(prog)}
  BY DEF CallEdges
<1>2. in \in of(c) /\ out \in of(c)
  OBVIOUS
<1> HIDE DEF of
<1>3. in \in SuperEdges(prog) /\ out \in SuperEdges(prog)
  BY <1>1, <1>2 DEF SuperEdges
<1>4. /\ in.src = CallNode(prog, c) /\ in.dst = Entry(prog, c.callee)
      /\ out.src = Exit(prog, c.callee) /\ out.dst = ReturnNode(prog, c)
  BY DEF Edge
<1> QED
  BY <1>3, <1>4 DEF Joined

\* A step of the run: the stack stays one, and the graph has an edge for it.
StepFollowed ==
    /\ StackOK'
    /\ stack # <<>> => /\ Joined(edges, Place(Top(stack)), Place(Top(stack')))
                       /\ Len(stack') = Len(stack) => Followed(Top(stack), Top(stack'))

\* A program starts with one frame, in the entry block of a function.
LEMMA StartFollowed ==
    ASSUME TaskOK, Start
    PROVE  StepFollowed
<1>1. PICK f \in Funs(prog) : stack' = <<At(f, Fn(f).entry)>>
  BY DEF Start, Fn
<1>2. prog' = prog /\ prog \in Programs /\ stack = <<>>
  BY DEF Start, TaskOK
<1>3. At(f, Fn(f).entry) \in RunFrames
  BY <1>2, FunctionFacts, EntersBlock
<1> DEFINE fr == At(f, Fn(f).entry)
<1> HIDE DEF fr
<1>4. <<fr>> \in Seq(RunFrames) /\ Len(<<fr>>) = 1
  BY <1>3 DEF fr
<1>5. StackOK'
  BY <1>1, <1>2, <1>4, RunUnchanged DEF StackOK, fr
<1> QED
  BY <1>2, <1>5 DEF StepFollowed

\* A call follows the edge from its node to the entry of the callee.
LEMMA CallFollowed ==
    ASSUME TaskOK, StackOK, Call
    PROVE  StepFollowed
<1> DEFINE top == Top(stack)
           n == Len(stack)
<1>1. /\ stack # <<>> /\ task.kind = "run" /\ top.side = "call"
      /\ prog' = prog /\ prog \in Programs /\ edges = SuperEdges(prog)
  BY DEF Call, Running, TaskOK
<1>2. PICK c \in IpCalls(prog) :
          /\ c.stmt = StmtAt(top)
          /\ stack' = Append(stack, At(c.callee, Fn(c.callee).entry))
  BY DEF Call, Fn
<1> DEFINE g == c.callee
           fr == At(g, Fn(g).entry)
<1>3. g \in Funs(prog) /\ Fn(g).entry \in Fn(g).blocks
  BY <1>1, FunctionFacts DEF IpCalls
<1>4. /\ fr \in RunFrames /\ fr.fun = g
      /\ Place(fr) = Arrival(prog, g, EntryOfBB(Fn(g), Fn(g).entry))
  BY <1>1, <1>3, EntersBlock
<1>5. /\ stack \in Seq(RunFrames)
      /\ \A k \in 1 .. (n - 1) : Calling(stack[k], stack[k + 1].fun)
  BY DEF StackOK
<1>6. n \in Nat \ {0} /\ top \in RunFrames /\ top = stack[n]
  BY <1>1, <1>5, PopProperties DEF Top
<1> HIDE DEF fr, n, top
<1>7. /\ stack' \in Seq(RunFrames) /\ Len(stack') = n + 1
      /\ \A i \in 1 .. n : stack'[i] = stack[i]
      /\ stack'[n + 1] = fr
  <2>1. stack' = Append(stack, fr)
    BY <1>2 DEF fr
  <2> QED
    BY <2>1, <1>4, <1>5, AppendProperties DEF n
<1>8. \A k \in 1 .. n : Calling(stack'[k], stack'[k + 1].fun)
  <2> TAKE k \in 1 .. n
  <2>1. CASE k = n
    <3>1. Calling(top, g)
      BY <1>1, <1>2 DEF Calling
    <3> QED
      BY <2>1, <3>1, <1>4, <1>6, <1>7
  <2>2. CASE k \in 1 .. (n - 1)
    <3>1. stack'[k] = stack[k] /\ stack'[k + 1] = stack[k + 1]
      BY <2>2, <1>6, <1>7
    <3> QED
      BY <2>2, <3>1, <1>5
  <2> QED
    BY <2>1, <2>2, <1>6
<1>9. StackOK'
  <2>1. (n + 1) - 1 = n
    BY <1>6
  <2> QED
    BY <2>1, <1>1, <1>7, <1>8, RunUnchanged DEF StackOK
<1>10. Place(top) = CallNode(prog, c)
  <2>1. top.fun \in Funs(prog) /\ StmtAt(top) \in StmtsOf(Fn(top.fun))
    <3>1. StmtAt(top) # NoStmt
      BY <1>1, <1>2, NoneIsNoCall DEF IsIpCall
    <3> QED
      BY <3>1, <1>1, <1>6, FrameFacts
  <2>2. Caller(prog, c.stmt) = top.fun
    BY <2>1, <1>1, <1>2, CallerIs
  <2> QED
    BY <2>2, <1>1, <1>2 DEF CallNode, Place
<1>11. Place(fr) = Entry(prog, g)
  BY <1>4 DEF Entry, Fn
<1>12. Top(stack') = fr
  BY <1>7 DEF Top
<1>13. Joined(edges, Place(top), Place(Top(stack')))
  BY <1>1, <1>10, <1>11, <1>12, CallEdge
<1>14. Len(stack') # Len(stack)
  BY <1>6, <1>7 DEF n
<1> QED
  BY <1>9, <1>13, <1>14 DEF StepFollowed, top

\* Going on in the frame on top, by an edge of its function.
LEMMA FrameFollowed ==
    ASSUME TaskOK, StackOK, stack # <<>>, task.kind = "run", prog' = prog,
           NEW fr \in RunFrames, fr.fun = Top(stack).fun, stack' = Append(Pop(stack), fr),
           Top(stack).side # "call",
           NEW e \in StmtEdges(Fn(fr.fun), FALSE),
           e.src = NodeAt(Top(stack)), Arrival(prog, fr.fun, e.dst) = Place(fr),
           Followed(Top(stack), fr)
    PROVE  StepFollowed
<1> DEFINE top == Top(stack)
           n == Len(stack)
<1>1. /\ stack \in Seq(RunFrames) /\ prog \in Programs /\ edges = SuperEdges(prog)
      /\ \A k \in 1 .. (n - 1) : Calling(stack[k], stack[k + 1].fun)
  BY DEF StackOK, TaskOK
<1>2. n \in Nat \ {0} /\ top \in RunFrames /\ top = stack[n]
  BY <1>1, PopProperties DEF Top
<1>3. /\ stack' \in Seq(RunFrames) /\ Len(stack') = n
      /\ \A i \in 1 .. (n - 1) : stack'[i] = stack[i]
      /\ stack'[n] = fr
  BY <1>1, ReplaceTop
<1>4. Top(stack') = fr
  BY <1>3 DEF Top
<1> HIDE DEF n, top
<1>5. \A k \in 1 .. (n - 1) : Calling(stack'[k], stack'[k + 1].fun)
  <2> TAKE k \in 1 .. (n - 1)
  <2>1. stack'[k] = stack[k]
    BY <1>3
  <2>2. stack'[k + 1].fun = stack[k + 1].fun
    <3>1. CASE k + 1 = n
      BY <3>1, <1>2, <1>3 DEF top
    <3>2. CASE k + 1 \in 1 .. (n - 1)
      BY <3>2, <1>3
    <3>3. k + 1 = n \/ k + 1 \in 1 .. (n - 1)
      BY <1>2
    <3> QED
      BY <3>1, <3>2, <3>3, Zenon
  <2> QED
    BY <2>1, <2>2, <1>1
<1>6. StackOK'
  BY <1>3, <1>5, RunUnchanged DEF StackOK
<1>7. Place(top) = Departure(prog, fr.fun, e.src)
  BY <1>1, <1>2, FrameFacts DEF top
<1>8. fr.fun \in Funs(prog)
  BY DEF RunFrames
<1>9. Joined(edges, Place(top), Place(fr))
  BY <1>1, <1>7, <1>8, CloneEdge
<1> QED
  BY <1>4, <1>6, <1>9 DEF StepFollowed, top

\* The next statement, in the block or in the next one, is an edge away.
LEMMA AdvanceFollowed ==
    ASSUME TaskOK, StackOK, Advance
    PROVE  StepFollowed
<1> DEFINE top == Top(stack)
           fn == Fn(top.fun)
           body == Body(fn, top.bb)
           side(i) == IF IsIpCall(prog, body[i]) THEN "call" ELSE "node"
           at(i) == [fun |-> top.fun, bb |-> top.bb, i |-> i, side |-> side(i)]
<1>1. /\ stack # <<>> /\ task.kind = "run" /\ top.side # "call"
      /\ prog' = prog /\ prog \in Programs
      /\ \/ /\ top.i < Len(body)
            /\ stack' = Append(Pop(stack), at(top.i + 1))
         \/ /\ top.i = Len(body)
            /\ \E e \in fn.edges : /\ e.src = top.bb /\ e.dst \in fn.blocks
                                   /\ stack' = Append(Pop(stack), At(top.fun, e.dst))
  BY DEF Advance, Running, TaskOK, Fn
<1>2. top \in RunFrames
  BY <1>1, PopProperties DEF StackOK
<1>3. /\ top.fun \in Funs(prog) /\ top.bb \in fn.blocks
      /\ top.i \in 0 .. Len(body)
      /\ top.i = 0 <=> body = <<>>
      /\ top.i # 0 => StmtAt(top) = body[top.i]
      /\ NodeAt(top) = StmtNode(top.bb, StmtAt(top))
  BY <1>1, <1>2, FrameFacts
<1>4. /\ Len(body) \in Nat /\ (body = <<>> <=> Len(body) = 0)
  BY <1>1, <1>3, BodyFacts
<1>5. CASE top.i < Len(body) /\ stack' = Append(Pop(stack), at(top.i + 1))
  <2> DEFINE j == top.i + 1
             fr == at(j)
             e == [src |-> StmtNode(top.bb, body[top.i]), dst |-> StmtNode(top.bb, body[j]),
                   cfgedge |-> NoStmt]
  <2>1. top.i \in 1 .. (Len(body) - 1) /\ j \in 1 .. Len(body)
    BY <1>3, <1>4, <1>5
  <2>2. fr = [fun |-> top.fun, bb |-> top.bb, i |-> j, side |-> side(j)]
    OBVIOUS
  <2> HIDE DEF fr
  <2>3. StmtAt(fr) = body[j] /\ NodeAt(fr) = StmtNode(top.bb, body[j])
    <3>1. j # 0 /\ fr.i = j /\ fr.fun = top.fun /\ fr.bb = top.bb
      BY <2>1, <2>2
    <3>2. StmtAt(fr) = body[j]
      BY <3>1 DEF StmtAt, Fn
    <3> QED
      BY <3>1, <3>2 DEF NodeAt
  <2>4. fr.fun = top.fun /\ fr.side = side(j)
    BY <2>2
  <2>5. fr \in RunFrames
    <3>1. fr \in [fun : Funs(prog), bb : UNION {Fn(f).blocks : f \in Funs(prog)}, i : Nat,
                  side : {"node", "call", "return"}]
      BY <2>1, <2>2, <1>3
    <3>2. fr.bb \in Fn(fr.fun).blocks /\ fr.i \in 1 .. Len(Body(Fn(fr.fun), fr.bb))
      BY <2>1, <2>2, <1>3
    <3>3. IsIpCall(prog, StmtAt(fr)) <=> fr.side # "node"
      BY <2>3, <2>4
    <3> QED
      BY <3>1, <3>2, <3>3 DEF RunFrames
  <2>6. e \in InnerEdges(fn)
    <3> DEFINE of(b) == {[src |-> StmtNode(b, Body(fn, b)[i]),
                          dst |-> StmtNode(b, Body(fn, b)[i + 1]),
                          cfgedge |-> NoStmt] : i \in 1 .. Len(Body(fn, b)) - 1}
    <3>1. InnerEdges(fn) = UNION {of(b) : b \in fn.blocks}
      BY DEF InnerEdges
    <3>2. e \in of(top.bb)
      BY <2>1
    <3> HIDE DEF of, e
    <3> QED
      BY <3>1, <3>2, <1>3
  <2>7. e.src = NodeAt(top) /\ e.dst = NodeAt(fr)
    BY <2>1, <2>3, <1>3
  <2>8. Arrival(prog, fr.fun, e.dst) = Place(fr)
    <3>1. Key(e.dst) = StmtAt(fr)
      BY <2>3 DEF Key, StmtNode
    <3>2. Arrival(prog, fr.fun, e.dst) = SuperNode(fr.fun, StmtAt(fr), side(j))
      BY <3>1, <2>3 DEF Arrival
    <3> QED
      BY <3>2, <2>4 DEF Place
  <2> HIDE DEF e
  <2>9. e \in StmtEdges(fn, TRUE) /\ e \in StmtEdges(fn, FALSE)
    BY <2>6 DEF StmtEdges
  <2>10. Followed(top, fr)
    BY <2>7, <2>9 DEF Followed, Joined, Fn
  <2>11. stack' = Append(Pop(stack), fr)
    BY <1>5 DEF fr
  <2> QED
    BY <1>1, <2>4, <2>5, <2>7, <2>8, <2>9, <2>10, <2>11, FrameFollowed
<1>6. CASE /\ top.i = Len(body)
           /\ \E e \in fn.edges : /\ e.src = top.bb /\ e.dst \in fn.blocks
                                  /\ stack' = Append(Pop(stack), At(top.fun, e.dst))
  <2>1. PICK d \in fn.edges : /\ d.src = top.bb /\ d.dst \in fn.blocks
                              /\ stack' = Append(Pop(stack), At(top.fun, d.dst))
    BY <1>6
  <2> DEFINE fr == At(top.fun, d.dst)
             e == [src |-> ExitOfBB(fn, d.src), dst |-> EntryOfBB(fn, d.dst), cfgedge |-> d]
  <2>2. /\ fr \in RunFrames /\ fr.fun = top.fun /\ fr.bb = d.dst
        /\ NodeAt(fr) = EntryOfBB(fn, d.dst)
        /\ Place(fr) = Arrival(prog, top.fun, EntryOfBB(fn, d.dst))
    BY <2>1, <1>1, <1>3, EntersBlock
  <2>3. NodeAt(top) = ExitOfBB(fn, top.bb)
    BY <1>1, <1>2, <1>6, LeavesBlock
  <2>4. e \in CrossEdges(fn, FALSE) /\ (d.complex \/ e \in CrossEdges(fn, TRUE))
    BY <2>1 DEF CrossEdges, KeptEdges
  <2>5. e.src = NodeAt(top) /\ e.dst = NodeAt(fr)
    BY <2>1, <2>2, <2>3
  <2> HIDE DEF e, fr
  <2>6. e \in StmtEdges(fn, FALSE)
    BY <2>4 DEF StmtEdges
  <2>7. Followed(top, fr)
    <3>1. CASE d.complex
      BY <3>1, <2>1, <2>2 DEF Followed, Fn
    <3>2. CASE e \in CrossEdges(fn, TRUE)
      BY <3>2, <2>5 DEF Followed, Joined, StmtEdges, Fn
    <3> QED
      BY <3>1, <3>2, <2>4
  <2>8. stack' = Append(Pop(stack), fr)
    BY <2>1 DEF fr
  <2>9. Arrival(prog, fr.fun, e.dst) = Place(fr)
    BY <2>2, <2>5
  <2> QED
    BY <1>1, <2>2, <2>5, <2>6, <2>7, <2>8, <2>9, FrameFollowed
<1> QED
  BY <1>1, <1>5, <1>6

\* A return follows the edge from the exit of the callee to the return node.
LEMMA ReturnFollowed ==
    ASSUME TaskOK, StackOK, Return
    PROVE  StepFollowed
<1> DEFINE top == Top(stack)
           n == Len(stack)
           below == stack[n - 1]
           fr == [below EXCEPT !.side = "return"]
<1>1. /\ stack # <<>> /\ task.kind = "run" /\ n > 1
      /\ top.bb = Fn(top.fun).exit
      /\ stack' = [Pop(stack) EXCEPT ![n - 1].side = "return"]
      /\ prog' = prog /\ prog \in Programs /\ edges = SuperEdges(prog)
  <2>1. /\ task.kind = "run" \/ stack = <<>>
        /\ stack = <<>> \/ (prog' = prog /\ prog \in Programs /\ edges = SuperEdges(prog))
    BY DEF Return, TaskOK
  <2>2. Len(<<>>) = 0
    OBVIOUS
  <2> QED
    BY <2>1, <2>2 DEF Return, Fn, TaskOK
<1>2. /\ stack \in Seq(RunFrames)
      /\ \A k \in 1 .. (n - 1) : Calling(stack[k], stack[k + 1].fun)
  BY DEF StackOK
<1>3. /\ n \in Nat \ {0} /\ top \in RunFrames /\ top = stack[n]
      /\ Pop(stack) \in Seq(RunFrames) /\ Len(Pop(stack)) = n - 1
      /\ \A i \in 1 .. (n - 1) : Pop(stack)[i] = stack[i]
  BY <1>1, <1>2, PopProperties DEF Top
<1>4. n - 1 \in 1 .. (n - 1) /\ (n - 1) + 1 = n
  BY <1>1, <1>3
<1>5. Calling(below, top.fun)
  BY <1>2, <1>3, <1>4
<1>6. below \in RunFrames
  BY <1>3, <1>4, ElementOfSeq
<1>7. fr = [fun |-> below.fun, bb |-> below.bb, i |-> below.i, side |-> "return"]
  <2>1. \A t \in RunFrames : [t EXCEPT !.side = "return"]
                                = [fun |-> t.fun, bb |-> t.bb, i |-> t.i, side |-> "return"]
    BY DEF RunFrames
  <2> HIDE DEF below
  <2> QED
    BY <2>1, <1>6
<1>8. stack' = [Pop(stack) EXCEPT ![n - 1] = fr]
  <2>1. Pop(stack)[n - 1] = below
    BY <1>3, <1>4
  <2> QED
    BY <2>1, <1>1
<1> HIDE DEF fr, n, top, below
<1>9. StmtAt(fr) = StmtAt(below) /\ fr.fun = below.fun /\ fr.side = "return"
  BY <1>7 DEF StmtAt
<1>10. fr \in RunFrames
  <2>1. below.side # "node" /\ IsIpCall(prog, StmtAt(below))
    BY <1>5, <1>6 DEF Calling, IsIpCall
  <2>2. fr \in [fun : Funs(prog), bb : UNION {Fn(f).blocks : f \in Funs(prog)}, i : Nat,
                side : {"node", "call", "return"}]
    BY <1>6, <1>7 DEF RunFrames
  <2>3. /\ fr.bb \in Fn(fr.fun).blocks
        /\ \/ fr.i = 0 /\ Body(Fn(fr.fun), fr.bb) = <<>>
           \/ fr.i \in 1 .. Len(Body(Fn(fr.fun), fr.bb))
    BY <1>6, <1>7 DEF RunFrames
  <2>4. IsIpCall(prog, StmtAt(fr)) <=> fr.side # "node"
    BY <2>1, <1>9
  <2> QED
    BY <2>2, <2>3, <2>4 DEF RunFrames
<1>11. /\ stack' \in Seq(RunFrames) /\ Len(stack') = n - 1
       /\ \A i \in 1 .. (n - 1) : stack'[i] = IF i = n - 1 THEN fr ELSE stack[i]
  BY <1>3, <1>4, <1>8, <1>10, ExceptSeq
<1>12. \A k \in 1 .. ((n - 1) - 1) : Calling(stack'[k], stack'[k + 1].fun)
  <2> TAKE k \in 1 .. ((n - 1) - 1)
  <2>1. k \in 1 .. (n - 1) /\ k # n - 1 /\ k + 1 \in 1 .. (n - 1)
    BY <1>3
  <2>2. stack'[k] = stack[k] /\ stack'[k + 1].fun = stack[k + 1].fun
    BY <2>1, <1>9, <1>11 DEF below
  <2> QED
    BY <2>1, <2>2, <1>2
<1>13. StackOK'
  BY <1>1, <1>11, <1>12, RunUnchanged DEF StackOK
<1>14. Top(stack') = fr
  BY <1>4, <1>11 DEF Top
\* The exit block has nothing in it, so the frame is at the exit.
<1>15. Place(top) = Exit(prog, top.fun)
  <2>1. /\ top.fun \in Funs(prog) /\ top.bb \in Fn(top.fun).blocks
        /\ top.i = 0 <=> Body(Fn(top.fun), top.bb) = <<>>
        /\ top.i = 0 => StmtAt(top) = NoStmt
        /\ top.side # "call" => Place(top) = Departure(prog, top.fun, NodeAt(top))
        /\ NodeAt(top) = StmtNode(top.bb, StmtAt(top))
    BY <1>1, <1>3, FrameFacts
  <2>2. Body(Fn(top.fun), top.bb) = <<>>
    BY <2>1, <1>1, FunctionFacts
  <2>3. StmtAt(top) = NoStmt
    BY <2>1, <2>2
  <2>4. top.side = "node"
    BY <2>3, <1>1, <1>3, NoneIsNoCall DEF RunFrames
  <2>5. NodeAt(top) = EntryOfBB(Fn(top.fun), top.bb)
    BY <2>1, <2>2, <2>3 DEF EntryOfBB
  <2> QED
    BY <2>1, <2>4, <2>5, <1>1 DEF Exit, Fn
<1>16. PICK c \in IpCalls(prog) : c.stmt = StmtAt(below) /\ c.callee = top.fun
  BY <1>5 DEF Calling
<1>17. Place(fr) = ReturnNode(prog, c)
  <2>1. below.fun \in Funs(prog) /\ StmtAt(below) \in StmtsOf(Fn(below.fun))
    <3>1. StmtAt(below) # NoStmt
      BY <1>1, <1>16, NoneIsNoCall DEF IsIpCall
    <3> QED
      BY <3>1, <1>1, <1>6, FrameFacts
  <2>2. Caller(prog, c.stmt) = below.fun
    BY <2>1, <1>1, <1>16, CallerIs
  <2> QED
    BY <2>2, <1>9, <1>16 DEF ReturnNode, Place
<1>18. Joined(edges, Place(top), Place(Top(stack')))
  BY <1>1, <1>14, <1>15, <1>16, <1>17, CallEdge
<1>19. Len(stack') # Len(stack)
  BY <1>3, <1>11 DEF n
<1> QED
  BY <1>13, <1>18, <1>19 DEF StepFollowed, top

\* So long as a program runs.
THEOREM RunInvariant == Spec => [](task.kind = "run" => StackOK)
<1> DEFINE Inv == task.kind = "run" => StackOK
<1>1. Init => Inv
  BY DEF Init
<1>2. TaskOK /\ Inv /\ [Next]_vars => Inv'
  <2> SUFFICES ASSUME TaskOK, Inv, [Next]_vars, task'.kind = "run" PROVE StackOK'
    OBVIOUS
  <2>1. CASE Start
    BY <2>1, StartFollowed DEF StepFollowed
  <2>2. CASE Call
    BY <2>2, CallFollowed DEF StepFollowed, Call, Running
  <2>3. CASE Advance
    BY <2>3, AdvanceFollowed DEF StepFollowed, Advance, Running
  <2>4. CASE Return
    <3>1. task' = task
      BY <2>4 DEF Return
    <3> QED
      BY <2>4, <3>1, ReturnFollowed DEF StepFollowed
  <2>5. CASE UNCHANGED vars
    <3>1. prog' = prog /\ StackOK
      BY <2>5 DEF vars
    <3> QED
      BY <2>5, <3>1, RunUnchanged DEF StackOK, vars
  <2>6. CASE Paths \/ Sorts \/ Removes
    BY <2>6, PathsFrame, SortsFrame, RemovesFrame
  <2> QED
    BY <2>1, <2>2, <2>3, <2>4, <2>5, <2>6, NextCases DEF Runs
<1> HIDE DEF Inv
<1>3. Spec => []Inv
  BY <1>1, <1>2, TaskInvariant, PTL DEF Spec
<1> QED
  BY <1>3 DEF Inv

\* RunFollowed: the supergraph has an edge for every step of a program, and the
\* StmtGraph of a function one for every step in it.
THEOREM RunsFollowed == Spec => RunFollowed
<1> DEFINE Step == stack # <<>> =>
                      /\ Joined(edges, Place(Top(stack)), Place(Top(stack')))
                      /\ Len(stack') = Len(stack) => Followed(Top(stack), Top(stack'))
<1>1. TaskOK /\ (task.kind = "run" => StackOK) /\ [Next]_vars => [Step]_stack
  <2> SUFFICES ASSUME TaskOK, task.kind = "run" => StackOK, [Next]_vars, stack' # stack
               PROVE  Step
    <3> HIDE DEF Step
    <3> QED
      OBVIOUS
  <2>1. Runs
    <3>1. ~Paths /\ ~Sorts /\ ~Removes
      BY PathsFrame, SortsFrame, RemovesFrame
    <3>2. ~UNCHANGED vars
      BY DEF vars
    <3> QED
      BY <3>1, <3>2, NextCases
  <2>2. stack # <<>> => task.kind = "run"
    BY DEF TaskOK
  <2>3. CASE Start
    BY <2>3, StartFollowed DEF StepFollowed
  <2>4. CASE Call
    BY <2>2, <2>4, CallFollowed DEF StepFollowed
  <2>5. CASE Advance
    BY <2>2, <2>5, AdvanceFollowed DEF StepFollowed
  <2>6. CASE Return
    BY <2>2, <2>6, ReturnFollowed DEF StepFollowed
  <2> QED
    BY <2>1, <2>3, <2>4, <2>5, <2>6 DEF Runs
<1>2. RunFollowed <=> [][Step]_stack
  BY DEF RunFollowed
<1> HIDE DEF Step
<1> QED
  BY <1>1, <1>2, TaskInvariant, RunInvariant, PTL DEF Spec

-----------------------------------------------------------------------------
(***************************************************************************)
(* ShortestFound.  First, the ends of edges are nodes.                     *)
(***************************************************************************)

\* What a block holds, and its first and last node, are nodes of the function.
LEMMA BlockNodes ==
    ASSUME prog \in Programs, NEW f \in Funs(prog), NEW b \in Fn(f).blocks
    PROVE  /\ EntryOfBB(Fn(f), b) \in StmtNodes(Fn(f))
           /\ ExitOfBB(Fn(f), b) \in StmtNodes(Fn(f))
           /\ \A i \in 1 .. Len(Body(Fn(f), b)) :
                 StmtNode(b, Body(Fn(f), b)[i]) \in StmtNodes(Fn(f))
<1> DEFINE body == Body(Fn(f), b)
           of(c) == {EntryOfBB(Fn(f), c)} \cup
                       {StmtNode(c, Body(Fn(f), c)[i]) : i \in DOMAIN Body(Fn(f), c)}
<1>1. /\ Len(body) \in Nat /\ DOMAIN body = 1 .. Len(body)
      /\ body = <<>> <=> Len(body) = 0
  BY BodyFacts
<1>2. StmtNodes(Fn(f)) = UNION {of(c) : c \in Fn(f).blocks}
  BY DEF StmtNodes
<1>3. EntryOfBB(Fn(f), b) \in of(b)
  OBVIOUS
<1>4. \A i \in 1 .. Len(body) : StmtNode(b, body[i]) \in of(b)
  BY <1>1
<1>5. ExitOfBB(Fn(f), b) \in of(b)
  <2>1. CASE body = <<>>
    <3>1. ExitOfBB(Fn(f), b) = EntryOfBB(Fn(f), b)
      BY <2>1 DEF ExitOfBB, EntryOfBB
    <3> QED
      BY <3>1, <1>3
  <2>2. CASE body # <<>>
    <3>1. ExitOfBB(Fn(f), b) = StmtNode(b, body[Len(body)])
      BY <2>2 DEF ExitOfBB
    <3>2. Len(body) \in 1 .. Len(body)
      BY <1>1, <2>2
    <3> HIDE DEF of, body
    <3> QED
      BY <3>1, <3>2, <1>4
  <2> QED
    BY <2>1, <2>2
<1> HIDE DEF of
<1> QED
  BY <1>2, <1>3, <1>4, <1>5

\* Both ends of an edge of a function are its nodes.
LEMMA StmtEnds ==
    ASSUME prog \in Programs, NEW f \in Funs(prog), NEW e \in StmtEdges(Fn(f), FALSE)
    PROVE  e.src \in StmtNodes(Fn(f)) /\ e.dst \in StmtNodes(Fn(f))
<1>1. CASE e \in InnerEdges(Fn(f))
  <2>1. PICK b \in Fn(f).blocks :
             e \in {[src |-> StmtNode(b, Body(Fn(f), b)[i]),
                     dst |-> StmtNode(b, Body(Fn(f), b)[i + 1]),
                     cfgedge |-> NoStmt] : i \in 1 .. Len(Body(Fn(f), b)) - 1}
    BY <1>1 DEF InnerEdges
  <2>2. PICK i \in 1 .. Len(Body(Fn(f), b)) - 1 :
             e.src = StmtNode(b, Body(Fn(f), b)[i]) /\ e.dst = StmtNode(b, Body(Fn(f), b)[i + 1])
    BY <2>1
  <2>3. Len(Body(Fn(f), b)) \in Nat
    BY BodyFacts
  <2>4. i \in 1 .. Len(Body(Fn(f), b)) /\ i + 1 \in 1 .. Len(Body(Fn(f), b))
    BY <2>3
  <2> QED
    BY <2>2, <2>4, BlockNodes
<1>2. CASE e \in CrossEdges(Fn(f), FALSE)
  <2>1. PICK d \in Fn(f).edges : /\ d.dst \in Fn(f).blocks
                                 /\ e.src = ExitOfBB(Fn(f), d.src)
                                 /\ e.dst = EntryOfBB(Fn(f), d.dst)
    BY <1>2 DEF CrossEdges, KeptEdges
  <2>2. d.src \in Fn(f).blocks
    BY FunctionFacts
  <2> QED
    BY <2>1, <2>2, BlockNodes
<1> QED
  BY <1>1, <1>2 DEF StmtEdges

\* A node of a function has its supernodes.
LEMMA NodesOf ==
    ASSUME NEW f \in Funs(prog), NEW n \in StmtNodes(Fn(f))
    PROVE  Arrival(prog, f, n) \in SuperNodes(prog) /\ Departure(prog, f, n) \in SuperNodes(prog)
<1> DEFINE of(g) == UNION {{Arrival(prog, g, m), Departure(prog, g, m)}
                               : m \in StmtNodes(prog.funs[g])}
<1>1. SuperNodes(prog) = UNION {of(g) : g \in Funs(prog)}
  BY DEF SuperNodes
<1>2. Arrival(prog, f, n) \in of(f) /\ Departure(prog, f, n) \in of(f)
  BY DEF Fn
<1> HIDE DEF of
<1> QED
  BY <1>1, <1>2

\* Functions start and end at nodes.
LEMMA EntryNodes ==
    ASSUME prog \in Programs, NEW f \in Funs(prog)
    PROVE  Entry(prog, f) \in SuperNodes(prog) /\ Exit(prog, f) \in SuperNodes(prog)
<1>1. /\ EntryOfBB(Fn(f), Fn(f).entry) \in StmtNodes(Fn(f))
      /\ EntryOfBB(Fn(f), Fn(f).exit) \in StmtNodes(Fn(f))
  BY FunctionFacts, BlockNodes
<1>2. /\ Entry(prog, f) = Arrival(prog, f, EntryOfBB(Fn(f), Fn(f).entry))
      /\ Exit(prog, f) = Departure(prog, f, EntryOfBB(Fn(f), Fn(f).exit))
  BY DEF Entry, Exit, Fn
<1> QED
  BY <1>1, <1>2, NodesOf

\* A call has its nodes.
LEMMA CallNodes ==
    ASSUME prog \in Programs, NEW c \in IpCalls(prog)
    PROVE  CallNode(prog, c) \in SuperNodes(prog) /\ ReturnNode(prog, c) \in SuperNodes(prog)
<1>1. PICK f \in Funs(prog) : c.stmt \in StmtsOf(Fn(f))
  BY ProgramsAssumption DEF WellFormed, Fn, IpCalls
<1>2. Caller(prog, c.stmt) = f
  BY <1>1, CallerIs
<1>3. PICK b \in Fn(f).blocks : \E i \in DOMAIN Body(Fn(f), b) : c.stmt = Body(Fn(f), b)[i]
  BY <1>1 DEF StmtsOf
<1>4. StmtNode(b, c.stmt) \in StmtNodes(Fn(f))
  BY <1>3, BodyFacts, BlockNodes
<1>5. IsIpCall(prog, c.stmt) /\ Key(StmtNode(b, c.stmt)) = c.stmt
  BY DEF IsIpCall, Key, StmtNode
<1>6. /\ CallNode(prog, c) = Arrival(prog, f, StmtNode(b, c.stmt))
      /\ ReturnNode(prog, c) = Departure(prog, f, StmtNode(b, c.stmt))
  BY <1>2, <1>5 DEF CallNode, ReturnNode, Arrival, Departure
<1> QED
  BY <1>4, <1>6, NodesOf

\* Both ends of an edge of the supergraph are in it.
LEMMA EndsAreNodes ==
    ASSUME prog \in Programs, NEW e \in SuperEdges(prog)
    PROVE  e.src \in SuperNodes(prog) /\ e.dst \in SuperNodes(prog)
<1>1. CASE e \in CloneEdges(prog)
  <2> DEFINE clone(f, d) ==
                 Edge(Departure(prog, f, d.src), Arrival(prog, f, d.dst), "inner", d.cfgedge)
             of(f) == {clone(f, d) : d \in StmtEdges(prog.funs[f], FALSE)}
  <2>1. CloneEdges(prog) = UNION {of(f) : f \in Funs(prog)}
    BY DEF CloneEdges
  <2>2. PICK f \in Funs(prog) : e \in of(f)
    <3> HIDE DEF of
    <3> QED
      BY <1>1, <2>1
  <2>3. PICK d \in StmtEdges(Fn(f), FALSE) : e = clone(f, d)
    BY <2>2 DEF Fn
  <2>4. e.src = Departure(prog, f, d.src) /\ e.dst = Arrival(prog, f, d.dst)
    BY <2>3 DEF Edge
  <2> QED
    BY <2>4, StmtEnds, NodesOf
<1>2. CASE e \in CallEdges(prog)
  <2>1. PICK c \in IpCalls(prog) :
             \/ e.src = CallNode(prog, c) /\ e.dst = ReturnNode(prog, c)
             \/ e.src = CallNode(prog, c) /\ e.dst = Entry(prog, c.callee)
             \/ e.src = Exit(prog, c.callee) /\ e.dst = ReturnNode(prog, c)
    BY <1>2 DEF CallEdges, Edge
  <2>2. c.callee \in Funs(prog)
    BY DEF IpCalls
  <2> QED
    BY <2>1, <2>2, CallNodes, EntryNodes
<1> QED
  BY <1>1, <1>2 DEF SuperEdges

-----------------------------------------------------------------------------
(***************************************************************************)
(* The invariant of the search: a settled node, one whose item is popped,  *)
(* is no farther than what is in the heap, and its edges are followed; a   *)
(* node was reached from a settled one.                                    *)
(***************************************************************************)
Settled == {m \in nodes : Item(m, dist[m]) \notin heap}

PathOK ==
    /\ task.src \in nodes
    /\ dist \in [nodes -> 0 .. INFINITY]
    /\ inedge \in [nodes -> edges \cup {NoStmt}]
    /\ heap \subseteq [node : nodes, dist : 0 .. INFINITY]
    /\ \A m \in nodes : dist[m] = 0 <=> m = task.src
    /\ \A m \in nodes : inedge[m] = NoStmt <=> m = task.src \/ dist[m] = INFINITY
    /\ \A m \in nodes : inedge[m] # NoStmt =>
          /\ inedge[m].dst = m /\ inedge[m].src \in Settled
          /\ dist[m] = dist[inedge[m].src] + 1
    /\ \A m \in Settled :
          /\ dist[m] < INFINITY
          /\ \A item \in heap : dist[m] <= item.dist
          /\ \A e \in edges : e.src = m => dist[e.dst] <= dist[m] + 1
    /\ task.dst \notin Settled

\* What an answer is to be.
Answers(path) ==
    IF path = <<>>
    THEN task.src = task.dst \/ task.dst \notin Within(task.src, Cardinality(nodes))
    ELSE /\ path[1].src = task.src /\ path[Len(path)].dst = task.dst
         /\ \A i \in 1 .. Len(path) - 1 : path[i].dst = path[i + 1].src
         /\ task.dst \notin Within(task.src, Len(path) - 1)

\* Nodes that so many edges lead to are as near, where nothing as near is left
\* in the heap.
LEMMA NearSettled ==
    ASSUME TaskOK, task.kind = "path", PathOK, NEW k \in Nat,
           \A item \in heap : item.dist > k
    PROVE  /\ \A j \in 0 .. k : Within(task.src, j) \subseteq {m \in nodes : dist[m] <= j}
           /\ task.dst \notin Within(task.src, k)
<1>1. \A e \in edges : e.src \in nodes /\ e.dst \in nodes
  BY EndsAreNodes DEF TaskOK
<1>2. /\ Outward \in [SUBSET nodes -> SUBSET nodes]
      /\ \A X \in SUBSET nodes :
            Outward[X] = X \cup {e.dst : e \in {e \in edges : e.src \in X}}
  BY <1>1 DEF Outward
<1>3. {task.src} \in SUBSET nodes
  BY DEF PathOK
<1> DEFINE W(j) == Grown(Outward, {task.src}, j)
<1>4. /\ W(0) = {task.src}
      /\ \A j \in Nat : W(j + 1) = Outward[W(j)]
      /\ \A j \in Nat : W(j) \in SUBSET nodes
  <2> DEFINE T == SUBSET nodes
  <2>1. Outward \in [T -> T] /\ {task.src} \in T
    BY <1>2, <1>3
  <2> HIDE DEF T
  <2>2. /\ W(0) = {task.src}
        /\ \A j \in Nat : W(j + 1) = Outward[W(j)]
        /\ \A j \in Nat : W(j) \in T
    BY <2>1, GrownDef
  <2> QED
    BY <2>2 DEF T
<1>5. /\ dist \in [nodes -> 0 .. INFINITY] /\ dist[task.src] = 0 /\ task.src \in nodes
      /\ \A m \in Settled, e \in edges : e.src = m => dist[e.dst] <= dist[m] + 1
  BY DEF PathOK
<1>6. \A m \in nodes : dist[m] <= k => m \in Settled
  <2> SUFFICES ASSUME NEW m \in nodes, dist[m] <= k, m \notin Settled PROVE FALSE
    OBVIOUS
  <2>1. Item(m, dist[m]) \in heap
    BY DEF Settled
  <2>2. Item(m, dist[m]).dist = dist[m]
    BY DEF Item
  <2>3. dist[m] > k
    BY <2>1, <2>2
  <2> QED
    BY <2>3, <1>5
<1> HIDE DEF W
<1> DEFINE A == {j \in Nat : j <= k => W(j) \subseteq {m \in nodes : dist[m] <= j}}
<1>7. 0 \in A
  BY <1>4, <1>5
<1>8. ASSUME NEW j \in Nat, j \in A PROVE j + 1 \in A
  <2> SUFFICES ASSUME j + 1 <= k, NEW m \in W(j + 1) PROVE m \in nodes /\ dist[m] <= j + 1
    OBVIOUS
  <2>1. W(j) \in SUBSET nodes /\ \A x \in W(j) : dist[x] <= j /\ dist[x] \in 0 .. INFINITY
    BY <1>4, <1>5, <1>8
  <2>2. W(j + 1) = W(j) \cup {e.dst : e \in {e \in edges : e.src \in W(j)}}
    BY <1>2, <1>4
  <2>3. CASE m \in W(j)
    BY <2>1, <2>3
  <2>4. CASE m \notin W(j)
    <3>1. PICK e \in edges : e.src \in W(j) /\ e.dst = m
      BY <2>2, <2>4
    <3>2. dist[e.src] <= j /\ dist[e.src] \in 0 .. INFINITY /\ e.src \in nodes
      BY <3>1, <2>1
    <3>3. e.src \in Settled
      BY <3>2, <1>6
    <3>4. m \in nodes /\ dist[m] \in 0 .. INFINITY /\ dist[m] <= dist[e.src] + 1
      BY <3>1, <3>3, <1>1, <1>5
    <3> QED
      BY <3>2, <3>4
  <2> QED
    BY <2>3, <2>4
<1> HIDE DEF A
<1>9. Nat \subseteq A
  BY <1>7, <1>8, NatSetInduction
<1>10. \A j \in 0 .. k : W(j) \subseteq {m \in nodes : dist[m] <= j}
  BY <1>9 DEF A
<1>11. task.dst \notin W(k)
  <2>1. \A m \in W(k) : m \in Settled
    BY <1>6, <1>10
  <2> QED
    BY <2>1 DEF PathOK
<1> QED
  BY <1>10, <1>11 DEF W, Within

\* The edges that a node was reached by, from the first.
LEMMA WayBack ==
    ASSUME TaskOK, task.kind = "path", PathOK, NEW dst \in nodes
    PROVE  LET path == PathTo(dst)
           IN  \/ dist[dst] \in {0, INFINITY} /\ path = <<>>
               \/ /\ dist[dst] \in 1 .. INFINITY - 1 /\ path # <<>> /\ Len(path) = dist[dst]
                  /\ path[1].src = task.src /\ path[Len(path)].dst = dst
                  /\ \A i \in 1 .. Len(path) - 1 : path[i].dst = path[i + 1].src
<1> DEFINE d == dist[dst]
           back(k) == Grown(Previous, dst, k)
           Ends(k) == /\ inedge[back(k)] = NoStmt
                      /\ \A j \in 0 .. k - 1 : inedge[back(j)] # NoStmt
           len == CHOOSE k \in 0 .. INFINITY : Ends(k)
<1>1. \A e \in edges : e.src \in nodes /\ e.dst \in nodes
  BY EndsAreNodes DEF TaskOK
<1>2. /\ \A m \in nodes : dist[m] \in 0 .. INFINITY
      /\ \A m \in nodes : inedge[m] \in edges \cup {NoStmt}
      /\ \A m \in nodes : dist[m] = 0 <=> m = task.src
      /\ \A m \in nodes : inedge[m] = NoStmt <=> m = task.src \/ dist[m] = INFINITY
      /\ \A m \in nodes : inedge[m] # NoStmt =>
            inedge[m].dst = m /\ dist[m] = dist[inedge[m].src] + 1
  BY DEF PathOK
<1>3. d \in 0 .. INFINITY
  BY <1>2
<1>4. /\ Previous \in [nodes -> nodes]
      /\ \A m \in nodes : Previous[m] = IF inedge[m] = NoStmt THEN m ELSE inedge[m].src
  BY <1>1, <1>2 DEF Previous
<1>5. /\ back(0) = dst
      /\ \A k \in Nat : back(k + 1) = Previous[back(k)]
      /\ \A k \in Nat : back(k) \in nodes
  BY <1>4, GrownDef
<1>6. PathTo(dst) = [k \in 1 .. len |-> inedge[back(len - k)]]
  BY DEF PathTo
<1> HIDE DEF back, d
<1>7. CASE d = INFINITY
  <2>1. inedge[dst] = NoStmt
    BY <1>2, <1>7 DEF d
  <2>2. Ends(0)
    BY <2>1, <1>5
  <2>3. \A k \in 0 .. INFINITY : Ends(k) => k = 0
    BY <2>1, <1>5
  <2>4. 0 \in 0 .. INFINITY
    BY DEF INFINITY
  <2> HIDE DEF Ends
  <2>5. len = 0
    BY <2>2, <2>3, <2>4
  <2> HIDE DEF len
  <2>6. PathTo(dst) = <<>>
    BY <1>6, <2>5
  <2> QED
    BY <1>7, <2>6 DEF d
<1>8. CASE d < INFINITY
  <2> DEFINE A == {k \in Nat : k <= d => dist[back(k)] = d - k}
  <2>1. 0 \in A
    BY <1>3, <1>5, SMTT(30) DEF d, INFINITY
  <2>2. ASSUME NEW k \in Nat, k \in A PROVE k + 1 \in A
    <3> SUFFICES ASSUME k + 1 <= d PROVE dist[back(k + 1)] = d - (k + 1)
      OBVIOUS
    <3>1. back(k) \in nodes /\ dist[back(k)] = d - k
      BY <1>3, <1>5, <2>2 DEF INFINITY
    <3>2. dist[back(k)] # 0 /\ dist[back(k)] # INFINITY
      BY <1>3, <1>8, <3>1 DEF INFINITY
    <3>3. inedge[back(k)] # NoStmt
      BY <1>2, <3>1, <3>2
    <3>4. back(k + 1) = inedge[back(k)].src
      BY <1>4, <1>5, <3>1, <3>3
    <3>5. dist[back(k)] = dist[back(k + 1)] + 1 /\ back(k + 1) \in nodes
      BY <1>2, <1>5, <3>1, <3>3, <3>4
    <3>6. dist[back(k + 1)] \in 0 .. INFINITY
      BY <1>2, <3>5
    <3>7. \A y \in 0 .. INFINITY : d - k = y + 1 => y = d - (k + 1)
      BY <1>3 DEF INFINITY
    <3> QED
      BY <3>1, <3>5, <3>6, <3>7
  <2>3. Nat \subseteq A
    <3> HIDE DEF A
    <3> QED
      BY <2>1, <2>2, NatSetInduction
  <2>4. \A k \in 0 .. d : back(k) \in nodes /\ dist[back(k)] = d - k /\ k \in Nat
    BY <1>3, <1>5, <2>3 DEF INFINITY
  <2>5. \A k \in 0 .. d - 1 : inedge[back(k)] # NoStmt
    <3> TAKE k \in 0 .. d - 1
    <3>1. k \in 0 .. d
      BY <1>3 DEF INFINITY
    <3>2. dist[back(k)] # 0 /\ dist[back(k)] # INFINITY
      BY <1>3, <1>8, <2>4, <3>1 DEF INFINITY
    <3> QED
      BY <1>2, <2>4, <3>1, <3>2
  <2>6. back(d) = task.src /\ inedge[back(d)] = NoStmt
    <3>1. d \in 0 .. d
      BY <1>3 DEF INFINITY
    <3>2. dist[back(d)] = 0 /\ back(d) \in nodes
      BY <1>3, <2>4, <3>1 DEF INFINITY
    <3> QED
      BY <1>2, <3>2
  <2>7. Ends(d)
    BY <2>5, <2>6
  <2>8. \A k \in 0 .. INFINITY : Ends(k) => k = d
    <3> SUFFICES ASSUME NEW k \in 0 .. INFINITY, Ends(k), k # d PROVE FALSE
      OBVIOUS
    <3>1. k \in 0 .. d - 1 \/ d \in 0 .. k - 1
      BY <1>3 DEF INFINITY
    <3> QED
      BY <2>5, <2>6, <3>1
  <2> HIDE DEF Ends
  <2>9. len = d
    BY <1>3, <2>7, <2>8
  <2> HIDE DEF len, A
  <2> DEFINE path == PathTo(dst)
  <2>10. path = [k \in 1 .. d |-> inedge[back(d - k)]]
    BY <1>6, <2>9
  <2>11. \A k \in 1 .. d : path[k].dst = back(d - k) /\ path[k].src = back(d - (k - 1))
    <3> TAKE k \in 1 .. d
    <3>1. /\ d - k \in 0 .. d - 1 /\ d - k \in Nat /\ d - k \in 0 .. d
          /\ (d - k) + 1 = d - (k - 1)
      BY <1>3 DEF INFINITY
    <3>2. path[k] = inedge[back(d - k)] /\ inedge[back(d - k)] # NoStmt /\ back(d - k) \in nodes
      BY <2>4, <2>5, <2>10, <3>1
    <3>3. back((d - k) + 1) = inedge[back(d - k)].src
      BY <1>4, <1>5, <3>1, <3>2
    <3> QED
      BY <1>2, <3>1, <3>2, <3>3
  <2>12. CASE d = 0
    <3>1. path = <<>>
      BY <2>10, <2>12
    <3> QED
      BY <2>12, <3>1 DEF d
  <2>13. CASE d # 0
    <3>1. d \in 1 .. INFINITY - 1 /\ d \in Nat
      BY <1>3, <1>8, <2>13 DEF INFINITY
    <3>2. DOMAIN path = 1 .. d /\ path \in Seq(edges \cup {NoStmt})
      <4>1. \A k \in 1 .. d : d - k \in 0 .. d
        BY <3>1
      <4>2. \A k \in 1 .. d : inedge[back(d - k)] \in edges \cup {NoStmt}
        BY <1>2, <2>4, <4>1
      <4> QED
        BY <2>10, <3>1, <4>2
    <3>3. Len(path) = d /\ path # <<>>
      BY <3>1, <3>2, LenProperties
    <3>4. path[1].src = task.src
      <4>1. 1 \in 1 .. d /\ d - (1 - 1) = d
        BY <3>1
      <4> QED
        BY <2>6, <2>11, <4>1
    <3>5. path[d].dst = dst
      <4>1. d \in 1 .. d /\ d - d = 0
        BY <3>1
      <4> QED
        BY <1>5, <2>11, <4>1
    <3>6. \A i \in 1 .. d - 1 : path[i].dst = path[i + 1].src
      <4> TAKE i \in 1 .. d - 1
      <4>1. i \in 1 .. d /\ i + 1 \in 1 .. d /\ d - ((i + 1) - 1) = d - i
        BY <3>1
      <4> HIDE DEF path
      <4> QED
        BY <2>11, <4>1
    <3> HIDE DEF path
    <3>7. /\ d \in 1 .. INFINITY - 1 /\ path # <<>> /\ Len(path) = d
          /\ path[1].src = task.src /\ path[Len(path)].dst = dst
          /\ \A i \in 1 .. Len(path) - 1 : path[i].dst = path[i + 1].src
      BY <3>1, <3>3, <3>4, <3>5, <3>6
    <3> QED
      BY <3>7 DEF path, d
  <2> QED
    BY <2>12, <2>13
<1>9. d = INFINITY \/ d < INFINITY
  BY <1>3 DEF INFINITY
<1> QED
  BY <1>7, <1>8, <1>9

\* A node is popped: it is settled, and what it leads to is as near as one more.
LEMMA RelaxKeeps ==
    ASSUME TaskOK, task.kind = "path", PathOK, NEW n \in nodes, Item(n, dist[n]) \in heap,
           \A item \in heap : dist[n] <= item.dist, n # task.dst, dist[n] # INFINITY,
           Relax(n), UNCHANGED <<prog, nodes, edges, task>>
    PROVE  PathOK'
<1> DEFINE d == dist[n]
           out == {e \in edges : e.src = n}
           closer == {e.dst : e \in {e \in out : dist[n] + 1 < dist[e.dst]}}
<1>1. \A e \in edges : e.src \in nodes /\ e.dst \in nodes
  BY EndsAreNodes DEF TaskOK
<1>2. /\ task.src \in nodes
      /\ \A m \in nodes : dist[m] \in 0 .. INFINITY
      /\ \A m \in nodes : inedge[m] \in edges \cup {NoStmt}
      /\ heap \subseteq [node : nodes, dist : 0 .. INFINITY]
      /\ \A m \in nodes : dist[m] = 0 <=> m = task.src
      /\ \A m \in nodes : inedge[m] = NoStmt <=> m = task.src \/ dist[m] = INFINITY
      /\ \A m \in nodes : inedge[m] # NoStmt =>
            /\ inedge[m].dst = m /\ inedge[m].src \in Settled
            /\ dist[m] = dist[inedge[m].src] + 1
      /\ \A m \in Settled :
            /\ dist[m] < INFINITY
            /\ \A item \in heap : dist[m] <= item.dist
            /\ \A e \in edges : e.src = m => dist[e.dst] <= dist[m] + 1
      /\ task.dst \notin Settled
  BY DEF PathOK
<1>3. d \in 0 .. INFINITY - 1
  BY <1>2 DEF INFINITY
<1>4. /\ \A m \in closer : m \in nodes /\ d + 1 < dist[m] /\ \E e \in out : e.dst = m
      /\ \A e \in out : e.dst \notin closer => dist[e.dst] <= d + 1
  <2>1. \A e \in out : e.dst \in nodes /\ dist[e.dst] \in 0 .. INFINITY
    BY <1>1, <1>2
  <2> QED
    BY <1>3, <2>1
<1>5. /\ dist' = [m \in nodes |-> IF m \in closer THEN d + 1 ELSE dist[m]]
      /\ heap' = (heap \ {Item(n, d)}) \cup {Item(m, d + 1) : m \in closer}
      /\ \E via \in [closer -> out] :
            /\ \A m \in closer : via[m].dst = m
            /\ inedge' = [m \in nodes |-> IF m \in closer THEN via[m] ELSE inedge[m]]
  BY DEF Relax
<1>6. PICK via \in [closer -> out] :
            /\ \A m \in closer : via[m].dst = m
            /\ inedge' = [m \in nodes |-> IF m \in closer THEN via[m] ELSE inedge[m]]
  BY <1>5
<1>7. \A m \in closer : via[m] \in out /\ via[m] \in edges /\ via[m].src = n /\ via[m].dst = m
  BY <1>6
<1>8. prog' = prog /\ nodes' = nodes /\ edges' = edges /\ task' = task
  OBVIOUS
<1> HIDE DEF closer, d, out
<1>9. /\ \A m \in closer : dist'[m] = d + 1
      /\ \A m \in nodes : m \notin closer => dist'[m] = dist[m]
      /\ \A m \in closer : inedge'[m] = via[m]
      /\ \A m \in nodes : m \notin closer => inedge'[m] = inedge[m]
  BY <1>4, <1>5, <1>6
\* What is settled is no closer than it was.
<1>10. \A m \in Settled :
          m \in nodes /\ m \notin closer /\ dist[m] <= d /\ dist[m] \in 0 .. INFINITY
  <2> TAKE m \in Settled
  <2>1. m \in nodes /\ dist[m] \in 0 .. INFINITY
    BY <1>2 DEF Settled
  <2>2. dist[m] <= d
    <3>1. Item(n, d) \in heap /\ Item(n, d).dist = d
      BY DEF d, Item
    <3> QED
      BY <1>2, <3>1
  <2>3. m \notin closer
    <3>1. \A x \in 0 .. INFINITY : ~(x <= d /\ d + 1 < x)
      BY <1>3 DEF INFINITY
    <3> QED
      BY <1>4, <2>1, <2>2, <3>1
  <2> QED
    BY <2>1, <2>2, <2>3
<1>11. n \notin closer /\ task.src \notin closer
  <2>1. ~(d + 1 < d) /\ ~(d + 1 < 0)
    BY <1>3 DEF INFINITY
  <2>2. dist[task.src] = 0
    BY <1>2
  <2>3. dist[n] = d
    BY DEF d
  <2> QED
    BY <1>4, <2>1, <2>2, <2>3
<1>12. Settled' = Settled \cup {n}
  <2>1. Settled' = {m \in nodes : Item(m, dist'[m]) \notin heap'}
    BY <1>8 DEF Settled, Item
  <2>2. \A m \in closer : Item(m, dist'[m]) \in heap'
    BY <1>5, <1>9
  <2>3. ASSUME NEW m \in nodes, m \notin closer
        PROVE  Item(m, dist'[m]) \in heap' <=> Item(m, dist[m]) \in heap /\ m # n
    <3>1. Item(m, dist[m]) \notin {Item(x, d + 1) : x \in closer}
      BY <2>3 DEF Item
    <3>2. Item(m, dist[m]) = Item(n, d) <=> m = n
      BY DEF Item, d
    <3> QED
      BY <1>5, <1>9, <2>3, <3>1, <3>2
  <2>4. \A m \in nodes : m \in Settled' <=> m \in Settled \/ m = n
    <3> TAKE m \in nodes
    <3>1. CASE m \in closer
      BY <1>10, <1>11, <2>1, <2>2, <3>1
    <3>2. CASE m \notin closer
      <4>1. m \in Settled <=> Item(m, dist[m]) \notin heap
        BY DEF Settled
      <4> QED
        BY <2>1, <2>3, <3>2, <4>1
    <3> QED
      BY <3>1, <3>2
  <2>5. Settled \subseteq nodes /\ Settled' \subseteq nodes
    BY <2>1 DEF Settled
  <2> QED
    BY <2>4, <2>5
<1>13. \A m \in nodes : dist'[m] \in 0 .. INFINITY /\ dist'[m] <= dist[m]
  <2> TAKE m \in nodes
  <2>1. CASE m \in closer
    <3>1. \A x \in 0 .. INFINITY : d + 1 < x => d + 1 \in 0 .. INFINITY /\ d + 1 <= x
      BY <1>3 DEF INFINITY
    <3>2. dist[m] \in 0 .. INFINITY /\ d + 1 < dist[m] /\ dist'[m] = d + 1
      BY <1>2, <1>4, <1>9, <2>1
    <3> QED
      BY <3>1, <3>2
  <2>2. CASE m \notin closer
    BY <1>2, <1>9, <2>2 DEF INFINITY
  <2> QED
    BY <2>1, <2>2
<1>14. \A item \in heap' : item \in heap \/ (item.dist = d + 1 /\ item.node \in closer
                                            /\ item \in [node : nodes, dist : 0 .. INFINITY])
  <2> SUFFICES ASSUME NEW m \in closer, NEW item, item = Item(m, d + 1)
               PROVE  /\ item.dist = d + 1 /\ item.node \in closer
                      /\ item \in [node : nodes, dist : 0 .. INFINITY]
    BY <1>5
  <2>1. m \in nodes /\ d + 1 \in 0 .. INFINITY
    BY <1>3, <1>4 DEF INFINITY
  <2> QED
    BY <2>1 DEF Item
<1>15. task'.src \in nodes' /\ task'.dst \notin Settled'
  BY <1>2, <1>8, <1>12
<1>16. dist' \in [nodes' -> 0 .. INFINITY] /\ inedge' \in [nodes' -> edges' \cup {NoStmt}]
  <2>1. dist' = [m \in nodes |-> dist'[m]] /\ inedge' = [m \in nodes |-> inedge'[m]]
    BY <1>5, <1>6
  <2>2. \A m \in nodes : inedge'[m] \in edges \cup {NoStmt}
    BY <1>2, <1>7, <1>9
  <2> QED
    BY <1>8, <1>13, <2>1, <2>2
<1>17. heap' \subseteq [node : nodes', dist : 0 .. INFINITY]
  BY <1>2, <1>8, <1>14
<1>18. \A m \in nodes' : dist'[m] = 0 <=> m = task'.src
  <2> TAKE m \in nodes'
  <2>1. CASE m \in closer
    BY <1>3, <1>8, <1>9, <1>11, <2>1 DEF INFINITY
  <2>2. CASE m \notin closer
    BY <1>2, <1>8, <1>9, <2>2
  <2> QED
    BY <2>1, <2>2
<1>19. \A m \in nodes' : inedge'[m] = NoStmt <=> m = task'.src \/ dist'[m] = INFINITY
  <2> TAKE m \in nodes'
  <2>1. CASE m \in closer
    <3>1. inedge'[m] # NoStmt
      <4>1. NoStmt \notin edges
        BY ProgramsAssumption DEF WellFormed, TaskOK
      <4> QED
        BY <1>7, <1>9, <2>1, <4>1
    <3>2. dist'[m] # INFINITY
      <4>1. dist[m] \in 0 .. INFINITY /\ d + 1 < dist[m] /\ dist'[m] = d + 1
        BY <1>2, <1>4, <1>9, <2>1
      <4> QED
        BY <1>3, <4>1, SMTT(30) DEF INFINITY
    <3> QED
      BY <1>8, <1>11, <2>1, <3>1, <3>2
  <2>2. CASE m \notin closer
    BY <1>2, <1>8, <1>9, <2>2
  <2> QED
    BY <2>1, <2>2
<1>20. \A m \in nodes' : inedge'[m] # NoStmt =>
          /\ inedge'[m].dst = m /\ inedge'[m].src \in Settled'
          /\ dist'[m] = dist'[inedge'[m].src] + 1
  <2> SUFFICES ASSUME NEW m \in nodes, inedge'[m] # NoStmt
               PROVE  /\ inedge'[m].dst = m /\ inedge'[m].src \in Settled'
                      /\ dist'[m] = dist'[inedge'[m].src] + 1
    BY <1>8
  <2>1. CASE m \in closer
    <3>1. inedge'[m].dst = m /\ inedge'[m].src = n /\ dist'[m] = d + 1
      BY <1>7, <1>9, <2>1
    <3>2. dist'[n] = d
      BY <1>9, <1>11 DEF d
    <3> QED
      BY <1>12, <3>1, <3>2
  <2>2. CASE m \notin closer
    <3>1. inedge'[m] = inedge[m] /\ dist'[m] = dist[m]
      BY <1>9, <2>2
    <3>2. /\ inedge[m].dst = m /\ inedge[m].src \in Settled
          /\ dist[m] = dist[inedge[m].src] + 1
      BY <1>2, <3>1
    <3>3. dist'[inedge[m].src] = dist[inedge[m].src]
      BY <1>9, <1>10, <3>2
    <3> QED
      BY <1>12, <3>1, <3>2, <3>3
  <2> QED
    BY <2>1, <2>2
<1>21. ASSUME NEW m \in Settled'
       PROVE  /\ dist'[m] < INFINITY
              /\ \A item \in heap' : dist'[m] <= item.dist
              /\ \A e \in edges' : e.src = m => dist'[e.dst] <= dist'[m] + 1
  <2>1. /\ m \in nodes /\ m \notin closer /\ dist'[m] = dist[m]
        /\ dist[m] <= d /\ dist[m] \in 0 .. INFINITY
    <3>1. CASE m = n
      <4>1. d <= d /\ d \in 0 .. INFINITY
        BY <1>3 DEF INFINITY
      <4> QED
        BY <1>9, <1>11, <3>1, <4>1 DEF d
    <3>2. CASE m \in Settled
      BY <1>9, <1>10, <3>2
    <3> QED
      BY <1>12, <1>21, <3>1, <3>2
  <2>2. dist'[m] < INFINITY
    <3>1. \A x \in 0 .. INFINITY : x <= d => x < INFINITY
      BY <1>3 DEF INFINITY
    <3> QED
      BY <2>1, <3>1
  <2>3. ASSUME NEW item \in heap' PROVE dist'[m] <= item.dist
    <3>1. CASE item \in heap
      <4>1. d <= item.dist /\ item.dist \in 0 .. INFINITY
        BY <1>2, <3>1 DEF d
      <4>2. \A x, y, z \in Int : x <= y /\ y <= z => x <= z
        OBVIOUS
      <4>3. d \in Int /\ dist'[m] \in Int /\ item.dist \in Int
        <5>1. d \in Int /\ 0 .. INFINITY \subseteq Int
          BY <1>3 DEF INFINITY
        <5>2. dist'[m] \in 0 .. INFINITY
          BY <2>1
        <5> QED
          BY <4>1, <5>1, <5>2
      <4>4. dist'[m] <= d /\ d <= item.dist
        BY <2>1, <4>1
      <4> QED
        BY <4>2, <4>3, <4>4
    <3>2. CASE item.dist = d + 1
      <4>1. \A x \in 0 .. INFINITY : x <= d => x <= d + 1
        BY <1>3 DEF INFINITY
      <4>2. dist'[m] \in 0 .. INFINITY /\ dist'[m] <= d
        BY <2>1
      <4> QED
        BY <3>2, <4>1, <4>2
    <3> QED
      BY <1>14, <2>3, <3>1, <3>2
  <2>4. ASSUME NEW e \in edges', e.src = m PROVE dist'[e.dst] <= dist'[m] + 1
    <3>1. e \in edges /\ e.dst \in nodes
      BY <1>1, <1>8
    <3>2. /\ dist'[e.dst] \in 0 .. INFINITY /\ dist[e.dst] \in 0 .. INFINITY
          /\ dist'[e.dst] <= dist[e.dst]
      BY <1>2, <1>13, <3>1
    <3>3. CASE m = n
      <4>1. e \in out /\ dist'[m] = d
        BY <2>1, <2>4, <3>1, <3>3 DEF out, d
      <4>2. CASE e.dst \in closer
        BY <1>3, <1>9, <4>1, <4>2 DEF INFINITY
      <4>3. CASE e.dst \notin closer
        BY <1>4, <1>9, <3>1, <4>1, <4>3
      <4> QED
        BY <4>2, <4>3
    <3>4. CASE m \in Settled
      <4>1. dist[e.dst] <= dist[m] + 1
        BY <1>2, <2>4, <3>1, <3>4
      <4>2. \A x, y, z \in 0 .. INFINITY : x <= y /\ y <= z + 1 => x <= z + 1
        BY DEF INFINITY
      <4> QED
        BY <2>1, <3>2, <4>1, <4>2
    <3> QED
      BY <1>12, <1>21, <3>3, <3>4
  <2> QED
    BY <2>2, <2>3, <2>4
<1> QED
  BY <1>15, <1>16, <1>17, <1>18, <1>19, <1>20, <1>21 DEF PathOK

\* An item that is not live goes: no node is settled by it.
LEMMA DeadItemKeeps ==
    ASSUME PathOK, NEW item \in heap, ~Live(item), heap' = heap \ {item},
           UNCHANGED <<nodes, edges, task, dist, inedge>>
    PROVE  PathOK'
<1>1. Settled' = Settled
  <2>1. \A m \in nodes : Item(m, dist[m]) # item
    BY DEF Live, Item
  <2>2. Settled' = {m \in nodes : Item(m, dist[m]) \notin heap \ {item}}
    BY DEF Settled, Item
  <2> QED
    BY <2>1, <2>2 DEF Settled
<1>2. heap' \subseteq heap
  OBVIOUS
<1> QED
  BY <1>1, <1>2 DEF PathOK

\* A search starts with all nodes in the heap.
LEMMA AskPathStarts ==
    ASSUME TaskOK, NEW src \in nodes, NEW dst, AskPath(src, dst)
    PROVE  PathOK'
<1>1. /\ task' = [kind |-> "path", src |-> src, dst |-> dst]
      /\ dist' = [n \in nodes |-> IF n = src THEN 0 ELSE INFINITY]
      /\ inedge' = [n \in nodes |-> NoStmt]
      /\ heap' = {Item(n, IF n = src THEN 0 ELSE INFINITY) : n \in nodes}
      /\ nodes' = nodes /\ edges' = edges
  BY DEF AskPath
<1>2. Settled' = {}
  <2>1. Settled' = {m \in nodes : Item(m, dist'[m]) \notin heap'}
    BY <1>1 DEF Settled, Item
  <2>2. \A m \in nodes : Item(m, dist'[m]) \in heap'
    BY <1>1
  <2> QED
    BY <2>1, <2>2
<1>3. heap' \subseteq [node : nodes, dist : 0 .. INFINITY]
  BY <1>1 DEF Item, INFINITY
<1>4. dist' \in [nodes -> 0 .. INFINITY]
  BY <1>1 DEF INFINITY
<1>5. \A m \in nodes : dist'[m] = 0 <=> m = src
  BY <1>1 DEF INFINITY
<1>6. \A m \in nodes : m = src \/ dist'[m] = INFINITY
  BY <1>1
<1>7. inedge' \in [nodes -> edges \cup {NoStmt}] /\ \A m \in nodes : inedge'[m] = NoStmt
  BY <1>1
<1>8. task'.src = src /\ task'.dst = dst
  BY <1>1
<1> QED
  BY <1>1, <1>2, <1>3, <1>4, <1>5, <1>6, <1>7, <1>8 DEF PathOK

\* What is answered is right, be it a path, None for what nothing leads to, or
\* for a node of another graph.
LEMMA AnswerRight ==
    ASSUME TaskOK, task.kind = "path", PathOK,
           \/ \E item \in heap : /\ Least(item) /\ Live(item)
                                 /\ \/ item.node = task.dst /\ Answer("list", PathTo(task.dst))
                                    \/ item.dist = INFINITY /\ Answer("None", <<>>)
           \/ heap = {} /\ Answer("None", <<>>)
    PROVE  answer'.state # "open" /\ Answers(answer'.path)
<1> DEFINE N == Cardinality(nodes)
<1>1. N \in Nat /\ N < INFINITY
  <2>1. nodes = SuperNodes(prog) /\ prog \in Programs
    BY DEF TaskOK
  <2>2. N \in 0 .. INFINITY - 1
    BY <2>1, FiniteNodes
  <2> HIDE DEF N
  <2> QED
    BY <2>2 DEF INFINITY
\* Nothing leads to what is farther than there are nodes.
<1>2. ASSUME \A item \in heap : item.dist >= INFINITY
      PROVE  task.dst \notin Within(task.src, N)
  <2>1. \A item \in heap : item.dist > N
    <3> SUFFICES ASSUME NEW item \in heap PROVE item.dist > N
      OBVIOUS
    <3>1. item.dist \in 0 .. INFINITY /\ item.dist >= INFINITY
      BY <1>2 DEF PathOK
    <3> HIDE DEF N
    <3> QED
      <4>1. \A x \in 0 .. INFINITY : x >= INFINITY => x > N
        BY <1>1 DEF INFINITY
      <4> QED
        BY <3>1, <4>1
  <2> HIDE DEF N
  <2> QED
    BY <1>1, <2>1, NearSettled
<1>3. ASSUME NEW item \in heap, Least(item)
      PROVE  /\ item.node \in nodes /\ item.dist \in 0 .. INFINITY
             /\ \A other \in heap : other.dist \in 0 .. INFINITY /\ item.dist <= other.dist
  BY <1>3 DEF PathOK, Least
<1>4. CASE heap = {} /\ Answer("None", <<>>)
  BY <1>2, <1>4 DEF Answer, Answers
<1>5. ASSUME NEW item \in heap, Least(item), item.dist = INFINITY, Answer("None", <<>>)
      PROVE  answer'.state # "open" /\ Answers(answer'.path)
  <2>1. \A other \in heap : other.dist >= INFINITY
    BY <1>3, <1>5 DEF INFINITY
  <2> QED
    BY <1>2, <1>5, <2>1 DEF Answer, Answers
<1>6. ASSUME NEW item \in heap, Least(item), Live(item), item.node = task.dst,
             Answer("list", PathTo(task.dst))
      PROVE  answer'.state # "open" /\ Answers(answer'.path)
  <2> DEFINE dst == task.dst
             path == PathTo(dst)
             d == dist[dst]
  <2>1. dst \in nodes /\ d = item.dist /\ d \in 0 .. INFINITY
    BY <1>3, <1>6 DEF Live
  <2>2. answer'.state # "open" /\ answer'.path = path
    BY <1>6 DEF Answer
  <2>3. \/ d \in {0, INFINITY} /\ path = <<>>
        \/ /\ d \in 1 .. INFINITY - 1 /\ path # <<>> /\ Len(path) = d
           /\ path[1].src = task.src /\ path[Len(path)].dst = dst
           /\ \A i \in 1 .. Len(path) - 1 : path[i].dst = path[i + 1].src
    BY <2>1, WayBack
  <2> HIDE DEF path
  <2>4. CASE d = 0 /\ path = <<>>
    <3>1. task.src = task.dst
      BY <2>1, <2>4 DEF PathOK
    <3> QED
      BY <2>2, <2>4, <3>1 DEF Answers
  <2>5. CASE d = INFINITY /\ path = <<>>
    <3>1. \A other \in heap : other.dist >= INFINITY
      <4>1. item.dist = INFINITY
        BY <2>1, <2>5
      <4>2. \A x \in 0 .. INFINITY : INFINITY <= x => x >= INFINITY
        BY DEF INFINITY
      <4> QED
        BY <1>3, <1>6, <4>1, <4>2
    <3> QED
      BY <1>2, <2>2, <2>5, <3>1 DEF Answers
  <2>6. CASE /\ d \in 1 .. INFINITY - 1 /\ path # <<>> /\ Len(path) = d
             /\ path[1].src = task.src /\ path[Len(path)].dst = dst
             /\ \A i \in 1 .. Len(path) - 1 : path[i].dst = path[i + 1].src
    <3> HIDE DEF d
    <3>1. d - 1 \in Nat
      BY <2>6 DEF INFINITY
    <3>2. \A x \in 0 .. INFINITY : d <= x => x > d - 1
      BY <2>6 DEF INFINITY
    <3>3. \A other \in heap : other.dist > d - 1
      BY <1>3, <1>6, <2>1, <3>2
    <3>4. task.dst \notin Within(task.src, d - 1)
      BY <3>1, <3>3, NearSettled
    <3>5. task.dst \notin Within(task.src, Len(path) - 1)
      BY <2>6, <3>4
    <3> QED
      BY <2>2, <2>6, <3>5 DEF Answers
  <2> QED
    BY <2>3, <2>4, <2>5, <2>6
<1> QED
  BY <1>4, <1>5, <1>6

\* So long as it is searched.
THEOREM SearchInvariant ==
    Spec => [](task.kind = "path" => IF answer.state = "open" THEN PathOK ELSE Answers(answer.path))
<1> DEFINE Inv == task.kind = "path" =>
                     IF answer.state = "open" THEN PathOK ELSE Answers(answer.path)
<1>1. Init => Inv
  BY DEF Init
<1>2. TaskOK /\ Inv /\ [Next]_vars => Inv'
  <2> SUFFICES ASSUME TaskOK, Inv, [Next]_vars, task'.kind = "path"
               PROVE  IF answer'.state = "open" THEN PathOK' ELSE Answers(answer.path)'
    OBVIOUS
  \* An answer stays right.
  <2>1. ASSUME UNCHANGED <<prog, nodes, edges, task>>
        PROVE  Answers(answer.path)' <=> Answers(answer'.path)
    BY <2>1 DEF Answers, Within, Outward
  <2>2. CASE \E f \in Funs(prog), dst \in nodes \cup {Outside} : AskPath(Entry(prog, f), dst)
    <3>1. PICK f \in Funs(prog), dst \in nodes \cup {Outside} : AskPath(Entry(prog, f), dst)
      BY <2>2
    <3>2. Entry(prog, f) \in nodes /\ answer'.state = "open"
      BY <3>1, EntryNodes DEF TaskOK, AskPath
    <3> QED
      BY <3>1, <3>2, AskPathStarts
  <2>3. CASE PopItem
    <3>1. /\ task.kind = "path" /\ answer.state = "open" /\ PathOK
          /\ UNCHANGED <<prog, nodes, edges, task>>
      BY <2>3 DEF PopItem, Searching
    <3>2. PICK item \in heap :
             /\ Least(item)
             /\ \/ ~Live(item) /\ heap' = heap \ {item} /\ UNCHANGED <<dist, inedge, answer>>
                \/ Live(item) /\ item.node = task.dst /\ Answer("list", PathTo(task.dst))
                \/ Live(item) /\ item.dist = INFINITY /\ Answer("None", <<>>)
                \/ /\ Live(item) /\ item.node # task.dst /\ item.dist # INFINITY
                   /\ Relax(item.node) /\ UNCHANGED answer
      BY <2>3 DEF PopItem
    <3>3. CASE ~Live(item) /\ heap' = heap \ {item} /\ UNCHANGED <<dist, inedge, answer>>
      BY <3>1, <3>3, DeadItemKeeps
    <3>4. CASE \/ Live(item) /\ item.node = task.dst /\ Answer("list", PathTo(task.dst))
               \/ Live(item) /\ item.dist = INFINITY /\ Answer("None", <<>>)
      <4>1. answer'.state # "open" /\ Answers(answer'.path)
        BY <3>1, <3>2, <3>4, AnswerRight
      <4> QED
        BY <2>1, <3>1, <4>1
    <3>5. CASE /\ Live(item) /\ item.node # task.dst /\ item.dist # INFINITY
               /\ Relax(item.node) /\ UNCHANGED answer
      <4> DEFINE n == item.node
      <4>1. item \in [node : nodes, dist : 0 .. INFINITY]
        BY <3>1 DEF PathOK
      <4>2. n \in nodes /\ item.dist = dist[n] /\ item = Item(n, dist[n])
        BY <3>5, <4>1 DEF Live, Item
      <4>3. /\ Item(n, dist[n]) \in heap /\ \A other \in heap : dist[n] <= other.dist
            /\ n # task.dst /\ dist[n] # INFINITY /\ Relax(n)
        BY <3>2, <3>5, <4>2 DEF Least
      <4> HIDE DEF n
      <4>4. PathOK'
        BY <3>1, <4>2, <4>3, RelaxKeeps
      <4> QED
        BY <3>1, <3>5, <4>4
    <3> QED
      BY <3>2, <3>3, <3>4, <3>5
  <2>4. CASE Disjoint
    <3>1. /\ task.kind = "path" /\ PathOK /\ heap = {} /\ Answer("None", <<>>)
          /\ UNCHANGED <<prog, nodes, edges, task>>
      BY <2>4 DEF Disjoint, Searching
    <3>2. answer'.state # "open" /\ Answers(answer'.path)
      BY <3>1, AnswerRight
    <3> QED
      BY <2>1, <3>1, <3>2
  <2>5. CASE UNCHANGED vars
    <3>1. UNCHANGED <<prog, nodes, edges, task, heap, dist, inedge, answer>>
      BY <2>5 DEF vars
    <3>2. PathOK' <=> PathOK
      BY <3>1 DEF PathOK, Settled, Item
    <3> QED
      BY <2>1, <3>1, <3>2
  <2>6. CASE Runs \/ Sorts \/ Removes
    BY <2>6, RunsFrame, SortsFrame, RemovesFrame
  <2> QED
    BY <2>2, <2>3, <2>4, <2>5, <2>6, NextCases DEF Paths
<1> HIDE DEF Inv
<1>3. Spec => []Inv
  BY <1>1, <1>2, TaskInvariant, PTL DEF Spec
<1> QED
  BY <1>3 DEF Inv

\* ShortestFound: get_shortest_path answers a way with the fewest edges, and None
\* only where there is none, whichever of the nearest nodes the heap gives first.
THEOREM PathsShortest == Spec => []ShortestFound
<1>1. (task.kind = "path" => IF answer.state = "open" THEN PathOK ELSE Answers(answer.path))
          => ShortestFound
  BY DEF ShortestFound, Searching, Answers
<1> QED
  BY <1>1, SearchInvariant, PTL

-----------------------------------------------------------------------------
(***************************************************************************)
(* Progress: every step of a query leaves less to do, of finitely much.    *)
(***************************************************************************)
Shrinks(S, T) == S \subseteq T /\ S # T

Unreached == {n \in nodes : dist[n] = INFINITY}

\* Of the heap an item is gone, or some nodes are reached that were not.
SearchShrinks ==
    [][ Searching /\ Searching' =>
          \/ Shrinks(Unreached', Unreached)
          \/ Unreached' = Unreached /\ Shrinks(heap', heap) ]_vars

\* A loop is done, or has less to do.
LoopShrinks ==
    \/ Len(frames') < Len(frames)
    \/ /\ Len(frames') = Len(frames) /\ frames # <<>>
       /\ Shrinks(Top(frames').todo, Top(frames).todo)

SortShrinks ==
    [][ Sorting =>
          \/ Shrinks(Funs(prog) \ visited', Funs(prog) \ visited)
          \/ /\ visited' = visited
             /\ \/ Shrinks(task'.todo, task.todo)
                \/ task' = task /\ LoopShrinks ]_vars

RemovalShrinks ==
    [][ task.kind = "remove" =>
          Shrinks(nodes', nodes) \/ (nodes' = nodes /\ LoopShrinks) ]_vars

\* SearchEndsInTime: every item that get_shortest_path pops is the last of its node
\* or lets it reach new ones: no distance is improved twice, so the heap, into which
\* nodes are pushed again, is used up.
THEOREM SearchEndsInTime == Spec => SearchShrinks
<1> DEFINE Inv == task.kind = "path" =>
                     IF answer.state = "open" THEN PathOK ELSE Answers(answer.path)
           Less == \/ Shrinks(Unreached', Unreached)
                   \/ Unreached' = Unreached /\ Shrinks(heap', heap)
<1>1. ASSUME TaskOK, Inv, Next, Searching, Searching' PROVE Less
  <2>1. PathOK /\ task.kind = "path" /\ answer.state = "open" /\ answer'.state = "open"
    BY <1>1 DEF Searching
  <2>2. Paths
    BY <1>1, <2>1, NextCases, RunsFrame, SortsFrame, RemovesFrame
  <2>3. PopItem
    BY <2>1, <2>2 DEF Paths, AskPath, Disjoint, Answer
  <2>4. PICK item \in heap :
           /\ Least(item)
           /\ \/ ~Live(item) /\ heap' = heap \ {item} /\ UNCHANGED <<dist, inedge, answer>>
              \/ Live(item) /\ item.dist # INFINITY /\ Relax(item.node)
    BY <2>1, <2>3 DEF PopItem, Answer
  <2>5. nodes' = nodes /\ edges' = edges
    BY <2>3 DEF PopItem
  <2>6. CASE ~Live(item) /\ heap' = heap \ {item} /\ UNCHANGED <<dist, inedge, answer>>
    BY <2>4, <2>5, <2>6 DEF Unreached, Shrinks
  <2>7. CASE Live(item) /\ item.dist # INFINITY /\ Relax(item.node)
    <3> DEFINE n == item.node
               d == dist[n]
               out == {e \in edges : e.src = n}
               closer == {e.dst : e \in {e \in out : d + 1 < dist[e.dst]}}
    <3>1. /\ n \in nodes /\ d \in 0 .. INFINITY /\ d # INFINITY /\ item = Item(n, d)
          /\ \A other \in heap : d <= other.dist
      <4>1. item \in [node : nodes, dist : 0 .. INFINITY]
        BY <2>1 DEF PathOK
      <4> QED
        BY <2>4, <2>7, <4>1 DEF Live, Item, Least
    <3>2. /\ dist' = [m \in nodes |-> IF m \in closer THEN d + 1 ELSE dist[m]]
          /\ heap' = (heap \ {item}) \cup {Item(m, d + 1) : m \in closer}
      BY <2>7, <3>1 DEF Relax
    <3>3. closer \subseteq nodes /\ \A m \in closer : d + 1 < dist[m]
      <4>1. \A e \in edges : e.dst \in nodes
        BY <1>1, <2>1, EndsAreNodes DEF TaskOK
      <4> QED
        BY <4>1
    <3> HIDE DEF closer, d, n
    \* What was reached before is no farther than one from what is popped.
    <3>4. ASSUME NEW m \in closer PROVE dist[m] = INFINITY
      <4>1. m \in nodes /\ d + 1 < dist[m] /\ dist[m] \in 0 .. INFINITY
        BY <2>1, <3>3 DEF PathOK
      <4>2. SUFFICES ASSUME inedge[m] # NoStmt PROVE FALSE
        <5>1. dist[m] # 0
          BY <3>1, <4>1 DEF INFINITY
        <5> QED
          BY <2>1, <4>1, <5>1 DEF PathOK
      <4>3. inedge[m].src \in Settled /\ dist[m] = dist[inedge[m].src] + 1
        BY <2>1, <4>1, <4>2 DEF PathOK
      <4>4. dist[inedge[m].src] <= item.dist /\ dist[inedge[m].src] \in 0 .. INFINITY
        BY <2>1, <2>4, <4>3 DEF PathOK, Settled
      <4>5. item.dist = d
        BY <3>1 DEF Item
      <4>6. \A x, y, z \in 0 .. INFINITY : ~(x <= y /\ y + 1 < z /\ z = x + 1)
        BY DEF INFINITY
      <4> QED
        BY <3>1, <4>1, <4>3, <4>4, <4>5, <4>6
    <3>5. d + 1 # INFINITY \/ closer = {}
      BY <3>1, <3>3, <3>4 DEF INFINITY
    <3>6. Unreached' = Unreached \ closer
      BY <2>5, <3>2, <3>4, <3>5 DEF Unreached
    <3>7. CASE closer = {}
      BY <2>4, <3>2, <3>6, <3>7 DEF Shrinks
    <3>8. CASE closer # {}
      BY <3>3, <3>4, <3>6, <3>8 DEF Shrinks, Unreached
    <3> QED
      BY <3>7, <3>8
  <2> QED
    BY <2>4, <2>6, <2>7
<1>2. TaskOK /\ Inv /\ [Next]_vars => [Searching /\ Searching' => Less]_vars
  BY <1>1
<1> HIDE DEF Inv
<1>3. Spec => []Inv
  BY SearchInvariant DEF Inv
<1> QED
  BY <1>2, <1>3, TaskInvariant, PTL DEF Spec, SearchShrinks

\* The top frame of a loop that has x less to do.
LEMMA WithoutShrinks ==
    ASSUME NEW S, NEW T, frames \in Seq([node : S, todo : SUBSET T]), frames # <<>>,
           NEW x \in Top(frames).todo, frames' = Without(x)
    PROVE  LoopShrinks
<1>0. /\ Len(Without(x)) = Len(frames) /\ Len(frames) \in Nat \ {0}
      /\ Without(x)[Len(frames)] = [node |-> Top(frames).node, todo |-> Top(frames).todo \ {x}]
  BY WithoutKeeps, Zenon
<1>1. /\ Len(frames') = Len(frames) /\ Len(frames) \in Nat
      /\ frames'[Len(frames)].todo = Top(frames).todo \ {x}
  BY <1>0
<1>2. Top(frames').todo = Top(frames).todo \ {x}
  BY <1>1 DEF Top
<1> QED
  BY <1>1, <1>2 DEF LoopShrinks, Shrinks

\* The last loop is done.
LEMMA PopShrinks ==
    ASSUME NEW S, frames \in Seq(S), frames # <<>>, frames' = Pop(frames)
    PROVE  LoopShrinks
<1>1. Len(Pop(frames)) = Len(frames) - 1 /\ Len(frames) \in Nat
  BY PopProperties
<1> QED
  BY <1>1 DEF LoopShrinks

\* SortEndsInTime: topological_sort visits a function that it has not visited, or
\* is done with one of its roots or callers.
THEOREM SortEndsInTime == Spec => SortShrinks
<1> DEFINE Inv == task.kind = "sort" => SortOK
           Less == \/ Shrinks(Funs(prog) \ visited', Funs(prog) \ visited)
                   \/ /\ visited' = visited
                      /\ \/ Shrinks(task'.todo, task.todo)
                         \/ task' = task /\ LoopShrinks
<1>1. ASSUME TaskOK, Inv, Next, Sorting PROVE Less
  <2>1. /\ task.kind = "sort" /\ SortOK /\ frames \in Seq(SortFrames)
        /\ task \in [kind : {"sort"}, todo : SUBSET Funs(prog)]
    BY <1>1 DEF Sorting, SortOK, CallChain, TaskOK
  <2>2. Sorts
    BY <1>1, <2>1, NextCases, RunsFrame, PathsFrame, RemovesFrame
  <2>3. ASSUME NEW f \in Funs(prog), NEW calls, Visit(f, calls), f \notin visited
        PROVE  Shrinks(Funs(prog) \ visited', Funs(prog) \ visited)
    BY <2>3 DEF Visit, Shrinks
  <2>4. CASE SortRoot
    <3>1. PICK f \in task.todo :
             /\ task' = [task EXCEPT !.todo = @ \ {f}]
             /\ IF Callees(f) = {} THEN Visit(f, frames) ELSE UNCHANGED walk
      BY <2>4 DEF SortRoot
    <3>2. Shrinks(task'.todo, task.todo) /\ f \in Funs(prog)
      BY <2>1, <3>1 DEF Shrinks
    <3>3. CASE Callees(f) = {} /\ f \notin visited
      BY <2>3, <3>1, <3>2, <3>3
    <3>4. CASE Callees(f) # {} \/ f \in visited
      BY <3>1, <3>2, <3>4 DEF Visit, walk
    <3> QED
      BY <3>3, <3>4
  <2>5. CASE SortCaller
    <3>1. /\ frames # <<>> /\ task' = task
          /\ \E f \in Top(frames).todo : Visit(f, Without(f))
      BY <2>5 DEF SortCaller
    <3>2. PICK f \in Top(frames).todo : Visit(f, Without(f))
      BY <3>1
    <3>3. f \in Funs(prog)
      <4>1. Top(frames) \in SortFrames
        BY <2>1, <3>1, PopProperties
      <4> QED
        BY <3>2, <4>1 DEF SortFrames
    <3>4. CASE f \notin visited
      BY <2>3, <3>2, <3>3, <3>4
    <3>5. CASE f \in visited
      <4>1. frames' = Without(f) /\ visited' = visited
        BY <3>2, <3>5 DEF Visit
      <4>2. LoopShrinks
        BY <2>1, <3>1, <3>2, <4>1, WithoutShrinks DEF SortFrames
      <4> QED
        BY <3>1, <4>1, <4>2
    <3> QED
      BY <3>4, <3>5
  <2>6. CASE SortAppend
    <3>1. /\ frames # <<>> /\ frames' = Pop(frames) /\ task' = task /\ visited' = visited
      BY <2>6 DEF SortAppend
    <3> QED
      BY <2>1, <3>1, PopShrinks
  <2>7. CASE AskSort
    BY <2>1, <2>7 DEF AskSort
  <2> QED
    BY <2>2, <2>4, <2>5, <2>6, <2>7 DEF Sorts
<1>2. TaskOK /\ Inv /\ [Next]_vars => [Sorting => Less]_vars
  BY <1>1
<1> HIDE DEF Inv
<1>3. Spec => []Inv
  BY SortInvariant DEF Inv
<1> QED
  BY <1>2, <1>3, TaskInvariant, PTL DEF Spec, SortShrinks

\* RemovalEndsInTime: remove_node, which calls itself by way of remove_edge, takes
\* another node off before it does so, or an edge off one of its loops.
THEOREM RemovalEndsInTime == Spec => RemovalShrinks
<1> DEFINE Inv == task.kind = "remove" => Removing
           Less == Shrinks(nodes', nodes) \/ (nodes' = nodes /\ LoopShrinks)
<1>1. ASSUME TaskOK, Inv, Next, task.kind = "remove" PROVE Less
  <2>1. frames \in Seq(RemoveFrames)
    BY <1>1 DEF Removing
  <2>2. Removes
    BY <1>1, NextCases, RunsFrame, PathsFrame, SortsFrame
  <2>3. RemoveEdge \/ RemoveReturn
    BY <1>1, <2>2 DEF Removes, AskRemove
  <2>4. CASE RemoveEdge
    <3>1. /\ frames # <<>>
          /\ \E e \in Top(frames).todo :
                \/ frames' = Without(e) /\ nodes' = nodes
                \/ e.dst \in nodes /\ Detach(e.dst, Without(e))
      BY <2>4 DEF RemoveEdge
    <3>2. PICK e \in Top(frames).todo :
             \/ frames' = Without(e) /\ nodes' = nodes
             \/ e.dst \in nodes /\ Detach(e.dst, Without(e))
      BY <3>1
    <3>3. CASE frames' = Without(e) /\ nodes' = nodes
      BY <2>1, <3>1, <3>2, <3>3, WithoutShrinks DEF RemoveFrames
    <3>4. CASE e.dst \in nodes /\ Detach(e.dst, Without(e))
      BY <3>4 DEF Detach, Shrinks
    <3> QED
      BY <3>2, <3>3, <3>4
  <2>5. CASE RemoveReturn
    <3>1. frames # <<>> /\ frames' = Pop(frames) /\ nodes' = nodes
      BY <2>5 DEF RemoveReturn
    <3> QED
      BY <2>1, <3>1, PopShrinks
  <2> QED
    BY <2>3, <2>4, <2>5
<1>2. TaskOK /\ Inv /\ [Next]_vars => [task.kind = "remove" => Less]_vars
  BY <1>1
<1> HIDE DEF Inv
<1>3. Spec => []Inv
  BY RemovalInvariant DEF Inv
<1> QED
  BY <1>2, <1>3, TaskInvariant, PTL DEF Spec, RemovalShrinks
=============================================================================
