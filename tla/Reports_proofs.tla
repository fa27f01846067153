------------------------------- MODULE Reports_proofs -------------------------------
(***************************************************************************)
(* remove_duplicates keeps one report of each class, and GCC is given what *)
(* the traces of a function call for, for any number of functions, traces  *)
(* and objects.                                                            *)
(***************************************************************************)
EXTENDS Reports, SequenceTheorems, TLAPS

-----------------------------------------------------------------------------
(***************************************************************************)
(* Sequences of numbers in increasing order.                               *)
(***************************************************************************)
Ordered(s) == \A i, j \in DOMAIN s : i < j => s[i] < s[j]

LEMMA SetOfSeq ==
  ASSUME NEW S, NEW s \in Seq(S)
  PROVE  /\ DOMAIN s = 1..Len(s) /\ Len(s) \in Nat /\ ToSet(s) \subseteq S
         /\ \A x : x \in ToSet(s) <=> \E i \in 1..Len(s) : s[i] = x
         /\ \A x : Contains(s, x) <=> x \in ToSet(s)
<1>1. DOMAIN s = 1..Len(s) /\ Len(s) \in Nat /\ \A i \in 1..Len(s) : s[i] \in S
  BY LenProperties, ElementOfSeq
<1> QED  BY <1>1 DEF ToSet, Contains

LEMMA SetOfEmpty == ToSet(<<>>) = {}
BY DEF ToSet

LEMMA SetOfAppend ==
  ASSUME NEW S, NEW s \in Seq(S), NEW x \in S
  PROVE  Append(s, x) \in Seq(S) /\ ToSet(Append(s, x)) = ToSet(s) \cup {x}
<1> DEFINE t == Append(s, x)
<1>1. /\ t \in Seq(S) /\ Len(t) = Len(s) + 1
      /\ \A i \in 1..Len(s) : t[i] = s[i]
      /\ t[Len(s) + 1] = x
  BY AppendProperties
<1> HIDE DEF t
<1>2. Len(s) \in Nat
  BY LenProperties
<1>3. 1..(Len(s) + 1) = 1..Len(s) \cup {Len(s) + 1}
  BY <1>2
<1>4. \A y : y \in ToSet(s) <=> \E i \in 1..Len(s) : s[i] = y
  BY SetOfSeq
<1>5. \A y : y \in ToSet(t) <=> \E i \in 1..Len(t) : t[i] = y
  BY <1>1, SetOfSeq
<1>6. \A y : y \in ToSet(t) <=> y \in ToSet(s) \cup {x}
  BY <1>1, <1>3, <1>4, <1>5
<1> QED  BY <1>1, <1>6 DEF t

LEMMA InjectiveAppend ==
  ASSUME NEW S, NEW s \in Seq(S), NEW x \in S, IsInjective(s), x \notin ToSet(s)
  PROVE  IsInjective(Append(s, x))
<1>1. /\ Append(s, x) \in Seq(S) /\ Len(Append(s, x)) = Len(s) + 1
      /\ \A i \in 1..Len(s) : Append(s, x)[i] = s[i]
      /\ Append(s, x)[Len(s) + 1] = x
  BY AppendProperties
<1>2. Len(s) \in Nat /\ DOMAIN s = 1..Len(s) /\ DOMAIN Append(s, x) = 1..(Len(s) + 1)
  BY <1>1, LenProperties
<1>3. \A i \in 1..Len(s) : s[i] # x
  BY SetOfSeq
<1> QED  BY <1>1, <1>2, <1>3 DEF IsInjective

LEMMA OrderedInjective ==
  ASSUME NEW n \in Nat, NEW s \in Seq(1..n), Ordered(s)
  PROVE  IsInjective(s)
<1>1. DOMAIN s = 1..Len(s) /\ Len(s) \in Nat /\ \A i \in 1..Len(s) : s[i] \in 1..n
  BY LenProperties, ElementOfSeq
<1> QED  BY <1>1 DEF Ordered, IsInjective

LEMMA OrderedTail ==
  ASSUME NEW n \in Nat, NEW s \in Seq(1..n), Ordered(s), s # <<>>
  PROVE  /\ Head(s) \in ToSet(s) /\ Tail(s) \in Seq(1..n) /\ Ordered(Tail(s))
         /\ ToSet(Tail(s)) = ToSet(s) \ {Head(s)}
         /\ Len(Tail(s)) = Len(s) - 1 /\ \A i \in 1..Len(Tail(s)) : Tail(s)[i] = s[i + 1]
<1>1. /\ DOMAIN s = 1..Len(s) /\ Len(s) \in Nat /\ Len(s) # 0
      /\ \A i \in 1..Len(s) : s[i] \in 1..n
  BY LenProperties, ElementOfSeq, EmptySeq
<1>2. /\ Head(s) = s[1] /\ Tail(s) \in Seq(1..n) /\ Len(Tail(s)) = Len(s) - 1
      /\ \A i \in 1..Len(Tail(s)) : Tail(s)[i] = s[i + 1]
  BY <1>1, HeadTailProperties
<1>3. DOMAIN Tail(s) = 1..(Len(s) - 1)
  BY <1>2, LenProperties
<1>4. Ordered(Tail(s))
  BY <1>1, <1>2, <1>3, SMTT(30) DEF Ordered
<1>5. ASSUME NEW x  PROVE x \in ToSet(Tail(s)) <=> x \in ToSet(s) /\ x # Head(s)
  <2>1. x \in ToSet(Tail(s)) <=> \E i \in 1..(Len(s) - 1) : s[i + 1] = x
    <3>1. x \in ToSet(Tail(s)) <=> \E i \in 1..Len(Tail(s)) : Tail(s)[i] = x
      BY <1>2, SetOfSeq, ZenonT(40)
    <3> QED  BY <1>2, <3>1
  <2>2. x \in ToSet(s) <=> \E i \in 1..Len(s) : s[i] = x
    BY SetOfSeq
  <2>3. \A i \in 2..Len(s) : s[i] # s[1]
    BY <1>1 DEF Ordered
  <2>4. (\E i \in 1..(Len(s) - 1) : s[i + 1] = x) <=> \E i \in 2..Len(s) : s[i] = x
    <3>1. \A i \in 1..(Len(s) - 1) : i + 1 \in 2..Len(s)
      BY <1>1
    <3>2. \A i \in 2..Len(s) : i - 1 \in 1..(Len(s) - 1) /\ (i - 1) + 1 = i
      BY <1>1
    <3> QED  BY <3>1, <3>2
  <2>5. 1..Len(s) = {1} \cup 2..Len(s)
    BY <1>1
  <2> QED  BY <1>2, <2>1, <2>2, <2>3, <2>4, <2>5
<1>6. ToSet(Tail(s)) = ToSet(s) \ {Head(s)}
  BY <1>5
<1>7. Head(s) \in ToSet(s)
  BY <1>1, <1>2, SetOfSeq
<1> QED  BY <1>2, <1>4, <1>6, <1>7

\* An element is taken out of a sequence.
LEMMA Removal ==
  ASSUME NEW n \in Nat, NEW s \in Seq(1..n), NEW k \in 1..Len(s)
  PROVE  /\ RemoveAt(s, k) \in Seq(1..n) /\ Len(RemoveAt(s, k)) = Len(s) - 1
         /\ \A i \in 1..(Len(s) - 1) : RemoveAt(s, k)[i] = IF i < k THEN s[i] ELSE s[i + 1]
<1> DEFINE a == SubSeq(s, 1, k - 1)
           b == SubSeq(s, k + 1, Len(s))
           t == a \o b
<1>1. Len(s) \in Nat /\ k \in Int /\ \A i \in 1..Len(s) : s[i] \in 1..n
  BY LenProperties, ElementOfSeq
<1>2. 1 \in Int /\ k - 1 \in Int /\ k + 1 \in Int /\ Len(s) \in Int
  BY <1>1
<1>3. \A i \in 1..(k - 1) : s[i] \in 1..n
  BY <1>1
<1>4. \A i \in (k + 1)..Len(s) : s[i] \in 1..n
  BY <1>1
<1>5. /\ a \in Seq(1..n) /\ Len(a) = IF 1 <= k - 1 THEN (k - 1) - 1 + 1 ELSE 0
      /\ \A i \in 1..((k - 1) - 1 + 1) : a[i] = s[1 + i - 1]
  BY <1>2, <1>3, SubSeqProperties
<1>6. /\ b \in Seq(1..n) /\ Len(b) = IF k + 1 <= Len(s) THEN Len(s) - (k + 1) + 1 ELSE 0
      /\ \A i \in 1..(Len(s) - (k + 1) + 1) : b[i] = s[(k + 1) + i - 1]
  BY <1>2, <1>4, SubSeqProperties
<1> HIDE DEF a, b
<1>7. /\ t \in Seq(1..n) /\ Len(t) = Len(a) + Len(b)
      /\ \A i \in 1..(Len(a) + Len(b)) : t[i] = IF i <= Len(a) THEN a[i] ELSE b[i - Len(a)]
  BY <1>5, <1>6, ConcatProperties
<1> HIDE DEF t
<1>8. Len(a) = k - 1 /\ Len(b) = Len(s) - k
  BY <1>1, <1>5, <1>6
<1>9. ASSUME NEW i \in 1..(Len(s) - 1)  PROVE t[i] = IF i < k THEN s[i] ELSE s[i + 1]
  <2>1. t[i] = IF i <= Len(a) THEN a[i] ELSE b[i - Len(a)]
    BY <1>1, <1>7, <1>8
  <2>2. CASE i < k
    <3>1. i \in 1..((k - 1) - 1 + 1) /\ 1 + i - 1 = i /\ i <= Len(a)
      BY <1>1, <1>8, <2>2
    <3> QED  BY <1>5, <2>1, <2>2, <3>1
  <2>3. CASE ~(i < k)
    <3>1. /\ i - Len(a) \in 1..(Len(s) - (k + 1) + 1) /\ ~(i <= Len(a))
          /\ (k + 1) + (i - Len(a)) - 1 = i + 1
      BY <1>1, <1>8, <2>3
    <3> QED  BY <1>6, <2>1, <2>3, <3>1
  <2> QED  BY <2>2, <2>3
<1>10. Len(t) = Len(s) - 1
  BY <1>1, <1>7, <1>8
<1>11. RemoveAt(s, k) = t
  BY DEF RemoveAt, a, b, t
<1> QED  BY <1>7, <1>9, <1>10, <1>11

LEMMA OrderedRemove ==
  ASSUME NEW n \in Nat, NEW s \in Seq(1..n), Ordered(s), NEW k \in 1..Len(s)
  PROVE  /\ RemoveAt(s, k) \in Seq(1..n) /\ Ordered(RemoveAt(s, k))
         /\ ToSet(RemoveAt(s, k)) = ToSet(s) \ {s[k]}
<1> DEFINE t == RemoveAt(s, k)
<1>1. DOMAIN s = 1..Len(s) /\ Len(s) \in Nat /\ \A i \in 1..Len(s) : s[i] \in Int
  BY LenProperties, ElementOfSeq
<1>2. /\ t \in Seq(1..n) /\ Len(t) = Len(s) - 1
      /\ \A i \in 1..(Len(s) - 1) : t[i] = IF i < k THEN s[i] ELSE s[i + 1]
  BY Removal
<1> HIDE DEF t
<1>3. DOMAIN t = 1..(Len(s) - 1)
  BY <1>2, LenProperties
<1>4. \A i, j \in 1..Len(s) : i < j => s[i] < s[j]
  BY <1>1 DEF Ordered
<1>5. ASSUME NEW i \in 1..(Len(s) - 1), NEW j \in 1..(Len(s) - 1), i < j  PROVE t[i] < t[j]
  <2>1. PICK x \in {i, i + 1} : t[i] = s[x] /\ (x = i <=> i < k)
    BY <1>2, SMTT(30)
  <2>2. PICK y \in {j, j + 1} : t[j] = s[y] /\ (y = j <=> j < k)
    BY <1>2, SMTT(30)
  <2>3. x \in 1..Len(s) /\ y \in 1..Len(s) /\ x < y
    BY <1>1, <1>5, <2>1, <2>2, SMTT(30)
  <2> QED  BY <1>4, <2>1, <2>2, <2>3
<1>6. Ordered(t)
  BY <1>3, <1>5 DEF Ordered
<1>7. \A x : x \in ToSet(s) <=> \E i \in 1..Len(s) : s[i] = x
  BY SetOfSeq
<1>8. \A x : x \in ToSet(t) <=> \E i \in 1..(Len(s) - 1) : t[i] = x
  BY <1>2, SetOfSeq
<1>9. ASSUME NEW i \in 1..(Len(s) - 1)  PROVE t[i] \in ToSet(s) /\ t[i] # s[k]
  <2>1. PICK x \in {i, i + 1} : t[i] = s[x] /\ (x = i <=> i < k)
    BY <1>2, SMTT(30)
  <2>2. x \in 1..Len(s) /\ (x < k \/ k < x)
    BY <1>1, <2>1
  <2>3. s[x] # s[k]
    BY <1>1, <1>4, <2>2
  <2> QED  BY <1>7, <2>1, <2>2, <2>3
<1>10. ASSUME NEW j \in 1..Len(s), s[j] # s[k]  PROVE s[j] \in ToSet(t)
  <2>1. j < k \/ k < j
    BY <1>1, <1>10
  <2>2. CASE j < k
    <3>1. j \in 1..(Len(s) - 1) /\ t[j] = s[j]
      BY <1>1, <1>2, <2>2, SMTT(30)
    <3> QED  BY <1>8, <3>1
  <2>3. CASE k < j
    <3>1. j - 1 \in 1..(Len(s) - 1) /\ ~(j - 1 < k) /\ (j - 1) + 1 = j
      BY <1>1, <2>3
    <3>2. t[j - 1] = s[j]
      BY <1>2, <3>1
    <3> QED  BY <1>8, <3>1, <3>2
  <2> QED  BY <2>1, <2>2, <2>3
<1>11. ToSet(t) = ToSet(s) \ {s[k]}
  BY <1>7, <1>8, <1>9, <1>10
<1> QED  BY <1>2, <1>6, <1>11 DEF t

-----------------------------------------------------------------------------
(***************************************************************************)
(* The invariant.                                                          *)
(***************************************************************************)
\* What the value that is returned calls for.
ReturnFaults(e) == {Message(e.loc, c, <<>>) : c \in ToSet(e.complaints)}

\* What may be said of a trace.
Possible(e) ==
    {ObjectMessage(e, o) : o \in Objects}
      \cup {Message(e.loc, e.msg, <<>>)} \cup ReturnFaults(e)

Said == UNION {Possible(e) : e \in Ends}

Made == 1..Len(made)

Typed ==
    /\ options \in Options
    /\ pc \in {"pass", "traces", "objects", "removal", "flush"}
    /\ fun \in Seq(Names) /\ (pc # "pass" => fun # <<>>)
    /\ traces \in Seq(Ends) /\ todo \subseteq Objects
    /\ pc = "objects" => traces # <<>> /\ LastTrace.kind = "return"
    /\ made \in Seq(Said) /\ reports \in Seq(Made)
    /\ duplicates \in Seq(Seq(Made)) /\ Len(duplicates) = Len(made)
    /\ outer \in Seq(Made) /\ inner \in Seq(Made)
    /\ pc # "removal" => outer = <<>> /\ inner = <<>>
    /\ files \in [Names -> SUBSET Said]

\* A report is in the list, or it is the duplicate of one that is.
Listed ==
    /\ Ordered(reports)
    /\ \A r \in Made : r \in ToSet(reports) <=> ~\E s \in Made : r \in ToSet(duplicates[s])

\* Duplicates come later, say the same, and belong to a report in the list.
Merged ==
    \A s \in Made :
        /\ IsInjective(duplicates[s])
        /\ \A d \in ToSet(duplicates[s]) : d > s /\ Same(d, s) /\ s \in ToSet(reports)

\* Until the removal starts there is nothing to be told apart.
Fresh ==
    /\ reports = [i \in 1..Len(made) |-> i]
    /\ duplicates = [i \in 1..Len(made) |-> <<>>]

Early == pc \in {"traces", "objects"} => Fresh

\* The later reports of the same class.
Class(r) == {s \in Made : s > r /\ Same(s, r)}

\* How many reports the outer loop has come to.
Reached == Len(made) - Len(outer)

\* The reports that the outer loop is still to come to have no duplicates, and
\* those that it has dealt with have all of their class.
OuterLoop ==
    /\ \A i \in 1..Len(outer) : outer[i] = Reached + i
    /\ \A r \in Made : r > Reached => duplicates[r] = <<>>
    /\ \A r \in ToSet(reports) :
           r <= Reached /\ ~(inner # <<>> /\ r = report) => ToSet(duplicates[r]) = Class(r)

\* The class of the report that is being compared is what was found of it and
\* what is still to be compared.
InnerLoop ==
    inner # <<>> =>
        /\ report = Reached /\ report \in ToSet(reports)
        /\ Ordered(inner) /\ ToSet(inner) \subseteq ToSet(reports)
        /\ Class(report) = ToSet(duplicates[report]) \cup (Class(report) \cap ToSet(inner))

Removing == pc = "removal" => OuterLoop /\ InnerLoop

Settled ==
    pc = "flush" =>
        \A r \in ToSet(reports) :
            ToSet(duplicates[r]) = Class(r) /\ notes[r] = Len(duplicates[r])

\* What an end of a trace calls for: of some of the objects, and all in all.
ObjectFaults(e, S) == {ObjectMessage(e, o) : o \in {x \in S : e.balance[x] # 0}}

FaultsOf(e) ==
    IF e.kind = "error"
    THEN IF e.definite \/ options.show_possible_null_derefs
         THEN {Message(e.loc, e.msg, <<>>)} ELSE {}
    ELSE IF e.kind = "return" THEN ObjectFaults(e, Objects) \cup ReturnFaults(e) ELSE {}

\* What is still to be said of the last trace.
Due == IF pc = "objects" THEN ObjectFaults(LastTrace, todo) \cup ReturnFaults(LastTrace) ELSE {}

Collected == ToSet(made) \cup Due = UNION {FaultsOf(e) : e \in ToSet(traces)}

Flushed ==
    pc = "pass" /\ fun # <<>> =>
        /\ ToSet(emitted) = ToSet(made) /\ IsInjective(emitted)
        /\ made # <<>> => files[Last(fun)] = ToSet(made)

Inv == Typed /\ Listed /\ Merged /\ Early /\ Removing /\ Settled /\ Collected /\ Flushed

-----------------------------------------------------------------------------
LEMMA FaultsByTrace == Faults = UNION {FaultsOf(e) : e \in ToSet(traces)}
<1> DEFINE E == {t \in ToSet(traces) : t.kind = "error"
                                        /\ (t.definite \/ options.show_possible_null_derefs)}
           R == {t \in ToSet(traces) : t.kind = "return"}
<1>1. Faults = {Message(e.loc, e.msg, <<>>) : e \in E}
               \cup UNION {ObjectFaults(e, Objects) \cup ReturnFaults(e) : e \in R}
  BY DEF Faults, ObjectFaults, ReturnFaults
<1>2. \A e \in E : FaultsOf(e) = {Message(e.loc, e.msg, <<>>)}
  BY DEF FaultsOf
<1>3. \A e \in R : FaultsOf(e) = ObjectFaults(e, Objects) \cup ReturnFaults(e)
  BY DEF FaultsOf
<1>4. \A e \in ToSet(traces) : e \notin E \cup R => FaultsOf(e) = {}
  BY DEF FaultsOf
<1>5. E \subseteq ToSet(traces) /\ R \subseteq ToSet(traces)
  OBVIOUS
<1> HIDE DEF E, R
<1>6. ASSUME NEW x
      PROVE  x \in Faults <=> \E e \in ToSet(traces) : x \in FaultsOf(e)
  <2>1. x \in Faults <=> \/ \E e \in E : x = Message(e.loc, e.msg, <<>>)
                         \/ \E e \in R : x \in ObjectFaults(e, Objects) \cup ReturnFaults(e)
    BY <1>1
  <2>2. (\E e \in E : x = Message(e.loc, e.msg, <<>>)) <=> \E e \in E : x \in FaultsOf(e)
    BY <1>2
  <2>3. (\E e \in R : x \in ObjectFaults(e, Objects) \cup ReturnFaults(e))
          <=> \E e \in R : x \in FaultsOf(e)
    BY <1>3
  <2> QED  BY <1>4, <1>5, <2>1, <2>2, <2>3
<1> QED  BY <1>6

\* The errors that are not suppressed are those that are to be said.
LEMMA ErrorsJudged ==
  ASSUME NEW e \in Ends, options \in Options, e.kind = "error"
  PROVE  ~Suppressed(e) <=> (e.definite \/ options.show_possible_null_derefs)
<1>1. e \in Errors /\ (e.msg = "other" => e.definite)
  BY DEF Ends, Errors, Exits, Returns
<1> QED  BY <1>1 DEF Errors, Suppressed

LEMMA FaultsSaid ==
  ASSUME NEW e \in Ends, NEW o \in Objects
  PROVE  ObjectMessage(e, o) \in Said /\ Message(e.loc, e.msg, <<>>) \in Said
         /\ ReturnFaults(e) \subseteq Said
BY DEF Said, Possible

\* IsDuplicate, by sets.
LEMMA DuplicateIs ==
  ASSUME Typed, NEW r
  PROVE  /\ IsDuplicate(r) <=> \E s \in Made : r \in ToSet(duplicates[s])
         /\ DOMAIN duplicates = Made /\ DOMAIN made = Made /\ Len(made) \in Nat
         /\ \A s \in Made : duplicates[s] \in Seq(Made)
         /\ Contains(reports, r) <=> r \in ToSet(reports)
         /\ ToSet(reports) \subseteq Made
<1>1. duplicates \in Seq(Seq(Made)) /\ Len(duplicates) = Len(made) /\ made \in Seq(Said)
  BY DEF Typed
<1>2. DOMAIN duplicates = Made /\ DOMAIN made = Made /\ Len(made) \in Nat
      /\ \A s \in Made : duplicates[s] \in Seq(Made)
  BY <1>1, LenProperties, ElementOfSeq DEF Made
<1>3. \A s \in Made : Contains(duplicates[s], r) <=> r \in ToSet(duplicates[s])
  BY <1>2, SetOfSeq
<1>4. ToSet(reports) \subseteq Made /\ (Contains(reports, r) <=> r \in ToSet(reports))
  BY SetOfSeq DEF Typed
<1> QED  BY <1>2, <1>3, <1>4 DEF IsDuplicate

\* Before the removal all the reports are in the list.
AllListed ==
    /\ reports \in Seq(Made) /\ duplicates \in Seq(Seq(Made))
    /\ Len(reports) = Len(made) /\ Len(duplicates) = Len(made)
    /\ \A i \in Made : reports[i] = i /\ duplicates[i] = <<>>
    /\ ToSet(reports) = Made

LEMMA FreshIs == made \in Seq(Said) /\ Fresh => AllListed /\ Listed /\ Merged
<1> SUFFICES ASSUME made \in Seq(Said), Fresh  PROVE AllListed /\ Listed /\ Merged
  OBVIOUS
<1>1. Len(made) \in Nat
  BY LenProperties
<1>2. \A i \in Made : reports[i] = i /\ duplicates[i] = <<>>
  BY DEF Fresh, Made
<1>3. <<>> \in Seq(Made)
  BY EmptySeq
<1>4. /\ reports \in [1..Len(made) -> Made]
      /\ duplicates \in [1..Len(made) -> Seq(Made)]
  BY <1>3 DEF Fresh, Made
<1>5. reports \in Seq(Made) /\ duplicates \in Seq(Seq(Made))
  BY <1>1, <1>4, SeqDef
<1>6. DOMAIN reports = Made /\ DOMAIN duplicates = Made
  BY DEF Fresh, Made
<1>7. Len(reports) = Len(made) /\ Len(duplicates) = Len(made)
  BY <1>1, <1>5, <1>6, LenProperties DEF Made
<1>8. ToSet(reports) = Made
  BY <1>2, <1>6 DEF ToSet
<1>9. Ordered(reports)
  BY <1>2, <1>6 DEF Ordered
<1>10. \A s \in Made : ToSet(duplicates[s]) = {}
  BY <1>2, SetOfEmpty
<1>11. IsInjective(<<>>)
  BY DEF IsInjective
<1>12. Listed /\ Merged
  BY <1>2, <1>8, <1>9, <1>10, <1>11 DEF Listed, Merged
<1> QED  BY <1>2, <1>5, <1>7, <1>8, <1>12 DEF AllListed

LEMMA SetOfConcat ==
  ASSUME NEW S, NEW s \in Seq(S), NEW t \in Seq(S)
  PROVE  s \o t \in Seq(S) /\ ToSet(s \o t) = ToSet(s) \cup ToSet(t)
<1>1. /\ s \o t \in Seq(S) /\ Len(s \o t) = Len(s) + Len(t)
      /\ \A i \in 1..(Len(s) + Len(t)) : (s \o t)[i] = IF i <= Len(s) THEN s[i] ELSE t[i - Len(s)]
  BY ConcatProperties
<1> DEFINE u == s \o t
<1> HIDE DEF u
<1>2. Len(s) \in Nat /\ Len(t) \in Nat
  BY LenProperties
<1>3. \A x : x \in ToSet(s) <=> \E i \in 1..Len(s) : s[i] = x
  BY SetOfSeq
<1>4. \A x : x \in ToSet(t) <=> \E i \in 1..Len(t) : t[i] = x
  BY SetOfSeq
<1>5. \A x : x \in ToSet(u) <=> \E i \in 1..(Len(s) + Len(t)) : u[i] = x
  BY <1>1, SetOfSeq DEF u
<1>6. \A i \in 1..Len(s) : i \in 1..(Len(s) + Len(t)) /\ u[i] = s[i]
  BY <1>1, <1>2 DEF u
<1>7. ASSUME NEW i \in 1..Len(t)  PROVE i + Len(s) \in 1..(Len(s) + Len(t)) /\ u[i + Len(s)] = t[i]
  <2>1. i + Len(s) \in 1..(Len(s) + Len(t)) /\ ~(i + Len(s) <= Len(s)) /\ (i + Len(s)) - Len(s) = i
    BY <1>2
  <2> QED  BY <1>1, <2>1 DEF u
<1>8. ASSUME NEW i \in 1..(Len(s) + Len(t))  PROVE u[i] \in ToSet(s) \cup ToSet(t)
  <2>1. CASE i <= Len(s)
    <3>1. i \in 1..Len(s)
      BY <1>2, <2>1
    <3> QED  BY <1>3, <1>6, <3>1
  <2>2. CASE ~(i <= Len(s))
    <3>1. i - Len(s) \in 1..Len(t)
      BY <1>2, <2>2
    <3>2. u[i] = t[i - Len(s)]
      BY <1>1, <2>2 DEF u
    <3> QED  BY <1>4, <3>1, <3>2
  <2> QED  BY <2>1, <2>2
<1>9. ToSet(u) = ToSet(s) \cup ToSet(t)
  BY <1>3, <1>4, <1>5, <1>6, <1>7, <1>8
<1> QED  BY <1>1, <1>9 DEF u

\* More reports: as many as there are messages.
LEMMA Making ==
  ASSUME made \in Seq(Said), Fresh, NEW ms \in Seq(Said), Make(ms)
  PROVE  made' \in Seq(Said) /\ Fresh' /\ ToSet(made') = ToSet(made) \cup ToSet(ms)
<1> DEFINE n == Len(made)
           k == Len(ms)
<1>1. n \in Nat /\ k \in Nat
  BY LenProperties
<1>2. made' = made \o ms
  BY DEF Make
<1>3. made' \in Seq(Said) /\ ToSet(made') = ToSet(made) \cup ToSet(ms)
  BY <1>2, SetOfConcat
<1>4. Len(made') = n + k
  BY <1>2, ConcatProperties
<1>5. reports' = [i \in 1..n |-> i] \o [i \in 1..k |-> n + i]
  BY DEF Make, Fresh
<1>6. duplicates' = [i \in 1..n |-> <<>>] \o [i \in 1..k |-> <<>>]
  BY DEF Make, Fresh
<1> HIDE DEF n, k
<1>7. [i \in 1..n |-> i] \o [i \in 1..k |-> n + i] = [i \in 1..(n + k) |-> i]
  BY <1>1
<1>8. [i \in 1..n |-> <<>>] \o [i \in 1..k |-> <<>>] = [i \in 1..(n + k) |-> <<>>]
  BY <1>1
<1> QED  BY <1>3, <1>4, <1>5, <1>6, <1>7, <1>8 DEF Fresh

LEMMA MakingOne ==
  ASSUME made \in Seq(Said), Fresh, NEW m \in Said, Make(<<m>>)
  PROVE  made' \in Seq(Said) /\ Fresh' /\ ToSet(made') = ToSet(made) \cup {m}
<1>1. <<m>> \in Seq(Said) /\ Len(<<m>>) = 1 /\ <<m>>[1] = m
  OBVIOUS
<1>2. ToSet(<<m>>) = {m}
  <2>1. \A x : x \in ToSet(<<m>>) <=> \E i \in 1..Len(<<m>>) : <<m>>[i] = x
    BY <1>1, SetOfSeq
  <2> QED  BY <1>1, <2>1
<1> QED  BY <1>1, <1>2, Making

-----------------------------------------------------------------------------
(***************************************************************************)
(* Reports are made.                                                       *)
(***************************************************************************)
\* The trace, or the part of one, that is looked at has led to some messages or
\* to none.
LEMMA EarlyKept ==
  ASSUME Inv, pc \in {"traces", "objects"}, pc' \in {"traces", "objects"},
         UNCHANGED <<options, fun, loops, files>>,
         traces' \in Seq(Ends), todo' \subseteq Objects,
         pc' = "objects" => traces' # <<>> /\ LastTrace'.kind = "return",
         \/ UNCHANGED <<made, reports, duplicates>>
         \/ \E ms \in Seq(Said) : Make(ms),
         Collected'
  PROVE  Inv'
<1>1. Fresh /\ Typed
  BY DEF Inv, Early
<1>2. made \in Seq(Said)
  BY <1>1 DEF Typed
<1>3. (made \in Seq(Said) /\ Fresh)'
  <2>1. CASE UNCHANGED <<made, reports, duplicates>>
    BY <1>1, <1>2, <2>1 DEF Fresh
  <2>2. CASE \E ms \in Seq(Said) : Make(ms)
    BY <1>1, <1>2, <2>2, Making
  <2> QED  BY <2>1, <2>2
<1>4. AllListed' /\ Listed' /\ Merged'
  BY <1>3, FreshIs, PTL
<1>5. outer = <<>> /\ inner = <<>> /\ outer' = <<>> /\ inner' = <<>>
  BY <1>1 DEF Typed, loops
<1>6. <<>> \in Seq(Made')
  BY EmptySeq
<1>7. Typed'
  BY <1>1, <1>3, <1>4, <1>5, <1>6 DEF Typed, AllListed
<1>8. pc' # "removal" /\ pc' # "flush" /\ pc' # "pass"
  OBVIOUS
<1> QED  BY <1>3, <1>4, <1>7, <1>8 DEF Inv, Early, Removing, Settled, Flushed

LEMMA ExecuteKept ==
  ASSUME Inv, Execute
  PROVE  Inv'
<1>1. Typed
  BY DEF Inv
<1>2. PICK n \in Names : fun' = Append(fun, n)
  BY DEF Execute
<1>3. /\ made' = <<>> /\ reports' = <<>> /\ duplicates' = <<>> /\ emitted' = <<>> /\ traces' = <<>>
      /\ pc' \in {"traces", "pass"} /\ pc = "pass" /\ UNCHANGED <<options, todo, loops, files>>
  BY DEF Execute
<1>4. fun' \in Seq(Names) /\ fun' # <<>>
  <2>1. fun \in Seq(Names)
    BY <1>1 DEF Typed
  <2> QED  BY <1>2, <2>1, AppendProperties
<1>5. outer' = <<>> /\ inner' = <<>>
  BY <1>1, <1>3 DEF Typed, loops
<1>6. \A S : <<>> \in Seq(S) /\ Len(<<>>) = 0
  BY EmptySeq
<1>7. Typed'
  BY <1>1, <1>3, <1>4, <1>5, <1>6 DEF Typed
<1>8. /\ Made' = {} /\ ToSet(made') = {} /\ ToSet(traces') = {}
      /\ ToSet(emitted') = {} /\ ToSet(reports') = {}
  BY <1>3, <1>6, SetOfEmpty DEF Made
<1>9. Ordered(reports') /\ IsInjective(emitted')
  BY <1>3 DEF Ordered, IsInjective
<1>10. Listed' /\ Merged'
  BY <1>8, <1>9 DEF Listed, Merged
<1>11. reports' = [i \in 1..Len(made') |-> i] /\ duplicates' = [i \in 1..Len(made') |-> <<>>]
  BY <1>3
<1>12. Collected'
  BY <1>3, <1>8 DEF Collected, Due
<1> QED  BY <1>3, <1>7, <1>8, <1>9, <1>10, <1>11, <1>12
         DEF Inv, Early, Fresh, Removing, Settled, Flushed

LEMMA TakeTraceKept ==
  ASSUME Inv, TakeTrace
  PROVE  Inv'
<1>1. Typed /\ Collected /\ pc = "traces" /\ Fresh
  BY DEF Inv, TakeTrace, Early
<1>2. PICK e \in Ends :
           /\ traces' = Append(traces, e)
           /\ IF e.kind = "error" /\ ~Suppressed(e)
              THEN Make(<<Message(e.loc, e.msg, <<>>)>>) ELSE UNCHANGED <<made, reports, duplicates>>
           /\ IF e.kind = "return" THEN pc' = "objects" /\ todo' = Objects
              ELSE UNCHANGED <<pc, todo>>
  BY DEF TakeTrace
<1>3. UNCHANGED <<options, fun, loops, notes, emitted, files>>
  BY DEF TakeTrace
<1>4. traces \in Seq(Ends) /\ made \in Seq(Said) /\ options \in Options
  BY <1>1 DEF Typed
<1>5. /\ traces' \in Seq(Ends) /\ traces' # <<>> /\ ToSet(traces') = ToSet(traces) \cup {e}
      /\ LastTrace' = e
  <2>1. /\ traces' \in Seq(Ends) /\ traces' # <<>> /\ Len(traces') = Len(traces) + 1
        /\ traces'[Len(traces) + 1] = e
    BY <1>2, <1>4, AppendProperties
  <2>2. ToSet(traces') = ToSet(traces) \cup {e}
    BY <1>2, <1>4, SetOfAppend
  <2> QED  BY <2>1, <2>2 DEF LastTrace, Last
<1>6. pc' \in {"traces", "objects"} /\ todo' \subseteq Objects
      /\ (pc' = "objects" <=> e.kind = "return")
  BY <1>1, <1>2 DEF Typed
<1>7. (~Suppressed(e) <=> (e.definite \/ options.show_possible_null_derefs)) \/ e.kind # "error"
  BY <1>4, ErrorsJudged
<1>8. \/ UNCHANGED <<made, reports, duplicates>>
      \/ \E ms \in Seq(Said) : Make(ms)
  <2>1. Message(e.loc, e.msg, <<>>) \in Said /\ <<Message(e.loc, e.msg, <<>>)>> \in Seq(Said)
    BY DEF Said, Possible
  <2> QED  BY <1>2, <2>1
<1>9. ToSet(made') \cup Due' = ToSet(made) \cup FaultsOf(e)
  <2>1. CASE e.kind = "error" /\ ~Suppressed(e)
    <3>1. ToSet(made') = ToSet(made) \cup {Message(e.loc, e.msg, <<>>)}
      <4>1. Message(e.loc, e.msg, <<>>) \in Said
        BY DEF Said, Possible
      <4> QED  BY <1>1, <1>2, <1>4, <2>1, <4>1, MakingOne
    <3>2. Due' = {} /\ FaultsOf(e) = {Message(e.loc, e.msg, <<>>)}
      BY <1>6, <1>7, <2>1 DEF Due, FaultsOf
    <3> QED  BY <3>1, <3>2
  <2>2. CASE e.kind = "error" /\ Suppressed(e)
    BY <1>2, <1>6, <1>7, <2>2 DEF Due, FaultsOf
  <2>3. CASE e.kind = "return"
    <3>1. made' = made /\ todo' = Objects /\ pc' = "objects"
      BY <1>2, <2>3
    <3>2. Due' = ObjectFaults(e, Objects) \cup ReturnFaults(e)
      BY <1>5, <3>1 DEF Due, ObjectFaults, ReturnFaults
    <3> QED  BY <2>3, <3>1, <3>2 DEF FaultsOf
  <2>4. CASE e.kind # "error" /\ e.kind # "return"
    BY <1>2, <1>6, <2>4 DEF Due, FaultsOf
  <2> QED  BY <2>1, <2>2, <2>3, <2>4
<1>10. Collected'
  <2>1. ToSet(made) = UNION {FaultsOf(t) : t \in ToSet(traces)}
    BY <1>1 DEF Collected, Due
  <2>2. \A t : FaultsOf(t)' = FaultsOf(t)
    BY <1>3 DEF FaultsOf, ObjectFaults, ReturnFaults
  <2>3. \A x : (\E t \in ToSet(traces') : x \in FaultsOf(t))
                 <=> x \in FaultsOf(e) \/ \E t \in ToSet(traces) : x \in FaultsOf(t)
    BY <1>5
  <2>4. \A x : x \in ToSet(made') \cup Due' <=> \E t \in ToSet(traces') : x \in FaultsOf(t)
    BY <1>9, <2>1, <2>3
  <2>5. ToSet(made') \cup Due' = UNION {FaultsOf(t) : t \in ToSet(traces')}
    BY <2>4
  <2> QED  BY <2>2, <2>5 DEF Collected
<1> QED  BY <1>1, <1>3, <1>5, <1>6, <1>8, <1>10, EarlyKept

LEMMA CheckObjectKept ==
  ASSUME Inv, CheckObject
  PROVE  Inv'
<1>1. Typed /\ Collected /\ pc = "objects" /\ Fresh /\ made \in Seq(Said)
  BY DEF Inv, CheckObject, Early, Typed
<1>2. PICK o \in todo :
           /\ todo' = todo \ {o}
           /\ IF LastTrace.balance[o] # 0 THEN Make(<<ObjectMessage(LastTrace, o)>>)
              ELSE UNCHANGED <<made, reports, duplicates>>
  BY DEF CheckObject
<1>3. UNCHANGED <<options, pc, fun, traces, loops, notes, emitted, files>>
  BY DEF CheckObject
<1>4. LastTrace \in Ends /\ LastTrace' = LastTrace /\ LastTrace.kind = "return" /\ traces # <<>>
  <2>1. traces \in Seq(Ends) /\ traces # <<>> /\ LastTrace.kind = "return"
    BY <1>1 DEF Typed
  <2>2. Len(traces) \in 1..Len(traces)
    BY <2>1, EmptySeq, LenProperties
  <2>3. LastTrace \in Ends
    BY <2>1, <2>2, ElementOfSeq DEF LastTrace, Last
  <2> QED  BY <1>3, <2>1, <2>3 DEF LastTrace, Last
<1>5. o \in Objects /\ todo' \subseteq Objects
  BY <1>1, <1>2 DEF Typed
<1> DEFINE m == ObjectMessage(LastTrace, o)
<1>6. m \in Said
  BY <1>4, <1>5 DEF Said, Possible
<1> HIDE DEF m
<1>7. /\ LastTrace.balance[o] # 0 => ToSet(made') = ToSet(made) \cup {m}
      /\ LastTrace.balance[o] = 0 => ToSet(made') = ToSet(made)
  BY <1>1, <1>2, <1>6, MakingOne DEF m
<1>8. ObjectFaults(LastTrace, todo)
        = ObjectFaults(LastTrace, todo') \cup (IF LastTrace.balance[o] # 0 THEN {m} ELSE {})
  <2>1. {x \in todo : LastTrace.balance[x] # 0}
          = {x \in todo' : LastTrace.balance[x] # 0}
              \cup (IF LastTrace.balance[o] # 0 THEN {o} ELSE {})
    BY <1>2
  <2> QED  BY <2>1 DEF ObjectFaults, m
<1>9. Collected'
  <2>1. Due = ObjectFaults(LastTrace, todo) \cup ReturnFaults(LastTrace)
    BY <1>1 DEF Due
  <2>2. Due' = ObjectFaults(LastTrace, todo') \cup ReturnFaults(LastTrace)
    BY <1>1, <1>3, <1>4 DEF Due, ObjectFaults, ReturnFaults
  <2>3. ToSet(made') \cup Due' = ToSet(made) \cup Due
    BY <1>7, <1>8, <2>1, <2>2
  <2>4. UNION {FaultsOf(t) : t \in ToSet(traces)}' = UNION {FaultsOf(t) : t \in ToSet(traces)}
    BY <1>3 DEF FaultsOf, ObjectFaults, ReturnFaults
  <2> QED  BY <1>1, <2>3, <2>4 DEF Collected
<1>10. \/ UNCHANGED <<made, reports, duplicates>>
       \/ \E ms \in Seq(Said) : Make(ms)
  <2>1. <<m>> \in Seq(Said)
    BY <1>6
  <2> QED  BY <1>2, <2>1 DEF m
<1>11. traces' \in Seq(Ends) /\ traces' # <<>> /\ LastTrace'.kind = "return"
  BY <1>1, <1>3, <1>4 DEF Typed
<1> QED  BY <1>1, <1>3, <1>5, <1>9, <1>10, <1>11, EarlyKept

ReturnKinds == {"deallocated", "NULL", "sets", "negative"}

LEMMA ChecksAreSequences == \A c \in ReturnChecks : c \in Seq(ReturnKinds)
<1>1. ASSUME NEW x \in ReturnKinds, NEW y \in ReturnKinds
      PROVE  <<>> \in Seq(ReturnKinds) /\ <<x>> \in Seq(ReturnKinds) /\ <<x, y>> \in Seq(ReturnKinds)
  OBVIOUS
<1> QED  BY <1>1 DEF ReturnChecks, ReturnKinds

LEMMA CheckReturnKept ==
  ASSUME Inv, CheckReturn
  PROVE  Inv'
<1>1. /\ Typed /\ Collected /\ pc = "objects" /\ Fresh /\ made \in Seq(Said)
      /\ todo = {} /\ pc' = "traces"
  BY DEF Inv, CheckReturn, Early, Typed
<1>2. UNCHANGED <<options, fun, traces, todo, loops, notes, emitted, files>>
  BY DEF CheckReturn
<1> DEFINE ms == [i \in DOMAIN LastTrace.complaints |->
                      Message(LastTrace.loc, LastTrace.complaints[i], <<>>)]
<1>3. Make(ms)
  BY DEF CheckReturn
<1>4. traces \in Seq(Ends) /\ LastTrace \in Ends /\ LastTrace.kind = "return"
  <2>1. traces \in Seq(Ends) /\ traces # <<>>
    BY <1>1 DEF Typed
  <2>2. Len(traces) \in 1..Len(traces)
    BY <2>1, EmptySeq, LenProperties
  <2> QED  BY <1>1, <2>1, <2>2, ElementOfSeq DEF LastTrace, Last, Typed
<1>5. ToSet(ms) = ReturnFaults(LastTrace)
  BY DEF ToSet, ReturnFaults
<1>6. ms \in Seq(Said)
  <2>1. LastTrace.complaints \in Seq(ReturnKinds)
    <3>1. LastTrace \in Returns
      BY <1>4 DEF Ends, Errors, Exits
    <3>2. LastTrace.complaints \in ReturnChecks
      BY <3>1, BoundsAssumption DEF Returns
    <3> QED  BY <3>2, ChecksAreSequences
  <2>2. DOMAIN LastTrace.complaints = 1..Len(LastTrace.complaints) /\ Len(LastTrace.complaints) \in Nat
    BY <2>1, LenProperties
  <2>3. ToSet(ms) \subseteq Said
    BY <1>4, <1>5 DEF Said, Possible
  <2>4. ms \in [1..Len(LastTrace.complaints) -> Said]
    BY <2>2, <2>3 DEF ToSet
  <2> QED  BY <2>2, <2>4, SeqDef
<1> HIDE DEF ms
<1>7. ToSet(made') = ToSet(made) \cup ReturnFaults(LastTrace)
  BY <1>1, <1>3, <1>5, <1>6, Making
<1>8. Collected'
  <2>1. Due = ReturnFaults(LastTrace)
    BY <1>1 DEF Due, ObjectFaults
  <2>2. Due' = {}
    BY <1>1 DEF Due
  <2>3. ToSet(made') \cup Due' = ToSet(made) \cup Due
    BY <1>7, <2>1, <2>2
  <2>4. UNION {FaultsOf(t) : t \in ToSet(traces)}' = UNION {FaultsOf(t) : t \in ToSet(traces)}
    BY <1>2 DEF FaultsOf, ObjectFaults, ReturnFaults
  <2> QED  BY <1>1, <2>3, <2>4 DEF Collected
<1>9. \/ UNCHANGED <<made, reports, duplicates>>
      \/ \E messages \in Seq(Said) : Make(messages)
  BY <1>3, <1>6
<1> QED  BY <1>1, <1>2, <1>4, <1>8, <1>9, EarlyKept

-----------------------------------------------------------------------------
(***************************************************************************)
(* The removal.                                                            *)
(***************************************************************************)
LEMMA Sizes ==
  ASSUME Typed
  PROVE  /\ Len(made) \in Nat /\ Len(outer) \in Nat /\ Reached \in Int /\ Made \subseteq Nat
         /\ ToSet(reports) \subseteq Made /\ ToSet(inner) \subseteq Made
         /\ \A s \in Made : duplicates[s] \in Seq(Made) /\ ToSet(duplicates[s]) \subseteq Made
<1>1. Len(made) \in Nat /\ Len(outer) \in Nat
  BY LenProperties DEF Typed
<1>2. \A s \in Made : duplicates[s] \in Seq(Made)
  BY DuplicateIs
<1>3. \A s \in Made : ToSet(duplicates[s]) \subseteq Made
  BY <1>2, SetOfSeq
<1>4. ToSet(reports) \subseteq Made /\ ToSet(inner) \subseteq Made
  BY SetOfSeq DEF Typed
<1> QED  BY <1>1, <1>2, <1>3, <1>4 DEF Reached, Made

\* The reports of a class are merged into the first of them.
LEMMA NotFollowed ==
  ASSUME Typed, Listed, Merged, NEW q \in Made, NEW r \in ToSet(reports),
         q < r, Same(r, q), q \in ToSet(reports) => ToSet(duplicates[q]) = Class(q)
  PROVE  q \notin ToSet(reports)
<1> SUFFICES ASSUME q \in ToSet(reports)  PROVE FALSE
  OBVIOUS
<1>1. r \in Made
  BY Sizes
<1>2. r \in Class(q)
  BY <1>1, Sizes DEF Class
<1>3. r \in ToSet(duplicates[q])
  BY <1>2
<1> QED  BY <1>1, <1>3 DEF Listed

\* What is not about the loops stays as it is.
LEMMA RemovalRest ==
  ASSUME Inv, UNCHANGED <<options, fun, traces, todo, made, files>>, pc # "objects",
         pc' \in {"removal", "flush"}, reports' \in Seq(Made),
         duplicates' \in Seq(Seq(Made)), Len(duplicates') = Len(made),
         outer' \in Seq(Made), inner' \in Seq(Made), fun # <<>>,
         pc' = "flush" => outer' = <<>> /\ inner' = <<>>
  PROVE  Typed' /\ Early' /\ Collected' /\ Flushed'
<1>1. Typed /\ Collected
  BY DEF Inv
<1>2. Made' = Made
  BY DEF Made
<1>3. Typed'
  BY <1>1, <1>2 DEF Typed
<1>4. Due = {} /\ Due' = {}
  BY DEF Due
<1>5. UNION {FaultsOf(t) : t \in ToSet(traces)}' = UNION {FaultsOf(t) : t \in ToSet(traces)}
  BY DEF FaultsOf, ObjectFaults, ReturnFaults
<1>6. Collected'
  BY <1>1, <1>4, <1>5 DEF Collected
<1> QED  BY <1>3, <1>6 DEF Early, Flushed

LEMMA ListsRest ==
  ASSUME Listed, Merged, UNCHANGED <<made, reports, duplicates>>
  PROVE  Listed' /\ Merged' /\ Made' = Made /\ \A r : Class(r)' = Class(r)
BY DEF Listed, Merged, Made, Same, Class

LEMMA StartRemovalKept ==
  ASSUME Inv, StartRemoval
  PROVE  Inv'
<1>1. /\ Typed /\ Listed /\ Merged /\ pc = "traces" /\ pc' = "removal"
      /\ outer' = reports /\ inner' = <<>>
      /\ UNCHANGED <<options, fun, traces, todo, made, reports, duplicates, report, notes,
                     emitted, files>>
  BY DEF Inv, StartRemoval
<1>2. AllListed
  BY <1>1, FreshIs DEF Inv, Early, Typed
<1>3. <<>> \in Seq(Made) /\ reports \in Seq(Made)
  BY <1>2, EmptySeq DEF AllListed
<1>4. Typed' /\ Early' /\ Collected' /\ Flushed'
  <2>1. fun # <<>> /\ duplicates \in Seq(Seq(Made)) /\ Len(duplicates) = Len(made)
    BY <1>1 DEF Typed
  <2> QED  BY <1>1, <1>3, <2>1, RemovalRest
<1>5. Listed' /\ Merged' /\ Made' = Made /\ \A r : Class(r)' = Class(r)
  BY <1>1, ListsRest
<1>6. Len(made) \in Nat /\ Len(outer') = Len(made) /\ Reached' = 0
  BY <1>1, <1>2, Sizes DEF Reached, AllListed
<1>7. OuterLoop'
  <2>1. \A i \in 1..Len(outer') : outer'[i] = Reached' + i
    BY <1>1, <1>2, <1>6 DEF AllListed, Made
  <2>2. \A r \in Made' : duplicates'[r] = <<>>
    BY <1>1, <1>2, <1>5 DEF AllListed
  <2>3. \A r \in ToSet(reports') : ~(r <= Reached')
    BY <1>1, <1>2, <1>6 DEF AllListed, Made
  <2> QED  BY <2>1, <2>2, <2>3 DEF OuterLoop
<1>8. InnerLoop' /\ Settled'
  BY <1>1 DEF InnerLoop, Settled
<1> QED  BY <1>4, <1>5, <1>7, <1>8 DEF Inv, Removing

LEMMA OuterTail ==
  ASSUME Typed, OuterLoop, outer # <<>>
  PROVE  /\ Head(outer) = Reached + 1 /\ Head(outer) \in Made
         /\ Tail(outer) \in Seq(Made) /\ Len(Tail(outer)) = Len(outer) - 1
         /\ \A i \in 1..Len(Tail(outer)) : Tail(outer)[i] = Reached + 1 + i
<1>1. outer \in Seq(Made) /\ Len(outer) \in Nat /\ Len(outer) # 0 /\ Reached \in Int
  BY Sizes, EmptySeq DEF Typed
<1>2. /\ Head(outer) = outer[1] /\ Tail(outer) \in Seq(Made) /\ Len(Tail(outer)) = Len(outer) - 1
      /\ \A i \in 1..Len(Tail(outer)) : Tail(outer)[i] = outer[i + 1]
  BY <1>1, HeadTailProperties
<1>3. outer[1] = Reached + 1 /\ outer[1] \in Made
  BY <1>1, ElementOfSeq DEF OuterLoop
<1>4. ASSUME NEW i \in 1..Len(Tail(outer))  PROVE outer[i + 1] = Reached + 1 + i
  <2>1. i + 1 \in 1..Len(outer)
    BY <1>1, <1>2
  <2>2. outer[i + 1] = Reached + (i + 1)
    BY <2>1 DEF OuterLoop
  <2> QED  BY <1>1, <2>2
<1> QED  BY <1>2, <1>3, <1>4

LEMMA NextReportKept ==
  ASSUME Inv, NextReport
  PROVE  Inv'
<1> DEFINE r == Head(outer)
<1>1. /\ Typed /\ Listed /\ Merged /\ OuterLoop /\ pc = "removal" /\ pc' = "removal"
      /\ inner = <<>> /\ outer # <<>> /\ outer' = Tail(outer)
      /\ UNCHANGED <<options, fun, traces, todo, made, reports, duplicates, notes, emitted, files>>
  BY DEF Inv, NextReport, Removing
<1>2. IF IsDuplicate(r) THEN UNCHANGED <<report, inner>> ELSE report' = r /\ inner' = reports
  BY DEF NextReport
<1>3. /\ r = Reached + 1 /\ r \in Made /\ outer' \in Seq(Made) /\ Len(outer') = Len(outer) - 1
      /\ \A i \in 1..Len(outer') : outer'[i] = Reached + 1 + i
  BY <1>1, OuterTail
<1> HIDE DEF r
<1>4. /\ Len(made) \in Nat /\ Len(outer) \in Nat /\ Reached \in Int /\ Made \subseteq Nat
      /\ ToSet(reports) \subseteq Made
  BY <1>1, Sizes
<1>5. Reached' = r
  BY <1>1, <1>3, <1>4 DEF Reached
<1>6. Listed' /\ Merged' /\ Made' = Made /\ \A x : Class(x)' = Class(x)
  BY <1>1, ListsRest
<1>7. inner' \in Seq(Made) /\ reports \in Seq(Made)
  BY <1>1, <1>2 DEF Typed
<1>8. Typed' /\ Early' /\ Collected' /\ Flushed'
  <2>1. fun # <<>> /\ duplicates \in Seq(Seq(Made)) /\ Len(duplicates) = Len(made)
    BY <1>1 DEF Typed
  <2> QED  BY <1>1, <1>3, <1>7, <2>1, RemovalRest
<1>9. IsDuplicate(r) <=> r \notin ToSet(reports)
  BY <1>1, <1>3, DuplicateIs DEF Listed
<1>10. OuterLoop'
  <2>1. \A i \in 1..Len(outer') : outer'[i] = Reached' + i
    BY <1>3, <1>5
  <2>2. \A x \in Made' : x > Reached' => duplicates'[x] = <<>>
    BY <1>1, <1>3, <1>4, <1>5, <1>6 DEF OuterLoop
  <2>3. ASSUME NEW x \in ToSet(reports'), x <= Reached', ~(inner' # <<>> /\ x = report')
        PROVE  ToSet(duplicates'[x]) = Class(x)'
    <3>1. x \in ToSet(reports) /\ x \in Nat
      BY <1>1, <1>4, <2>3
    <3>2. x # r
      <4>1. CASE x = r
        <5>1. report' = r /\ inner' = reports
          BY <1>2, <1>9, <3>1, <4>1
        <5>2. reports = <<>>
          BY <2>3, <4>1, <5>1
        <5> QED  BY <3>1, <5>2, SetOfEmpty
      <4> QED  BY <4>1
    <3>3. x <= Reached
      BY <1>3, <1>4, <1>5, <2>3, <3>1, <3>2
    <3> QED  BY <1>1, <1>6, <3>1, <3>3 DEF OuterLoop
  <2> QED  BY <2>1, <2>2, <2>3 DEF OuterLoop
<1>11. InnerLoop'
  <2> SUFFICES ASSUME inner' # <<>>
               PROVE  /\ report' = Reached' /\ report' \in ToSet(reports')
                      /\ Ordered(inner') /\ ToSet(inner') \subseteq ToSet(reports')
                      /\ Class(report)' = ToSet(duplicates'[report'])
                                            \cup (Class(report)' \cap ToSet(inner'))
    BY DEF InnerLoop
  <2>1. r \in ToSet(reports) /\ report' = r /\ inner' = reports
    BY <1>1, <1>2, <1>9
  <2>2. duplicates[r] = <<>>
    BY <1>1, <1>3, <1>4 DEF OuterLoop
  <2>3. ASSUME NEW s \in Class(r)  PROVE s \in ToSet(reports)
    <3>1. s \in Made /\ s > r /\ made[s] = made[r] /\ s \in Nat /\ r \in Nat
      BY <1>3, <1>4 DEF Class, Same
    <3>2. ASSUME NEW q \in Made, s \in ToSet(duplicates[q])  PROVE FALSE
      <4>1. q \in ToSet(reports) /\ made[s] = made[q] /\ q \in Nat
        BY <1>1, <1>4, <3>2 DEF Merged, Same
      <4>2. q <= Reached
        <5>1. duplicates[q] # <<>>
          BY <3>2, SetOfEmpty
        <5> QED  BY <1>1, <1>4, <4>1, <5>1 DEF OuterLoop
      <4>3. ToSet(duplicates[q]) = Class(q)
        BY <1>1, <4>1, <4>2 DEF OuterLoop
      <4>4. q < r /\ Same(r, q)
        BY <1>3, <1>4, <3>1, <4>1, <4>2 DEF Same
      <4> QED  BY <1>1, <2>1, <4>1, <4>3, <4>4, NotFollowed
    <3> QED  BY <1>1, <3>1, <3>2 DEF Listed
  <2>4. Class(r) = ToSet(duplicates[r]) \cup (Class(r) \cap ToSet(reports))
    BY <2>2, <2>3, SetOfEmpty
  <2>5. Ordered(reports)
    BY <1>1 DEF Listed
  <2>6. Class(report)' = Class(r)
    BY <1>1, <2>1 DEF Class, Made, Same
  <2> QED  BY <1>1, <1>5, <2>1, <2>4, <2>5, <2>6
<1>12. Settled'
  BY <1>1 DEF Settled
<1> QED  BY <1>1, <1>6, <1>8, <1>10, <1>11, <1>12 DEF Inv, Removing

\* A candidate that says the same is one of those that are still to come.
LEMMA CandidateLater ==
  ASSUME Typed, Listed, Merged, OuterLoop, InnerLoop, inner # <<>>,
         NEW c \in ToSet(inner), report # c, Same(c, report)
  PROVE  /\ c > report /\ c \in Class(report) /\ c \notin ToSet(duplicates[report])
         /\ duplicates[c] = <<>>
<1>1. /\ report = Reached /\ report \in ToSet(reports) /\ ToSet(inner) \subseteq ToSet(reports)
      /\ c \in ToSet(reports)
  BY DEF InnerLoop
<1>2. c \in Made /\ report \in Made /\ c \in Nat /\ report \in Nat
  BY <1>1, Sizes
<1>3. ~(c < report)
  <2>1. SUFFICES ASSUME c < report  PROVE FALSE
    OBVIOUS
  <2>2. ToSet(duplicates[c]) = Class(c)
    BY <1>1, <1>2, <2>1 DEF OuterLoop
  <2>3. Same(report, c)
    BY DEF Same
  <2> QED  BY <1>1, <1>2, <2>1, <2>2, <2>3, NotFollowed
<1>4. c > report
  BY <1>2, <1>3
<1>5. c \in Class(report)
  BY <1>2, <1>4 DEF Class
<1>6. c \notin ToSet(duplicates[report])
  BY <1>1, <1>2 DEF Listed
<1>7. duplicates[c] = <<>>
  BY <1>1, <1>2, <1>4 DEF OuterLoop
<1> QED  BY <1>4, <1>5, <1>6, <1>7

\* The candidate goes from the list to the duplicates.
LEMMA MergeKept ==
  ASSUME Typed, Listed, Merged, OuterLoop, InnerLoop, inner # <<>>,
         NEW c \in ToSet(inner), report # c, Same(c, report),
         duplicates' = [duplicates EXCEPT ![report] = Append(@, c)],
         reports' = Removed(c), made' = made
  PROVE  /\ Listed' /\ Merged' /\ reports' \in Seq(Made)
         /\ duplicates' \in Seq(Seq(Made)) /\ Len(duplicates') = Len(made)
         /\ ToSet(reports') = ToSet(reports) \ {c}
         /\ ToSet(duplicates'[report]) = ToSet(duplicates[report]) \cup {c}
         /\ \A s \in Made \ {report} : duplicates'[s] = duplicates[s]
<1>1. /\ report \in ToSet(reports) /\ c \in ToSet(reports)
  BY DEF InnerLoop
<1>2. /\ Len(made) \in Nat /\ Made \subseteq Nat /\ report \in Made /\ c \in Made
      /\ \A s \in Made : duplicates[s] \in Seq(Made)
      /\ reports \in Seq(Made) /\ DOMAIN duplicates = Made
  BY <1>1, Sizes, DuplicateIs DEF Typed
<1>3. c > report /\ c \notin ToSet(duplicates[report]) /\ duplicates[c] = <<>>
  BY CandidateLater
<1>4. /\ reports' \in Seq(Made) /\ Ordered(reports') /\ ToSet(reports') = ToSet(reports) \ {c}
  <2> DEFINE k == CHOOSE i \in DOMAIN reports : reports[i] = c
  <2>1. \E i \in DOMAIN reports : reports[i] = c
    BY <1>1 DEF ToSet
  <2>2. k \in DOMAIN reports /\ reports[k] = c
    BY <2>1
  <2>3. DOMAIN reports = 1..Len(reports)
    BY <1>2, LenProperties
  <2>4. reports' = RemoveAt(reports, k)
    BY DEF Removed
  <2> HIDE DEF k
  <2>5. Ordered(reports) /\ Made = 1..Len(made)
    BY DEF Listed, Made
  <2> QED  BY <1>2, <2>2, <2>3, <2>4, <2>5, OrderedRemove
<1>5. /\ Append(duplicates[report], c) \in Seq(Made)
      /\ ToSet(Append(duplicates[report], c)) = ToSet(duplicates[report]) \cup {c}
  BY <1>2, SetOfAppend
<1>6. IsInjective(Append(duplicates[report], c))
  BY <1>2, <1>3, InjectiveAppend DEF Merged
<1>7. /\ duplicates'[report] = Append(duplicates[report], c)
      /\ \A s \in Made \ {report} : duplicates'[s] = duplicates[s]
  BY <1>2
<1>8. duplicates' \in Seq(Seq(Made)) /\ Len(duplicates') = Len(made)
  <2>1. duplicates \in Seq(Seq(Made)) /\ Len(duplicates) = Len(made)
    BY DEF Typed
  <2>2. report \in 1..Len(duplicates)
    BY <1>2, <2>1 DEF Made
  <2> QED  BY <1>5, <2>1, <2>2, ExceptSeq
<1>9. Made' = Made /\ \A x, y : Same(x, y)' = Same(x, y)
  BY DEF Made, Same
<1>10. Listed'
  <2>1. ASSUME NEW r \in Made
        PROVE  r \in ToSet(reports') <=> ~\E s \in Made : r \in ToSet(duplicates'[s])
    <3>1. CASE r = c
      BY <1>2, <1>4, <1>5, <1>7, <3>1
    <3>2. CASE r # c
      <4>1. \A s \in Made : r \in ToSet(duplicates'[s]) <=> r \in ToSet(duplicates[s])
        BY <1>5, <1>7, <3>2
      <4> QED  BY <1>4, <3>2, <4>1 DEF Listed
    <3> QED  BY <3>1, <3>2
  <2> QED  BY <1>4, <1>9, <2>1 DEF Listed
<1>11. Merged'
  <2>1. ASSUME NEW s \in Made
        PROVE  /\ IsInjective(duplicates'[s])
               /\ \A d \in ToSet(duplicates'[s]) : d > s /\ Same(d, s) /\ s \in ToSet(reports')
    <3>1. CASE s = report
      <4>1. IsInjective(duplicates'[s])
        BY <1>6, <1>7, <3>1
      <4>2. s \in ToSet(reports')
        BY <1>1, <1>4, <3>1
      <4>3. \A d \in ToSet(duplicates'[s]) : d \in ToSet(duplicates[s]) \/ d = c
        BY <1>5, <1>7, <3>1
      <4>4. \A d \in ToSet(duplicates'[s]) : d > s /\ Same(d, s)
        BY <1>3, <3>1, <4>3 DEF Merged
      <4> QED  BY <4>1, <4>2, <4>4
    <3>2. CASE s = c
      BY <1>3, <1>7, <3>2, SetOfEmpty DEF IsInjective
    <3>3. CASE s # report /\ s # c
      BY <1>4, <1>7, <3>3 DEF Merged
    <3> QED  BY <3>1, <3>2, <3>3
  <2> QED  BY <1>9, <2>1 DEF Merged
<1> QED  BY <1>4, <1>5, <1>7, <1>8, <1>10, <1>11

LEMMA CompareCandidateKept ==
  ASSUME Inv, CompareCandidate
  PROVE  Inv'
<1> DEFINE c == Head(inner)
           same == report # c /\ Same(c, report)
<1>1. /\ Typed /\ Listed /\ Merged /\ OuterLoop /\ InnerLoop
      /\ pc = "removal" /\ pc' = "removal" /\ inner # <<>>
      /\ UNCHANGED <<options, fun, traces, todo, made, outer, report, notes, emitted, files>>
      /\ inner' = Tail(inner)
  BY DEF Inv, CompareCandidate, Removing, NextCandidate
<1>2. IF same THEN /\ duplicates' = [duplicates EXCEPT ![report] = Append(@, c)]
                   /\ reports' = Removed(c)
      ELSE UNCHANGED <<duplicates, reports>>
  BY DEF CompareCandidate
<1>3. Made' = Made /\ Reached' = Reached /\ (\A x : Class(x)' = Class(x))
      /\ (\A x, y : Same(x, y)' = Same(x, y))
  BY <1>1 DEF Made, Reached, Class, Same
<1>4. /\ report = Reached /\ report \in ToSet(reports) /\ ToSet(inner) \subseteq ToSet(reports)
      /\ Class(report) = ToSet(duplicates[report]) \cup (Class(report) \cap ToSet(inner))
  BY <1>1 DEF InnerLoop
<1>5. /\ Len(made) \in Nat /\ Made \subseteq Nat /\ ToSet(reports) \subseteq Made
      /\ Reached \in Int
  BY <1>1, Sizes
<1>6. /\ c \in ToSet(inner) /\ inner' \in Seq(Made) /\ Ordered(inner')
      /\ ToSet(inner') = ToSet(inner) \ {c}
  <2>1. inner \in Seq(1..Len(made)) /\ Ordered(inner)
    BY <1>1 DEF Typed, InnerLoop, Made
  <2> QED  BY <1>1, <1>5, <2>1, OrderedTail DEF Made
<1>7. same => c \in Class(report) /\ duplicates[c] = <<>> /\ c > report
  BY <1>1, <1>6, CandidateLater
<1>8. c \in Class(report) => same
  BY <1>5, <1>4 DEF Class
<1> HIDE DEF c
<1>9. /\ Listed' /\ Merged' /\ reports' \in Seq(Made)
      /\ duplicates' \in Seq(Seq(Made)) /\ Len(duplicates') = Len(made)
      /\ ToSet(reports') = ToSet(reports) \ (IF same THEN {c} ELSE {})
      /\ ToSet(duplicates'[report]) = ToSet(duplicates[report]) \cup (IF same THEN {c} ELSE {})
      /\ \A s \in Made \ {report} : duplicates'[s] = duplicates[s]
  <2>1. CASE same
    BY <1>1, <1>2, <1>6, <2>1, MergeKept
  <2>2. CASE ~same
    BY <1>1, <1>2, <2>2, ListsRest DEF Typed
  <2> QED  BY <2>1, <2>2
<1>10. Typed' /\ Early' /\ Collected' /\ Flushed'
  <2>1. fun # <<>> /\ outer' \in Seq(Made)
    BY <1>1 DEF Typed
  <2> QED  BY <1>1, <1>6, <1>9, <2>1, RemovalRest
<1>11. Class(report) = ToSet(duplicates'[report]) \cup (Class(report) \cap ToSet(inner'))
  BY <1>4, <1>6, <1>7, <1>8, <1>9
<1>12. report \in ToSet(reports')
  BY <1>4, <1>9
<1>13. OuterLoop'
  <2>1. \A i \in 1..Len(outer') : outer'[i] = Reached' + i
    BY <1>1, <1>3 DEF OuterLoop
  <2>2. ASSUME NEW r \in Made, r > Reached  PROVE duplicates'[r] = <<>>
    <3>1. r # report
      BY <1>4, <1>5, <2>2
    <3> QED  BY <1>1, <1>9, <2>2, <3>1 DEF OuterLoop
  <2>3. ASSUME NEW r \in ToSet(reports'), r <= Reached, ~(inner' # <<>> /\ r = report)
        PROVE  ToSet(duplicates'[r]) = Class(r)
    <3>1. CASE r = report
      BY <1>11, <2>3, <3>1, SetOfEmpty
    <3>2. CASE r # report
      BY <1>1, <1>5, <1>9, <2>3, <3>2 DEF OuterLoop
    <3> QED  BY <3>1, <3>2
  <2> QED  BY <1>1, <1>3, <2>1, <2>2, <2>3 DEF OuterLoop
<1>14. ToSet(inner') \subseteq ToSet(reports')
  BY <1>4, <1>6, <1>9
<1>15. Class(report)' = Class(report)
  BY <1>1 DEF Class, Made, Same
<1>16. InnerLoop'
  BY <1>1, <1>3, <1>4, <1>6, <1>11, <1>12, <1>14, <1>15 DEF InnerLoop
<1>17. Settled'
  BY <1>1 DEF Settled
<1> QED  BY <1>9, <1>10, <1>13, <1>16, <1>17 DEF Inv, Removing

LEMMA AddNotesKept ==
  ASSUME Inv, AddNotes
  PROVE  Inv'
<1>1. /\ Typed /\ Listed /\ Merged /\ OuterLoop /\ pc = "removal" /\ pc' = "flush"
      /\ inner = <<>> /\ outer = <<>>
      /\ notes' = [r \in ToSet(reports) |-> Len(duplicates[r])]
      /\ UNCHANGED <<options, fun, traces, todo, made, reports, duplicates, outer, report, inner,
                     emitted, files>>
  BY DEF Inv, AddNotes, Removing, loops
<1>2. Listed' /\ Merged' /\ Made' = Made /\ \A x : Class(x)' = Class(x)
  BY <1>1, ListsRest
<1>3. Typed' /\ Early' /\ Collected' /\ Flushed'
  <2>1. /\ fun # <<>> /\ duplicates \in Seq(Seq(Made)) /\ Len(duplicates) = Len(made)
        /\ reports \in Seq(Made) /\ outer \in Seq(Made) /\ inner \in Seq(Made)
    BY <1>1 DEF Typed
  <2> QED  BY <1>1, <2>1, RemovalRest
<1>4. Reached = Len(made) /\ ToSet(reports) \subseteq Made /\ Len(made) \in Nat
  <2>1. Len(outer) = 0
    BY <1>1, EmptySeq
  <2> QED  BY <1>1, <2>1, Sizes DEF Reached
<1>5. \A r \in ToSet(reports) : ToSet(duplicates[r]) = Class(r)
  BY <1>1, <1>4 DEF OuterLoop, Made
<1>6. Settled'
  BY <1>1, <1>2, <1>5 DEF Settled
<1> QED  BY <1>1, <1>2, <1>3, <1>6 DEF Inv, Removing

\* Every message is that of a report in the list, and of one only.
LEMMA Representative ==
  ASSUME Typed, Listed, Merged, Settled, pc = "flush"
  PROVE  /\ {made[r] : r \in ToSet(reports)} = ToSet(made)
         /\ \A r, s \in ToSet(reports) : Same(r, s) => r = s
<1>1. /\ DOMAIN made = Made /\ ToSet(reports) \subseteq Made /\ Made \subseteq Nat
  BY Sizes, DuplicateIs
<1>2. ToSet(made) = {made[r] : r \in Made}
  BY <1>1 DEF ToSet
<1>3. ASSUME NEW r \in Made  PROVE \E s \in ToSet(reports) : made[s] = made[r]
  <2>1. CASE r \in ToSet(reports)
    BY <2>1
  <2>2. CASE r \notin ToSet(reports)
    <3>1. PICK s \in Made : r \in ToSet(duplicates[s])
      BY <2>2 DEF Listed
    <3> QED  BY <3>1 DEF Merged, Same
  <2> QED  BY <2>1, <2>2
<1>4. {made[r] : r \in ToSet(reports)} = ToSet(made)
  BY <1>1, <1>2, <1>3, ZenonT(40)
<1>5. ASSUME NEW q \in ToSet(reports), NEW r \in ToSet(reports), q < r  PROVE ~Same(r, q)
  BY <1>1, <1>5, NotFollowed DEF Settled
<1>6. \A r, s \in ToSet(reports) : r \in Nat /\ s \in Nat /\ (Same(r, s) <=> Same(s, r))
  BY <1>1 DEF Same
<1>7. ASSUME NEW r \in ToSet(reports), NEW s \in ToSet(reports), Same(r, s)  PROVE r = s
  <2>1. ~(r < s) /\ ~(s < r)
    BY <1>5, <1>6, <1>7
  <2> QED  BY <1>6, <2>1
<1> QED  BY <1>4, <1>7

LEMMA FlushKept ==
  ASSUME Inv, Flush
  PROVE  Inv'
<1>1. /\ Typed /\ Listed /\ Merged /\ Settled /\ Collected /\ pc = "flush" /\ pc' = "pass"
      /\ emitted' = [i \in DOMAIN reports |-> made[reports[i]]]
      /\ files' = IF made = <<>> THEN files
                  ELSE [files EXCEPT ![Last(fun)] = {made[r] : r \in ToSet(reports)}]
      /\ UNCHANGED <<options, fun, traces, todo, made, reports, duplicates, outer, report, inner,
                     notes>>
  BY DEF Inv, Flush, loops
<1>2. Listed' /\ Merged' /\ Made' = Made
  BY <1>1, ListsRest
<1>3. /\ {made[r] : r \in ToSet(reports)} = ToSet(made)
      /\ \A r, s \in ToSet(reports) : Same(r, s) => r = s
  BY <1>1, Representative
<1>4. Last(fun) \in Names
  <2>1. fun \in Seq(Names) /\ fun # <<>>
    BY <1>1 DEF Typed
  <2>2. Len(fun) \in 1..Len(fun)
    BY <2>1, EmptySeq, LenProperties
  <2> QED  BY <2>1, <2>2, ElementOfSeq DEF Last
<1>5. ToSet(made) \subseteq Said
  BY <1>1, SetOfSeq DEF Typed
<1>6. files \in [Names -> SUBSET Said]
  BY <1>1 DEF Typed
<1>7. files' \in [Names -> SUBSET Said] /\ (made # <<>> => files'[Last(fun)] = ToSet(made))
  BY <1>1, <1>3, <1>4, <1>5, <1>6
<1>8. Typed'
  BY <1>1, <1>2, <1>7 DEF Typed
<1>9. ToSet(emitted') = ToSet(made)
  <2>1. ToSet(emitted') = {made[reports[i]] : i \in DOMAIN reports}
    BY <1>1 DEF ToSet
  <2>2. {made[reports[i]] : i \in DOMAIN reports} = {made[r] : r \in ToSet(reports)}
    BY DEF ToSet
  <2> QED  BY <1>3, <2>1, <2>2
<1>10. IsInjective(emitted')
  <2>1. IsInjective(reports)
    <3>1. reports \in Seq(1..Len(made)) /\ Len(made) \in Nat
      BY <1>1, Sizes DEF Typed, Made
    <3> QED  BY <1>1, <3>1, OrderedInjective DEF Listed
  <2>2. \A i \in DOMAIN reports : reports[i] \in ToSet(reports)
    BY DEF ToSet
  <2>3. \A i, j \in DOMAIN reports : made[reports[i]] = made[reports[j]] => i = j
    BY <1>3, <2>1, <2>2 DEF Same, IsInjective
  <2> QED  BY <1>1, <2>3 DEF IsInjective
<1>11. Collected'
  <2>1. Due = {} /\ Due' = {}
    BY <1>1 DEF Due
  <2>2. UNION {FaultsOf(t) : t \in ToSet(traces)}' = UNION {FaultsOf(t) : t \in ToSet(traces)}
    BY <1>1 DEF FaultsOf, ObjectFaults, ReturnFaults
  <2> QED  BY <1>1, <2>1, <2>2 DEF Collected
<1>12. Flushed'
  BY <1>1, <1>7, <1>9, <1>10 DEF Flushed
<1>13. Early' /\ Removing' /\ Settled'
  BY <1>1 DEF Early, Removing, Settled
<1> QED  BY <1>2, <1>8, <1>11, <1>12, <1>13 DEF Inv

-----------------------------------------------------------------------------
(***************************************************************************)
(* The theorems.                                                           *)
(***************************************************************************)
LEMMA InitInv == Init => Inv
<1> SUFFICES ASSUME Init  PROVE Inv
  OBVIOUS
<1>1. /\ options \in Options /\ pc = "pass" /\ fun = <<>> /\ traces = <<>> /\ todo = {}
      /\ made = <<>> /\ reports = <<>> /\ duplicates = <<>> /\ outer = <<>> /\ inner = <<>>
      /\ files = [n \in Names |-> {}]
  BY DEF Init
<1>2. \A S : <<>> \in Seq(S) /\ Len(<<>>) = 0
  BY EmptySeq
<1>3. Typed
  BY <1>1, <1>2 DEF Typed
<1>4. Made = {} /\ ToSet(made) = {} /\ ToSet(traces) = {} /\ ToSet(reports) = {}
  BY <1>1, <1>2, SetOfEmpty DEF Made
<1>5. Listed /\ Merged
  BY <1>1, <1>4 DEF Listed, Merged, Ordered
<1>6. Collected
  BY <1>1, <1>4 DEF Collected, Due
<1> QED  BY <1>1, <1>3, <1>5, <1>6 DEF Inv, Early, Removing, Settled, Flushed

LEMMA StutterKept ==
  ASSUME Inv, UNCHANGED vars
  PROVE  Inv'
<1>1. UNCHANGED <<options, pc, fun, traces, todo, made, reports, duplicates, outer, report, inner,
                  notes, emitted, files>>
  BY DEF vars, loops
<1>2. Typed' /\ Listed' /\ Merged' /\ Early'
  BY <1>1 DEF Inv, Typed, Listed, Merged, Early, Made, Same, Fresh, LastTrace
<1>3. Made' = Made /\ Reached' = Reached
  BY <1>1 DEF Made, Reached
<1>4. \A r : Class(r)' = Class(r)
  BY <1>1 DEF Class, Made, Same
<1>5. OuterLoop => OuterLoop'
  BY <1>1, <1>3, <1>4 DEF OuterLoop
<1>6. InnerLoop => InnerLoop'
  BY <1>1, <1>3, <1>4 DEF InnerLoop
<1>7. Settled'
  BY <1>1, <1>4 DEF Inv, Settled
<1>8. Removing'
  BY <1>1, <1>5, <1>6 DEF Inv, Removing
<1>9. Due' = Due /\ \A e : FaultsOf(e)' = FaultsOf(e)
  BY <1>1 DEF Due, FaultsOf, ObjectFaults, ReturnFaults, LastTrace
<1>10. Collected'
  BY <1>1, <1>9 DEF Inv, Collected
<1>11. Flushed'
  BY <1>1 DEF Inv, Flushed
<1> QED  BY <1>2, <1>7, <1>8, <1>10, <1>11 DEF Inv

LEMMA NextInv == Inv /\ [Next]_vars => Inv'
<1> SUFFICES ASSUME Inv, [Next]_vars  PROVE Inv'
  OBVIOUS
<1>1. CASE Execute
  BY <1>1, ExecuteKept
<1>2. CASE TakeTrace
  BY <1>2, TakeTraceKept
<1>3. CASE CheckObject
  BY <1>3, CheckObjectKept
<1>4. CASE CheckReturn
  BY <1>4, CheckReturnKept
<1>5. CASE StartRemoval
  BY <1>5, StartRemovalKept
<1>6. CASE NextReport
  BY <1>6, NextReportKept
<1>7. CASE CompareCandidate
  BY <1>7, CompareCandidateKept
<1>8. CASE AddNotes
  BY <1>8, AddNotesKept
<1>9. CASE Flush
  BY <1>9, FlushKept
<1>10. CASE Finished \/ UNCHANGED vars
  BY <1>10, StutterKept DEF Finished
<1> QED  BY <1>1, <1>2, <1>3, <1>4, <1>5, <1>6, <1>7, <1>8, <1>9, <1>10 DEF Next

LEMMA Invariant == Spec => []Inv
BY InitInv, NextInv, PTL DEF Spec

\* At every moment each report that was made is either in the list of the
\* reporter or a duplicate of one that is, once.
THEOREM ReportsTyped == Spec => []TypeOK
<1>1. Inv => TypeOK
  <2> SUFFICES ASSUME Inv  PROVE TypeOK
    OBVIOUS
  <2>1. Typed /\ Listed
    BY DEF Inv
  <2>2. /\ \A r : IsDuplicate(r) <=> \E s \in Made : r \in ToSet(duplicates[s])
        /\ DOMAIN made = Made /\ Len(made) \in Nat /\ ToSet(reports) \subseteq Made
        /\ \A r : Contains(reports, r) <=> r \in ToSet(reports)
    BY <2>1, DuplicateIs
  <2>3. IsInjective(reports)
    <3>1. reports \in Seq(1..Len(made))
      BY <2>1 DEF Typed, Made
    <3> QED  BY <2>1, <2>2, <3>1, OrderedInjective DEF Listed
  <2>4. ToSet(traces) \subseteq Ends /\ ToSet(outer) \subseteq Made /\ ToSet(inner) \subseteq Made
    BY <2>1, SetOfSeq DEF Typed
  <2>5. \A r \in DOMAIN made : Contains(reports, r) # IsDuplicate(r)
    BY <2>1, <2>2 DEF Listed
  <2> QED  BY <2>1, <2>2, <2>3, <2>4, <2>5 DEF TypeOK, Typed
<1> QED  BY <1>1, Invariant, PTL

\* After remove_duplicates the list has one report of each class, the first, and
\* all the others of the class are its duplicates and counted in its note.
THEOREM OneReportOfEach == Spec => []OneOfEach
<1>1. Inv => OneOfEach
  <2> SUFFICES ASSUME Inv, pc = "flush"  PROVE
        /\ \A r, s \in ToSet(reports) : Same(r, s) => r = s
        /\ \A r \in ToSet(reports) :
               /\ ToSet(duplicates[r]) = {s \in DOMAIN made : s > r /\ Same(r, s)}
               /\ notes[r] = Len(duplicates[r]) /\ IsInjective(duplicates[r])
        /\ \A r \in DOMAIN made : IsDuplicate(r) => duplicates[r] = <<>>
    BY DEF OneOfEach
  <2>1. Typed /\ Listed /\ Merged /\ Settled
    BY DEF Inv
  <2>2. /\ \A r : IsDuplicate(r) <=> \E s \in Made : r \in ToSet(duplicates[s])
        /\ DOMAIN made = Made /\ ToSet(reports) \subseteq Made
        /\ \A s \in Made : duplicates[s] \in Seq(Made)
    BY <2>1, DuplicateIs
  <2>3. \A r \in Made : Class(r) = {s \in DOMAIN made : s > r /\ Same(r, s)}
    BY <2>2 DEF Class, Same
  <2>4. \A r \in ToSet(reports) : ToSet(duplicates[r]) = Class(r) /\ notes[r] = Len(duplicates[r])
    BY <2>1 DEF Settled
  <2>5. \A r \in Made : IsInjective(duplicates[r])
    BY <2>1 DEF Merged
  <2>6. ASSUME NEW r \in Made, IsDuplicate(r)  PROVE duplicates[r] = <<>>
    <3>1. ToSet(duplicates[r]) = {}
      BY <2>1, <2>2, <2>6 DEF Listed, Merged
    <3>2. duplicates[r] \in Seq(Made)
      BY <2>2
    <3>3. Len(duplicates[r]) \in Nat /\ \A i \in 1..Len(duplicates[r]) : FALSE
      BY <3>1, <3>2, SetOfSeq, SMTT(30)
    <3>4. Len(duplicates[r]) = 0
      BY <3>3
    <3> QED  BY <3>2, <3>4, EmptySeq
  <2> QED  BY <2>1, <2>2, <2>3, <2>4, <2>5, <2>6, Representative
<1> QED  BY <1>1, Invariant, PTL

\* When a function is done GCC has been given every warning that its traces call
\* for, none twice and no other, and its files show the same.
THEOREM EachFaultSaidOnce == Spec => []SaidOnce
<1>1. Inv => SaidOnce
  <2> SUFFICES ASSUME Inv, pc = "pass", fun # <<>>
               PROVE  /\ ToSet(emitted) = Faults /\ IsInjective(emitted)
                      /\ Faults # {} => files[Last(fun)] = Faults
    BY DEF SaidOnce
  <2>1. ToSet(made) = Faults
    BY FaultsByTrace DEF Inv, Collected, Due
  <2>2. made = <<>> => ToSet(made) = {}
    BY SetOfEmpty
  <2> QED  BY <2>1, <2>2 DEF Inv, Flushed
<1> QED  BY <1>1, Invariant, PTL
=============================================================================
