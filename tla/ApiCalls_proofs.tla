----------------------------- MODULE ApiCalls_proofs -----------------------------
(***************************************************************************)
(* The handlers of the C API keep its conventions, for any number of       *)
(* objects, blocks of memory, arguments of a format and calls on a path.   *)
(*                                                                         *)
(* First, for each outcome that the handlers are made of, that the step    *)
(* keeps the types and is one of the contract's; then the handlers.        *)
(***************************************************************************)
EXTENDS ApiCalls, FiniteSetTheorems, TLAPS

\* What every step of a typed state is to be shown to do.
Kept == TypeOK' /\ Contract!Next

\* What a call may answer.
Result == Objects \cup Blocks \cup Answers \cup {NULL}

\* The results by which a function reports failure.
Signal(fn) == IF fn \in Contract!Parsers THEN {"0"} ELSE {NULL, "-1"}

-----------------------------------------------------------------------------
\* A call after which the path goes on changes of these only the answer.
LEMMA Continuing ==
  ASSUME TypeOK, NEW fn, NEW v \in Result, Called(fn, v), pc' = pc
  PROVE  /\ UNCHANGED <<attrs, complaints, pc>>
         /\ pc = "run" /\ answer'.fn = fn /\ answer'.value = v
         /\ calls' \in Nat /\ answer'.value \in Result
BY DEF TypeOK, Called, CanCall

\* The part of the type invariant that is about objects.
RefsOK ==
    /\ known \in [Objects -> Types \cup {"absent"}] /\ tracked \subseteq Seen
    /\ rel \in [Objects -> Int] /\ ext \in [Objects -> Nat]
    /\ \A o \in Objects \ Seen : rel[o] = 0 /\ ext[o] = 0

LEMMA StillTyped ==
  ASSUME TypeOK, NEW fn, NEW v \in Result, Called(fn, v), pc' = pc,
         RefsOK', exception' \in BOOLEAN, has_gil' \in BOOLEAN,
         memory' \in [Blocks -> {"absent", "allocated", "deallocated"}]
  PROVE  TypeOK'
BY Continuing DEF TypeOK, RefsOK, Result

\* A call with a result that is not a failure: objects arrive or are passed on.
LEMMA Succeeding ==
  ASSUME TypeOK, NEW fn, NEW v \in Result, Called(fn, v), pc' = pc, v \notin Signal(fn),
         exception' = exception \/ (fn = "marked_function" /\ exception'),
         \A o \in Objects : Contract!Arrives(o) \/ Contract!Passes(o),
         v \in Objects => Contract!Arrives(v)
  PROVE  Contract!Next
<1>1. answer'.fn = fn /\ answer'.value = v /\ pc = "run"
      /\ UNCHANGED <<attrs, complaints, pc>>
  BY Continuing
<1>2. Contract!Call
  BY <1>1 DEF Contract!Call
<1>3. answer'.value \notin Contract!Signals
  BY <1>1 DEF Contract!Signals, Contract!fn, Signal
<1>4. Contract!Succeeds
  BY <1>1, <1>2, <1>3 DEF Contract!Succeeds, Contract!fn
<1> QED  BY <1>4 DEF Contract!Next

\* A call that fails: the error indicator is set, and nothing moves, unless the
\* function releases what it is given in any case.
LEMMA Failing ==
  ASSUME TypeOK, NEW fn, NEW v \in Result, Called(fn, v), pc' = pc,
         v \in Signal(fn) \cup {"void"}, exception' = TRUE,
         IF fn \in Contract!Releasing THEN \A o \in Objects : Contract!Passes(o)
         ELSE UNCHANGED <<rel, ext>>
  PROVE  Contract!Next
<1>1. answer'.fn = fn /\ answer'.value = v /\ pc = "run"
      /\ UNCHANGED <<attrs, complaints, pc>>
  BY Continuing
<1>2. Contract!Call
  BY <1>1 DEF Contract!Call
<1>3. answer'.value \in Contract!Signals \cup {"void"}
  BY <1>1 DEF Contract!Signals, Contract!fn, Signal
<1>4. Contract!Fails
  BY <1>1, <1>2, <1>3 DEF Contract!Fails, Contract!fn
<1> QED  BY <1>4 DEF Contract!Next

-----------------------------------------------------------------------------
(***************************************************************************)
(* The outcomes.                                                           *)
(***************************************************************************)
\* A path that is over.
LEMMA EndsKept ==
  ASSUME TypeOK, NEW fn, NEW how, Ends(fn, how),
         how \in {"error", "noreturn", "AttributeError", "NameError", "AssertionError"}
  PROVE  Kept
<1>1. TypeOK'
  <2>1. answer'.value = "void"
    BY DEF Ends, Called, CanCall
  <2>2. calls' = calls + 1
    BY DEF Ends, Called, CanCall
  <2>3. UNCHANGED <<attrs, known, tracked, rel, ext, exception, has_gil, memory>>
    BY DEF Ends, Called, CanCall, refs
  <2>4. calls \in Nat
    BY DEF TypeOK
  <2>5. calls' \in Nat
    BY <2>2, <2>4
  <2>6. answer'.value \in Answers
    BY <2>1 DEF Answers
  <2>7. pc' \in {"error", "noreturn", "AttributeError", "NameError", "AssertionError"}
    BY DEF Ends
  <2> QED  BY <2>3, <2>5, <2>6, <2>7 DEF TypeOK, Seen
<1>2. Contract!Stops
  BY DEF Ends, Called, CanCall, refs, Contract!Stops
<1> QED  BY <1>1, <1>2 DEF Kept, Contract!Next

LEMMA CrashesKept ==
  ASSUME TypeOK, NEW fn, NEW args, Crashes(fn, args)
  PROVE  Kept
BY EndsKept DEF Crashes

LEMMA NoLhsKept ==
  ASSUME TypeOK, NEW fn, NoLhs(fn)
  PROVE  Kept
BY EndsKept DEF NoLhs

\* Nothing that the types are about changes, but for the error indicator.
LEMMA QuietTypes ==
  ASSUME TypeOK, NEW fn, NEW v \in Result, Continues(fn, v), UNCHANGED refs,
         exception' \in BOOLEAN
  PROVE  TypeOK'
<1>1. RefsOK'
  BY DEF TypeOK, RefsOK, refs, Seen
<1> QED  BY <1>1, StillTyped DEF Continues, TypeOK

\* Objects that are left alone are passed on, trivially.
LEMMA AllPass ==
  ASSUME TypeOK, rel' = rel, ext' = ext, NEW o \in Objects
  PROVE  Contract!Passes(o)
<1>1. rel \in [Objects -> Int] /\ ext \in [Objects -> Nat]
  BY DEF TypeOK
<1> QED  BY <1>1 DEF Contract!Passes

LEMMA GivesKept ==
  ASSUME TypeOK, NEW fn, NEW v \in (Answers \cup Blocks \cup {NULL}) \ Signal(fn), Gives(fn, v)
  PROVE  Kept
<1>1. v \in Result /\ v \notin Objects
  BY ConstantsAssumption DEF Result
<1>2. Continues(fn, v) /\ UNCHANGED refs /\ exception' = exception
  BY DEF Gives
<1>3. TypeOK'
  BY <1>1, <1>2, QuietTypes DEF TypeOK
<1>4. rel' = rel /\ ext' = ext
  BY <1>2 DEF refs
<1>5. Contract!Next
  BY <1>1, <1>2, <1>4, AllPass, Succeeding DEF Continues
<1> QED  BY <1>3, <1>5 DEF Kept

LEMMA FailsKept ==
  ASSUME TypeOK, NEW fn, NEW v \in Signal(fn) \cup {"void"}, Fails(fn, v)
  PROVE  Kept
<1>1. v \in Result
  BY DEF Result, Signal, Answers
<1>2. TypeOK'
  BY <1>1, QuietTypes DEF Fails
<1>3. rel' = rel /\ ext' = ext /\ exception' = TRUE /\ Called(fn, v) /\ pc' = pc
  BY DEF Fails, Continues, refs
<1>4. \A o \in Objects : Contract!Passes(o)
  BY <1>3, AllPass
<1>5. Contract!Next
  BY <1>1, <1>3, <1>4, Failing
<1> QED  BY <1>2, <1>5 DEF Kept

LEMMA NullErrorKept ==
  ASSUME TypeOK, NEW fn, NEW v, NEW r \in Signal(fn),
         NullError(fn, v, r) \/ BadInternalCall(fn, v, r)
  PROVE  Kept
BY FailsKept DEF NullError, BadInternalCall

\* A failure without an exception.
LEMMA SilentKept ==
  ASSUME TypeOK, NEW fn \in Contract!Silent, NEW v \in Signal(fn), Gives(fn, v)
  PROVE  Kept
<1>1. v \in Result
  BY DEF Result, Signal, Answers
<1>2. Continues(fn, v) /\ UNCHANGED refs /\ exception' = exception
  BY DEF Gives
<1>3. TypeOK'
  BY <1>1, <1>2, QuietTypes DEF TypeOK
<1>4. answer'.fn = fn /\ answer'.value = v /\ pc = "run"
      /\ UNCHANGED <<attrs, complaints, pc>>
  BY <1>1, <1>2, Continuing DEF Continues
<1>5. Contract!FailsSilently
  BY <1>2, <1>4 DEF Contract!FailsSilently, Contract!Call, Contract!Signals, Contract!fn,
     Signal, refs
<1> QED  BY <1>3, <1>5 DEF Kept, Contract!Next

\* No object is a result that reports failure.
LEMMA ObjectIsResult ==
  ASSUME NEW o \in Objects, NEW fn
  PROVE  o \in Result /\ o \notin Signal(fn)
BY ConstantsAssumption DEF Result, Signal, Answers

\* Numbers of references to objects that the function knows.
Amount(f) == f \in [Objects -> Nat] /\ \A o \in Objects \ Seen : f[o] = 0

\* References that move, without a new object.
LEMMA Moving ==
  ASSUME TypeOK, NEW kept, NEW lost, Amount(kept), Amount(lost), Keeps(kept, lost)
  PROVE  /\ RefsOK'
         /\ \A o \in Objects : (answer'.fn \in Contract!Releasing \/ lost[o] <= kept[o])
                                 => Contract!Passes(o)
<1>1. /\ rel \in [Objects -> Int] /\ ext \in [Objects -> Nat]
      /\ kept \in [Objects -> Nat] /\ lost \in [Objects -> Nat]
  BY DEF TypeOK, Amount
<1>2. /\ ext' = [o \in Objects |-> ext[o] + kept[o]]
      /\ rel' = [o \in Objects |-> rel[o] - lost[o]]
      /\ known' = known /\ tracked' = tracked /\ Seen' = Seen
  BY DEF Keeps, Seen
<1>3. \A o \in Objects \ Seen : rel[o] = 0 /\ ext[o] = 0 /\ kept[o] = 0 /\ lost[o] = 0
  BY DEF TypeOK, Amount
<1>4. rel' \in [Objects -> Int] /\ ext' \in [Objects -> Nat]
  BY <1>1, <1>2
<1>5. \A o \in Objects \ Seen : rel'[o] = 0 /\ ext'[o] = 0
  BY <1>1, <1>2, <1>3
<1>6. RefsOK'
  BY <1>2, <1>4, <1>5 DEF TypeOK, RefsOK
<1>7. ASSUME NEW o \in Objects, answer'.fn \in Contract!Releasing \/ lost[o] <= kept[o]
      PROVE  Contract!Passes(o)
  <2>1. rel'[o] <= rel[o] /\ ext'[o] >= ext[o]
    BY <1>1, <1>2
  <2>2. lost[o] <= kept[o] => rel'[o] + ext'[o] >= rel[o] + ext[o]
    BY <1>1, <1>2
  <2> QED  BY <1>7, <2>1, <2>2 DEF Contract!Passes, Contract!fn
<1> QED  BY <1>6, <1>7

\* The call succeeds and gives up references, or keeps some.
LEMMA KeepsKept ==
  ASSUME TypeOK, NEW fn, NEW v \in (Answers \cup {NULL}) \ Signal(fn), Continues(fn, v),
         exception' \in BOOLEAN,
         exception' = exception \/ (fn = "marked_function" /\ exception'),
         NEW kept, NEW lost, Amount(kept), Amount(lost), Keeps(kept, lost),
         fn \in Contract!Releasing \/ \A o \in Objects : lost[o] <= kept[o]
  PROVE  Kept
<1>1. v \in Result /\ v \notin Objects
  BY ConstantsAssumption DEF Result
<1>2. Called(fn, v) /\ UNCHANGED <<has_gil, memory, pc>>
  BY DEF Continues
<1>3. answer'.fn = fn
  BY <1>1, <1>2, Continuing
<1>4. RefsOK' /\ \A o \in Objects : Contract!Passes(o)
  BY <1>3, Moving
<1>5. TypeOK'
  BY <1>1, <1>2, <1>4, StillTyped DEF TypeOK
<1>6. Contract!Next
  BY <1>1, <1>2, <1>4, Succeeding
<1> QED  BY <1>5, <1>6 DEF Kept

\* The call fails, and the references are given up nevertheless.
LEMMA ReleasesKept ==
  ASSUME TypeOK, NEW fn \in Contract!Releasing, NEW v \in Signal(fn) \cup {"void"},
         Continues(fn, v),
         exception' = TRUE, NEW kept, NEW lost, Amount(kept), Amount(lost), Keeps(kept, lost)
  PROVE  Kept
<1>1. v \in Result
  BY DEF Result, Signal, Answers
<1>2. Called(fn, v) /\ UNCHANGED <<has_gil, memory, pc>>
  BY DEF Continues
<1>3. answer'.fn = fn
  BY <1>1, <1>2, Continuing
<1>4. RefsOK' /\ \A o \in Objects : Contract!Passes(o)
  BY <1>3, Moving
<1>5. TypeOK'
  BY <1>1, <1>2, <1>4, StillTyped DEF TypeOK
<1>6. Contract!Next
  BY <1>1, <1>2, <1>4, Failing
<1> QED  BY <1>5, <1>6 DEF Kept

\* An object that the function did not know comes with a reference of its own or
\* a borrowed one; of the others references may move.
Comes(o, r, kept, lost) ==
    /\ rel' = [x \in Objects |-> IF x = o THEN r ELSE rel[x] - lost[x]]
    /\ ext' = [x \in Objects |-> IF x = o THEN 1 - r ELSE ext[x] + kept[x]]

LEMMA NewObject ==
  ASSUME TypeOK, NEW o \in Objects \ Seen, NEW type \in Types, NEW r \in {0, 1},
         NEW kept, NEW lost, Amount(kept), Amount(lost), Comes(o, r, kept, lost),
         known' = [known EXCEPT ![o] = type],
         tracked' \in {tracked, tracked \cup {o}},
         NEW fn, NEW v \in {o, "1", "void"}, v \notin Signal(fn), Continues(fn, v),
         exception' \in BOOLEAN,
         exception' = exception \/ (fn = "marked_function" /\ exception'),
         fn \in Contract!Releasing \/ \A x \in Objects : lost[x] <= kept[x]
  PROVE  Kept
<1>1. /\ rel \in [Objects -> Int] /\ ext \in [Objects -> Nat]
      /\ kept \in [Objects -> Nat] /\ lost \in [Objects -> Nat]
      /\ known \in [Objects -> Types \cup {"absent"}]
  BY DEF TypeOK, Amount
<1>2. \A x \in Objects \ Seen : rel[x] = 0 /\ ext[x] = 0 /\ kept[x] = 0 /\ lost[x] = 0
  BY DEF TypeOK, Amount
<1>3. Seen' = Seen \cup {o}
  BY <1>1 DEF Seen, Types
<1>4. rel' \in [Objects -> Int] /\ ext' \in [Objects -> Nat]
  BY <1>1 DEF Comes
<1>5. \A x \in Objects \ Seen' : rel'[x] = 0 /\ ext'[x] = 0
  BY <1>1, <1>2, <1>3 DEF Comes
<1>6. known' \in [Objects -> Types \cup {"absent"}]
  BY <1>1
<1>7. tracked' \subseteq Seen'
  BY <1>3 DEF TypeOK
<1>8. RefsOK'
  BY <1>4, <1>5, <1>6, <1>7 DEF RefsOK
<1>9. Contract!Arrives(o)
  BY <1>1, <1>2 DEF Comes, Contract!Arrives
<1>10. v \in Result /\ Called(fn, v) /\ UNCHANGED <<has_gil, memory, pc>>
  BY DEF Result, Answers, Continues
<1>11. answer'.fn = fn
  BY <1>10, Continuing
<1>12. ASSUME NEW x \in Objects \ {o}  PROVE Contract!Passes(x)
  <2>1. rel'[x] = rel[x] - lost[x] /\ ext'[x] = ext[x] + kept[x]
    BY DEF Comes
  <2>2. rel'[x] <= rel[x] /\ ext'[x] >= ext[x]
    BY <1>1, <2>1
  <2>3. lost[x] <= kept[x] => rel'[x] + ext'[x] >= rel[x] + ext[x]
    BY <1>1, <2>1
  <2> QED  BY <1>11, <2>2, <2>3 DEF Contract!Passes, Contract!fn
<1>13. v \in Objects => v = o
  BY ConstantsAssumption DEF Answers
<1>14. TypeOK'
  BY <1>8, <1>10, StillTyped DEF TypeOK
<1>15. Contract!Next
  BY <1>9, <1>10, <1>12, <1>13, Succeeding
<1> QED  BY <1>14, <1>15 DEF Kept

Nothing == [o \in Objects |-> 0]

LEMMA NothingIsAmount == Amount(Nothing)
BY DEF Amount, Nothing

LEMMA AddsComes ==
  ASSUME TypeOK, NEW o \in Objects \ Seen, NEW type, NEW r \in {0, 1}, NEW e, e = 1 - r,
         Adds(o, type, r, e)
  PROVE  Comes(o, r, Nothing, Nothing)
<1>1. rel \in [Objects -> Int] /\ ext \in [Objects -> Nat]
  BY DEF TypeOK
<1>2. \A x \in Objects : rel[x] - Nothing[x] = rel[x] /\ ext[x] + Nothing[x] = ext[x]
  BY <1>1 DEF Nothing
<1>3. rel' = [x \in Objects |-> IF x = o THEN r ELSE rel[x]]
  BY <1>1 DEF Adds
<1>4. ext' = [x \in Objects |-> IF x = o THEN 1 - r ELSE ext[x]]
  BY <1>1 DEF Adds
<1> QED  BY <1>2, <1>3, <1>4 DEF Comes

LEMMA NewRefKept ==
  ASSUME TypeOK, NEW fn, NEW type \in Types, NewRef(fn, type)
  PROVE  Kept
<1>1. PICK o \in Objects \ Seen :
          Continues(fn, o) /\ Adds(o, type, 1, 0) /\ UNCHANGED exception
  BY DEF NewRef
<1>2. o \notin Signal(fn)
  BY ObjectIsResult
<1>3. Comes(o, 1, Nothing, Nothing)
  BY <1>1, AddsComes
<1>4. known' = [known EXCEPT ![o] = type] /\ tracked' = tracked \cup {o}
  BY <1>1 DEF Adds
<1>5. exception' = exception /\ exception' \in BOOLEAN
  BY <1>1 DEF TypeOK
<1>6. \A x \in Objects : Nothing[x] <= Nothing[x]
  BY DEF Nothing
<1> QED  BY <1>1, <1>2, <1>3, <1>4, <1>5, <1>6, NothingIsAmount, NewObject

LEMMA BorrowedRefKept ==
  ASSUME TypeOK, NEW fn, BorrowedRef(fn)
  PROVE  Kept
<1>1. PICK o \in Objects \ Seen :
          Continues(fn, o) /\ Adds(o, "other", 0, 1) /\ UNCHANGED exception
  BY DEF BorrowedRef
<1>2. o \notin Signal(fn) /\ "other" \in Types
  BY ObjectIsResult DEF Types
<1>3. Comes(o, 0, Nothing, Nothing)
  BY <1>1, AddsComes
<1>4. known' = [known EXCEPT ![o] = "other"] /\ tracked' = tracked \cup {o}
  BY <1>1 DEF Adds
<1>5. exception' = exception /\ exception' \in BOOLEAN
  BY <1>1 DEF TypeOK
<1>6. \A x \in Objects : Nothing[x] <= Nothing[x]
  BY DEF Nothing
<1> QED  BY <1>1, <1>2, <1>3, <1>4, <1>5, <1>6, NothingIsAmount, NewObject

\* Functions that report failure with NULL or -1.
Plain(fn) == fn \notin Contract!Parsers

LEMMA PlainSignal ==
  ASSUME NEW fn, Plain(fn)
  PROVE  Signal(fn) = {NULL, "-1"}
BY DEF Plain, Signal

LEMMA CtorKept ==
  ASSUME TypeOK, NEW fn, Plain(fn), NEW type \in Types, ObjectCtor(fn, type)
  PROVE  Kept
BY NewRefKept, FailsKept, PlainSignal DEF ObjectCtor

LEMMA NewRefOrFailKept ==
  ASSUME TypeOK, NEW fn, Plain(fn), NewRefOrFail(fn)
  PROVE  Kept
BY CtorKept DEF NewRefOrFail, Types

LEMMA BorrowedRefOrFailKept ==
  ASSUME TypeOK, NEW fn, Plain(fn), BorrowedRefOrFail(fn)
  PROVE  Kept
BY BorrowedRefKept, FailsKept, PlainSignal DEF BorrowedRefOrFail

\* Results that are neither objects nor failures.
Fine == {"0", "1", "size", "unknown", "pointer", "void"}

LEMMA PlainGivesKept ==
  ASSUME TypeOK, NEW fn, Plain(fn), NEW v \in Fine, Gives(fn, v)
  PROVE  Kept
<1>1. v \in Answers \ {NULL, "-1"}
  BY ConstantsAssumption DEF Fine, Answers
<1> QED  BY <1>1, GivesKept, PlainSignal

LEMMA PlainFailsKept ==
  ASSUME TypeOK, NEW fn, Plain(fn), NEW v \in {NULL, "-1", "void"}, Fails(fn, v)
  PROVE  Kept
BY FailsKept, PlainSignal

LEMMA ZeroOrFailKept ==
  ASSUME TypeOK, NEW fn, Plain(fn), ZeroOrFail(fn)
  PROVE  Kept
BY PlainGivesKept, PlainFailsKept DEF ZeroOrFail, Fine

-----------------------------------------------------------------------------
(***************************************************************************)
(* References that calls are given or keep.                                *)
(***************************************************************************)
LEMMA OnlyIsAmount ==
  ASSUME NEW S, S \cap Objects \subseteq Seen
  PROVE  Amount(Only(S))
BY DEF Amount, Only

LEMMA NotObjects == NULL \notin Objects /\ "PyExc" \notin Objects
BY ConstantsAssumption

LEMMA ValueIsAmount ==
  ASSUME NEW v \in ExcValues
  PROVE  Amount(Only({v}))
BY OnlyIsAmount, NotObjects DEF ExcValues, Values

LEMMA EmptyIsAmount == Amount(Only({}))
BY OnlyIsAmount

\* The places of a format with the codes at which an object is passed.
Places(args, codes, o) ==
    {i \in DOMAIN args : /\ args[i][1] \in codes /\ args[i][2] = o
                         /\ \A j \in 1..i : args[j][2] # NULL}

LEMMA PlacesFinite ==
  ASSUME NEW args \in FormatArgs, NEW codes, NEW o
  PROVE  IsFiniteSet(Places(args, codes, o))
<1>1. PICK n \in 0..MaxVarargs : args \in [1..n -> {"S", "O", "N"} \X Values]
  BY DEF FormatArgs
<1>2. Places(args, codes, o) \subseteq 1..n
  BY <1>1 DEF Places
<1>3. IsFiniteSet(1..n)
  BY <1>1, ConstantsAssumption, FS_Interval
<1> QED  BY <1>2, <1>3, FS_Subset

LEMMA PassedIsAmount ==
  ASSUME NEW args \in FormatArgs, NEW codes
  PROVE  Amount(Passed(args, codes))
<1>1. Passed(args, codes) = [o \in Objects |-> Cardinality(Places(args, codes, o))]
  BY DEF Passed, Places
<1>2. \A o \in Objects : Cardinality(Places(args, codes, o)) \in Nat
  BY PlacesFinite, FS_CardinalityType
<1>3. ASSUME NEW o \in Objects \ Seen  PROVE Cardinality(Places(args, codes, o)) = 0
  <2>1. PICK n \in 0..MaxVarargs : args \in [1..n -> {"S", "O", "N"} \X Values]
    BY DEF FormatArgs
  <2>2. o \notin Values
    BY NotObjects DEF Values
  <2>3. Places(args, codes, o) = {}
    BY <2>1, <2>2 DEF Places
  <2> QED  BY <2>3, FS_EmptySet
<1> QED  BY <1>1, <1>2, <1>3 DEF Amount

\* What is taken from the function is kept: an "N" counts among all the codes.
LEMMA PassedMore ==
  ASSUME NEW args \in FormatArgs, NEW codes, NEW more, codes \subseteq more, NEW o \in Objects
  PROVE  Passed(args, codes)[o] <= Passed(args, more)[o]
<1>1. Places(args, codes, o) \subseteq Places(args, more, o)
  BY DEF Places
<1>2. Cardinality(Places(args, codes, o)) <= Cardinality(Places(args, more, o))
  BY <1>1, PlacesFinite, FS_Subset
<1> QED  BY <1>2 DEF Passed, Places

LEMMA BuildsValueKept ==
  ASSUME TypeOK, NEW fn, Plain(fn), BuildsValue(fn)
  PROVE  Kept
<1>1. CASE NewRefOrFail(fn)
  BY <1>1, NewRefOrFailKept
<1>2. CASE Fails(fn, NULL)
  BY <1>2, PlainFailsKept
<1>3. ASSUME NEW args \in FormatArgs, NEW o \in Objects \ Seen, Continues(fn, o),
             ext' = [x \in Objects |-> IF x = o THEN 0
                                        ELSE ext[x] + Passed(args, {"S", "O", "N"})[x]],
             rel' = [x \in Objects |-> IF x = o THEN 1
                                        ELSE rel[x] - Passed(args, {"N"})[x]],
             known' = [known EXCEPT ![o] = "other"],
             tracked' = tracked \cup {o}, UNCHANGED exception
      PROVE  Kept
  <2> DEFINE kept == Passed(args, {"S", "O", "N"})
             lost == Passed(args, {"N"})
  <2>1. Amount(kept) /\ Amount(lost) /\ \A x \in Objects : lost[x] <= kept[x]
    BY PassedIsAmount, PassedMore
  <2>2. Comes(o, 1, kept, lost)
    BY <1>3 DEF Comes
  <2>3. exception' \in BOOLEAN /\ o \notin Signal(fn) /\ "other" \in Types
    BY <1>3, ObjectIsResult DEF TypeOK, Types
  <2> HIDE DEF kept, lost
  <2> QED  BY <1>3, <2>1, <2>2, <2>3, NewObject
<1> QED  BY <1>1, <1>2, <1>3 DEF BuildsValue

LEMMA CallsWithFormatKept ==
  ASSUME TypeOK, NEW fn \in Contract!Releasing, Plain(fn), CallsWithFormat(fn)
  PROVE  Kept
<1>1. CASE NewRefOrFail(fn)
  BY <1>1, NewRefOrFailKept
<1>2. ASSUME NEW args \in FormatArgs, Continues(fn, NULL), exception' = TRUE,
             Keeps(Only({}), Passed(args, {"N"}))
      PROVE  Kept
  BY <1>2, PassedIsAmount, EmptyIsAmount, PlainSignal, ReleasesKept
<1>3. ASSUME NEW args \in FormatArgs, NEW o \in Objects \ Seen, Continues(fn, o),
             rel' = [x \in Objects |-> IF x = o THEN 1
                                        ELSE rel[x] - Passed(args, {"N"})[x]],
             known' = [known EXCEPT ![o] = "other"],
             tracked' = tracked \cup {o}, UNCHANGED <<ext, exception>>
      PROVE  Kept
  <2> DEFINE lost == Passed(args, {"N"})
  <2>1. Amount(lost)
    BY PassedIsAmount
  <2>2. ext \in [Objects -> Nat] /\ ext[o] = 0 /\ 1 - 1 = 0
    BY DEF TypeOK
  <2>3. \A x \in Objects : ext[x] + Nothing[x] = ext[x]
    BY <2>2 DEF Nothing
  <2>4. ext' = [x \in Objects |-> IF x = o THEN 1 - 1 ELSE ext[x] + Nothing[x]]
    BY <1>3, <2>2, <2>3
  <2>5. Comes(o, 1, Nothing, lost)
    BY <1>3, <2>4 DEF Comes
  <2>6. exception' = exception /\ exception' \in BOOLEAN /\ o \notin Signal(fn) /\ "other" \in Types
    BY <1>3, ObjectIsResult DEF TypeOK, Types
  <2> HIDE DEF lost
  <2> QED  BY <1>3, <2>1, <2>5, <2>6, NothingIsAmount, NewObject
<1> QED  BY <1>1, <1>2, <1>3 DEF CallsWithFormat

-----------------------------------------------------------------------------
(***************************************************************************)
(* The other outcomes.                                                     *)
(***************************************************************************)
\* Several objects arrive at once, whether or not they are tracked.
LEMMA ObjectsArrive ==
  ASSUME TypeOK, NEW fn \in Contract!Parsers, NEW S \in SUBSET (Objects \ Seen),
         Continues(fn, "1"), tracked' \in {tracked, tracked \cup S},
         known' = [o \in Objects |-> IF o \in S THEN "other" ELSE known[o]],
         ext' = [o \in Objects |-> IF o \in S THEN 1 ELSE ext[o]],
         UNCHANGED <<rel, exception>>
  PROVE  Kept
<1>1. Signal(fn) = {"0"} /\ "1" \in Answers /\ "1" \in Result
  BY DEF Signal, Answers, Result
<1>2. /\ rel \in [Objects -> Int] /\ ext \in [Objects -> Nat]
      /\ known \in [Objects -> Types \cup {"absent"}] /\ tracked \subseteq Seen
      /\ \A o \in Objects \ Seen : rel[o] = 0 /\ ext[o] = 0
  BY DEF TypeOK
<1>3. Seen' = Seen \cup S
  BY <1>2 DEF Seen
<1>4. known' \in [Objects -> Types \cup {"absent"}]
  BY <1>2 DEF Types
<1>5. rel' \in [Objects -> Int] /\ ext' \in [Objects -> Nat]
  BY <1>2
<1>6. \A o \in Objects \ Seen' : rel'[o] = 0 /\ ext'[o] = 0
  BY <1>2, <1>3
<1>7. RefsOK'
  BY <1>2, <1>3, <1>4, <1>5, <1>6 DEF RefsOK
<1>8. Called(fn, "1") /\ UNCHANGED <<has_gil, memory, pc>>
  BY DEF Continues
<1>9. exception' = exception /\ "1" \notin Objects
  BY <1>1, ConstantsAssumption
<1>10. ASSUME NEW o \in Objects  PROVE Contract!Arrives(o) \/ Contract!Passes(o)
  <2>1. CASE o \in S
    BY <1>2, <2>1 DEF Contract!Arrives
  <2>2. CASE o \notin S
    BY <1>2, <2>2 DEF Contract!Passes
  <2> QED  BY <2>1, <2>2
<1>11. TypeOK'
  BY <1>1, <1>7, <1>8, <1>9, StillTyped DEF TypeOK
<1>12. Contract!Next
  BY <1>1, <1>8, <1>9, <1>10, Succeeding
<1> QED  BY <1>11, <1>12 DEF Kept

LEMMA ParsesArgsKept ==
  ASSUME TypeOK, NEW fn \in Contract!Parsers, ParsesArgs(fn)
  PROVE  Kept
<1>1. CASE Fails(fn, "0")
  BY <1>1, FailsKept DEF Signal
<1>2. ASSUME NEW S \in SUBSET (Objects \ Seen), Continues(fn, "1"),
             known' = [o \in Objects |-> IF o \in S THEN "other" ELSE known[o]],
             ext' = [o \in Objects |-> IF o \in S THEN 1 ELSE ext[o]],
             UNCHANGED <<rel, tracked, exception>>
      PROVE  Kept
  BY <1>2, ObjectsArrive
<1> QED  BY <1>1, <1>2 DEF ParsesArgs

LEMMA UnpackTupleKept ==
  ASSUME TypeOK, impl_PyArg_UnpackTuple
  PROVE  Kept
<1> DEFINE fn == "PyArg_UnpackTuple"
<1>1. fn \in Contract!Parsers /\ Signal(fn) = {"0"}
  BY DEF Signal, Contract!Parsers
<1>2. CASE Ends(fn, "error")
  BY <1>2, EndsKept
<1>3. CASE Fails(fn, "0")
  BY <1>1, <1>3, FailsKept
<1>4. ASSUME NEW S \in SUBSET (Objects \ Seen), Continues(fn, "1"),
             known' = [o \in Objects |-> IF o \in S THEN "other" ELSE known[o]],
             tracked' = tracked \cup S,
             ext' = [o \in Objects |-> IF o \in S THEN 1 ELSE ext[o]],
             UNCHANGED <<rel, exception>>
      PROVE  Kept
  BY <1>1, <1>4, ObjectsArrive
<1> QED  BY <1>2, <1>3, <1>4 DEF impl_PyArg_UnpackTuple

\* The call succeeds with 0, and keeps references to an item.
LEMMA KeepsItemKept ==
  ASSUME TypeOK, NEW fn, Plain(fn), Continues(fn, "0"), UNCHANGED exception, NEW item \in Values,
         \/ Keeps(Only({item}), Only({}))
         \/ Keeps(Only({item}), Only({item}))
  PROVE  Kept
<1>1. "0" \in (Answers \cup {NULL}) \ Signal(fn)
  BY PlainSignal, ConstantsAssumption DEF Answers
<1>2. Amount(Only({item})) /\ Amount(Only({}))
  BY ValueIsAmount, EmptyIsAmount DEF ExcValues
<1>3. exception' = exception /\ exception' \in BOOLEAN
  BY DEF TypeOK
<1>4. \A o \in Objects : Only({})[o] <= Only({item})[o] /\ Only({item})[o] <= Only({item})[o]
  BY DEF Only
<1> QED  BY <1>1, <1>2, <1>3, <1>4, KeepsKept

LEMMA SetsItemKept ==
  ASSUME TypeOK, NEW fn, Plain(fn), NEW item \in Values, SetsItem(fn, item)
  PROVE  Kept
BY KeepsItemKept, PlainFailsKept DEF SetsItem

LEMMA ClearsKept ==
  ASSUME TypeOK, NEW fn \in {"PyErr_Clear", "PyErr_Print", "PyErr_PrintEx"}, Clears(fn)
  PROVE  Kept
<1>1. "void" \in Result
  BY DEF Result, Answers
<1>2. Continues(fn, "void") /\ UNCHANGED refs /\ exception' = FALSE
  BY DEF Clears
<1>3. TypeOK'
  BY <1>1, <1>2, QuietTypes
<1>4. answer'.fn = fn /\ answer'.value = "void" /\ pc = "run"
      /\ UNCHANGED <<attrs, complaints, pc>>
  BY <1>1, <1>2, Continuing DEF Continues
<1>5. Contract!Clears
  BY <1>2, <1>4 DEF Contract!Clears, Contract!Call, Contract!fn, refs
<1> QED  BY <1>3, <1>5 DEF Kept, Contract!Next

\* What the functions of Raisers do.
LEMMA RaisesKept ==
  ASSUME TypeOK, NEW fn \in Contract!Raisers, NEW v \in {NULL, "void"}, Continues(fn, v),
         exception' \in BOOLEAN, UNCHANGED <<known, tracked, rel>>,
         ext' \in [Objects -> Nat], \A o \in Objects : ext'[o] >= ext[o],
         \A o \in Objects \ Seen : ext'[o] = 0
  PROVE  Kept
<1>1. v \in Result
  BY DEF Result, Answers
<1>2. Seen' = Seen
  BY DEF Seen
<1>3. RefsOK'
  BY <1>2 DEF RefsOK, TypeOK
<1>4. TypeOK'
  BY <1>1, <1>3, StillTyped DEF Continues, TypeOK
<1>5. answer'.fn = fn /\ answer'.value = v /\ pc = "run"
      /\ UNCHANGED <<attrs, complaints, pc>>
  BY <1>1, Continuing DEF Continues
<1>6. Contract!Raises
  BY <1>5 DEF Contract!Raises, Contract!Call, Contract!fn
<1> QED  BY <1>4, <1>6 DEF Kept, Contract!Next

LEMMA SetsKept ==
  ASSUME TypeOK, NEW fn \in Contract!Raisers, NEW exc, NEW v \in {NULL, "void"}, Sets(fn, exc, v)
  PROVE  Kept
<1>1. ext \in [Objects -> Nat] /\ \A o \in Objects \ Seen : ext[o] = 0
  BY DEF TypeOK
<1>2. UNCHANGED <<known, tracked, rel>> /\ ext' = ext /\ exception' \in BOOLEAN
  BY DEF Sets, refs
<1>3. \A o \in Objects : ext'[o] >= ext[o]
  BY <1>1, <1>2
<1> QED  BY <1>1, <1>2, <1>3, RaisesKept DEF Sets

LEMMA SetsAndKeepsKept ==
  ASSUME TypeOK, NEW fn \in Contract!Raisers, NEW exc \in ExcValues, NEW values,
         values \subseteq Values, SetsAndKeeps(fn, exc, values)
  PROVE  Kept
<1>1. Amount(Only({exc})) /\ Amount(Only(values))
  BY ValueIsAmount, OnlyIsAmount, NotObjects DEF Values
<1>2. ext \in [Objects -> Nat] /\ \A o \in Objects \ Seen : ext[o] = 0
  BY DEF TypeOK
<1>3. ext' = [o \in Objects |-> ext[o] + Only({exc})[o] + Only(values)[o]]
  BY DEF SetsAndKeeps
<1>4. ASSUME NEW o \in Objects
      PROVE  ext'[o] \in Nat /\ ext'[o] >= ext[o] /\ (o \notin Seen => ext'[o] = 0)
  <2>1. ext[o] \in Nat /\ Only({exc})[o] \in Nat /\ Only(values)[o] \in Nat
    BY <1>1, <1>2 DEF Amount
  <2>2. o \notin Seen => ext[o] = 0 /\ Only({exc})[o] = 0 /\ Only(values)[o] = 0
    BY <1>1, <1>2 DEF Amount
  <2>3. ext'[o] = ext[o] + Only({exc})[o] + Only(values)[o]
    BY <1>3
  <2> QED  BY <2>1, <2>2, <2>3
<1>5. UNCHANGED <<known, tracked, rel>> /\ exception' \in BOOLEAN /\ Continues(fn, "void")
  BY DEF SetsAndKeeps
<1>6. ext' \in [Objects -> Nat]
  BY <1>3, <1>4
<1> QED  BY <1>4, <1>5, <1>6, RaisesKept

LEMMA OccurredKept ==
  ASSUME TypeOK, impl_PyErr_Occurred
  PROVE  Kept
<1> DEFINE fn == "PyErr_Occurred"
           v  == IF exception THEN "pointer" ELSE NULL
<1>1. v \in Result /\ (v = NULL <=> ~exception)
  BY ConstantsAssumption DEF Result, Answers
<1>2. Continues(fn, v) /\ UNCHANGED refs /\ exception' = exception
  BY DEF impl_PyErr_Occurred, Gives
<1> HIDE DEF v
<1>3. TypeOK'
  BY <1>1, <1>2, QuietTypes DEF TypeOK
<1>4. answer'.fn = fn /\ answer'.value = v /\ pc = "run"
      /\ UNCHANGED <<attrs, complaints, pc>>
  BY <1>1, <1>2, Continuing DEF Continues
<1>5. Contract!Asks
  BY <1>1, <1>2, <1>4 DEF Contract!Asks, Contract!Call, Contract!fn, refs
<1> QED  BY <1>3, <1>5 DEF Kept, Contract!Next

\* Calls by which no references move, but the GIL or the memory does.
LEMMA ElsewhereKept ==
  ASSUME TypeOK, NEW fn, Plain(fn), NEW v \in Fine \cup Blocks, Called(fn, v),
         UNCHANGED <<refs, exception, pc>>, has_gil' \in BOOLEAN,
         memory' \in [Blocks -> {"absent", "allocated", "deallocated"}]
  PROVE  Kept
<1>1. v \in Result /\ v \notin Objects /\ v \notin Signal(fn)
  BY PlainSignal, ConstantsAssumption DEF Result, Answers, Fine
<1>2. RefsOK' /\ rel' = rel /\ ext' = ext /\ exception' = exception
  BY DEF RefsOK, TypeOK, refs, Seen
<1>3. TypeOK'
  BY <1>1, <1>2, StillTyped DEF TypeOK
<1>4. Contract!Next
  BY <1>1, <1>2, AllPass, Succeeding
<1> QED  BY <1>3, <1>4 DEF Kept

LEMMA ThreadsKept ==
  ASSUME TypeOK, NEW fn, Plain(fn), NEW v \in Fine, NEW gil \in BOOLEAN, Threads(fn, v, gil)
  PROVE  Kept
BY ElsewhereKept DEF Threads, TypeOK

LEMMA MemoryKept ==
  ASSUME TypeOK, NEW fn, Plain(fn), NEW v \in Fine \cup Blocks, NEW b \in Blocks,
         NEW how \in {"allocated", "deallocated"}, Memory(fn, v, b, how)
  PROVE  Kept
<1>1. memory' \in [Blocks -> {"absent", "allocated", "deallocated"}]
  BY DEF Memory, TypeOK
<1>2. has_gil' \in BOOLEAN
  BY DEF Memory, TypeOK
<1> QED  BY <1>1, <1>2, ElsewhereKept DEF Memory

LEMMA SumIsAmount ==
  ASSUME NEW f, NEW g, Amount(f), Amount(g)
  PROVE  Amount([o \in Objects |-> f[o] + g[o]])
<1>1. f \in [Objects -> Nat] /\ g \in [Objects -> Nat]
  BY DEF Amount
<1>2. \A o \in Objects : f[o] + g[o] \in Nat
  BY <1>1
<1>3. \A o \in Objects \ Seen : f[o] + g[o] = 0
  BY DEF Amount
<1> QED  BY <1>2, <1>3 DEF Amount

\* PyString_Concat and PyString_ConcatAndDel.
LEMMA ConcatsKept ==
  ASSUME TypeOK, NEW fn \in Contract!Releasing, Plain(fn), NEW star_pv \in Values, NEW w \in Values,
         NEW dropped \in {{}, {w}}, Concats(fn, star_pv, w, dropped)
  PROVE  Kept
<1> DEFINE lost == [o \in Objects |-> Only({star_pv})[o] + Only(dropped)[o]]
<1>1. Amount(lost) /\ Amount(Only({}))
  <2>1. Amount(Only({star_pv})) /\ Amount(Only(dropped)) /\ Amount(Only({}))
    BY ValueIsAmount, EmptyIsAmount DEF ExcValues
  <2> QED  BY <2>1, SumIsAmount
<1>2. "void" \in (Answers \cup {NULL}) \ Signal(fn)
  BY PlainSignal, ConstantsAssumption DEF Answers
<1> HIDE DEF lost
<1>3. CASE Continues(fn, "void") /\ Keeps(Only({}), lost) /\ UNCHANGED exception
  <2>1. exception' = exception /\ exception' \in BOOLEAN
    BY <1>3 DEF TypeOK
  <2> QED  BY <1>1, <1>2, <1>3, <2>1, KeepsKept
<1>4. CASE Continues(fn, "void") /\ Keeps(Only({}), lost) /\ exception' = TRUE
  BY <1>1, <1>4, ReleasesKept
<1>5. ASSUME NEW o \in Objects \ Seen, Continues(fn, "void"), UNCHANGED <<exception, ext>>,
             known' = [known EXCEPT ![o] = "other"], tracked' = tracked \cup {o},
             rel' = [x \in Objects |-> IF x = o THEN 1 ELSE rel[x] - lost[x]]
      PROVE  Kept
  <2>1. ext \in [Objects -> Nat] /\ ext[o] = 0 /\ 1 - 1 = 0
    BY DEF TypeOK
  <2>2. \A x \in Objects : ext[x] + Nothing[x] = ext[x]
    BY <2>1 DEF Nothing
  <2>3. ext' = [x \in Objects |-> IF x = o THEN 1 - 1 ELSE ext[x] + Nothing[x]]
    BY <1>5, <2>1, <2>2
  <2>4. Comes(o, 1, Nothing, lost)
    BY <1>5, <2>3 DEF Comes
  <2>5. exception' = exception /\ exception' \in BOOLEAN /\ "other" \in Types
    BY <1>5 DEF TypeOK, Types
  <2> QED  BY <1>1, <1>2, <1>5, <2>4, <2>5, NothingIsAmount, NewObject
<1> QED  BY <1>3, <1>4, <1>5 DEF Concats, lost

LEMMA UnknownKept ==
  ASSUME TypeOK, UnknownFunction
  PROVE  Kept
<1>1. Plain("unknown_function")
  BY DEF Plain, Contract!Parsers
<1> QED  BY <1>1, NewRefOrFailKept, PlainGivesKept DEF UnknownFunction, Fine

LEMMA MarkedKept ==
  ASSUME TypeOK, MarkedFunction
  PROVE  Kept
<1> DEFINE fn == "marked_function"
<1>1. Plain(fn) /\ fn \in Contract!Releasing
  BY DEF Plain, Contract!Parsers, Contract!Releasing
<1>2. PICK stolen \in {{}} \cup {{o} : o \in Seen}, raises \in BOOLEAN :
        \/ /\ Marked("unknown", raises) /\ Keeps(Only(stolen), Only(stolen))
        \/ /\ Marked(NULL, TRUE) /\ Keeps(Only(stolen), Only(stolen))
        \/ /\ Marked("-1", TRUE) /\ Keeps(Only(stolen), Only(stolen))
        \/ \E o \in Objects \ Seen, borrowed \in {0, 1} :
               /\ Marked(o, raises)
               /\ known' = [known EXCEPT ![o] = "other"] /\ tracked' = tracked \cup {o}
               /\ rel' = [x \in Objects |-> IF x = o THEN 1 - borrowed
                                              ELSE rel[x] - Only(stolen)[x]]
               /\ ext' = [x \in Objects |-> IF x = o THEN borrowed
                                              ELSE ext[x] + Only(stolen)[x]]
  BY DEF MarkedFunction
<1> DEFINE moved == Only(stolen)
<1>3. Amount(moved)
  BY OnlyIsAmount
<1> HIDE DEF moved
<1>4. CASE Marked("unknown", raises) /\ Keeps(moved, moved)
  <2>1. Continues(fn, "unknown") /\ exception' = (exception \/ raises)
    BY <1>4 DEF Marked
  <2>2. exception' \in BOOLEAN /\ (exception' = exception \/ exception')
    BY <2>1 DEF TypeOK
  <2>3. "unknown" \in (Answers \cup {NULL}) \ Signal(fn)
    BY <1>1, PlainSignal, ConstantsAssumption DEF Answers
  <2> QED  BY <1>1, <1>3, <1>4, <2>1, <2>2, <2>3, KeepsKept
<1>5. ASSUME NEW v \in {NULL, "-1"}, Marked(v, TRUE), Keeps(moved, moved)  PROVE Kept
  <2>1. Continues(fn, v) /\ exception' = TRUE
    BY <1>5 DEF Marked
  <2> QED  BY <1>1, <1>3, <1>5, <2>1, PlainSignal, ReleasesKept
<1>6. ASSUME NEW o \in Objects \ Seen, NEW borrowed \in {0, 1}, Marked(o, raises),
             known' = [known EXCEPT ![o] = "other"], tracked' = tracked \cup {o},
             rel' = [x \in Objects |-> IF x = o THEN 1 - borrowed ELSE rel[x] - moved[x]],
             ext' = [x \in Objects |-> IF x = o THEN borrowed ELSE ext[x] + moved[x]]
      PROVE  Kept
  <2>1. Continues(fn, o) /\ exception' = (exception \/ raises)
    BY <1>6 DEF Marked
  <2>2. exception' \in BOOLEAN /\ (exception' = exception \/ exception')
    BY <2>1 DEF TypeOK
  <2>3. PICK r \in {0, 1} : r = 1 - borrowed /\ borrowed = 1 - r
    OBVIOUS
  <2>4. Comes(o, r, moved, moved)
    BY <1>6, <2>3 DEF Comes
  <2>5. o \notin Signal(fn) /\ "other" \in Types
    BY ObjectIsResult DEF Types
  <2> QED  BY <1>1, <1>3, <1>6, <2>1, <2>2, <2>4, <2>5, NewObject
<1> QED  BY <1>2, <1>4, <1>5, <1>6 DEF moved

\* The return statement makes the reports of the contract, and one of its own
\* about memory.
LEMMA ReturnKept ==
  ASSUME TypeOK, Return
  PROVE  Kept
<1>1. PICK v \in Results :
        /\ pc = "run" /\ pc' = "returned"
        /\ answer' = [fn |-> "return", value |-> v]
        /\ complaints' =
               (IF v \in Blocks /\ memory[v] = "deallocated" THEN {"deallocated"} ELSE {})
                 \cup (IF exception THEN {} ELSE WithoutException(v))
        /\ UNCHANGED <<attrs, refs, exception, has_gil, memory, calls>>
  BY DEF Return
<1>2. v \in Result
  BY DEF Results, Result, Answers, Values, Seen
<1>3. answer'.fn = "return" /\ answer'.value = v
  BY <1>1
<1>4. TypeOK'
  BY <1>1, <1>2, <1>3 DEF TypeOK, Result, refs, Seen
<1>5. "deallocated" \notin WithoutException(v)
  BY DEF WithoutException
<1>6. complaints' \ {"deallocated"} = IF exception THEN {} ELSE WithoutException(v)
  BY <1>1, <1>5
<1>7. WithoutException(v) = IF Contract!Excused(v) THEN {} ELSE Contract!Broken(v)
  BY DEF WithoutException, Contract!Excused, Contract!Broken
<1>8. Contract!Returns
  BY <1>1, <1>3, <1>6, <1>7 DEF Contract!Returns, refs
<1> QED  BY <1>4, <1>8 DEF Kept, Contract!Next

-----------------------------------------------------------------------------
(***************************************************************************)
(* The handlers, in the groups of Next.  Most of them are ordinary: the    *)
(* path ends, an object or another value is returned, or the call fails.   *)
(***************************************************************************)
Ordinary(fn) ==
    \/ \E how \in {"error", "noreturn", "AttributeError", "NameError", "AssertionError"} :
           Ends(fn, how)
    \/ \E v \in Fine : Gives(fn, v)
    \/ \E v \in {NULL, "-1"} : Fails(fn, v)
    \/ \E type \in Types : NewRef(fn, type)
    \/ BorrowedRef(fn)

LEMMA OrdinaryKept ==
  ASSUME TypeOK, NEW fn, Plain(fn), Ordinary(fn)
  PROVE  Kept
BY EndsKept, PlainGivesKept, PlainFailsKept, NewRefKept, BorrowedRefKept DEF Ordinary

LEMMA PyArgKept ==
  ASSUME TypeOK, Calls_PyArg
  PROVE  Kept
<1>1. CASE impl_PyArg_UnpackTuple
  BY <1>1, UnpackTupleKept
<1>2. ASSUME NEW fn \in Contract!Parsers, ParsesArgs(fn)  PROVE Kept
  BY <1>2, ParsesArgsKept
<1> QED
  BY <1>1, <1>2
  DEF Calls_PyArg, impl_PyArg_Parse, impl__PyArg_Parse_SizeT, impl_PyArg_ParseTuple,
      impl__PyArg_ParseTuple_SizeT, impl_PyArg_ParseTupleAndKeywords,
      impl__PyArg_ParseTupleAndKeywords_SizeT, Contract!Parsers

LEMMA PyDictKept ==
  ASSUME TypeOK, Calls_PyDict
  PROVE  Kept
<1> USE DEF Ordinary, Plain, Contract!Parsers, Types, Fine
<1>1. impl_PyDict_GetItem => Kept
  BY SilentKept, OrdinaryKept DEF impl_PyDict_GetItem, Crashes, Contract!Silent, Signal
<1>2. impl_PyDict_GetItemString => Kept
  BY SilentKept, OrdinaryKept DEF impl_PyDict_GetItemString, Crashes, Contract!Silent, Signal
<1>3. impl_PyDict_New => Ordinary("PyDict_New")
  BY DEF impl_PyDict_New, ObjectCtor
<1>4. impl_PyDict_SetItem => Kept
  BY CrashesKept, SetsItemKept DEF impl_PyDict_SetItem
<1>5. impl_PyDict_SetItemString => Kept
  BY CrashesKept, SetsItemKept DEF impl_PyDict_SetItemString
<1>6. impl_PyDict_Size => Ordinary("PyDict_Size")
  BY DEF impl_PyDict_Size, NoLhs, BadInternalCall
<1> QED  BY <1>1, <1>2, <1>3, <1>4, <1>5, <1>6, OrdinaryKept DEF Calls_PyDict

LEMMA PyErrKept ==
  ASSUME TypeOK, Calls_PyErr
  PROVE  Kept
<1> USE DEF Ordinary, Plain, Contract!Parsers, Types, Fine
<1>1. impl_PyErr_Clear => Kept
  BY ClearsKept DEF impl_PyErr_Clear
<1>2. impl_PyErr_Format => Kept
  BY SetsKept DEF impl_PyErr_Format, Contract!Raisers
<1>3. impl_PyErr_NewException => Ordinary("PyErr_NewException")
  BY DEF impl_PyErr_NewException, NewRefOrFail, ObjectCtor, Crashes
<1>4. impl_PyErr_NoMemory => Ordinary("PyErr_NoMemory")
  BY DEF impl_PyErr_NoMemory
<1>5. impl_PyErr_Occurred => Kept
  BY OccurredKept
<1>6. impl_PyErr_Print => Kept
  BY ClearsKept DEF impl_PyErr_Print
<1>7. impl_PyErr_PrintEx => Kept
  BY ClearsKept DEF impl_PyErr_PrintEx
<1>8. impl_PyErr_SetFromErrno => Kept
  BY SetsKept DEF impl_PyErr_SetFromErrno, Contract!Raisers
<1>9. impl_PyErr_SetFromErrnoWithFilename => Kept
  BY SetsKept DEF impl_PyErr_SetFromErrnoWithFilename, Contract!Raisers
<1>10. impl_PyErr_SetNone => Kept
  BY SetsAndKeepsKept DEF impl_PyErr_SetNone, Contract!Raisers
<1>11. impl_PyErr_SetObject => Kept
  BY SetsAndKeepsKept DEF impl_PyErr_SetObject, Contract!Raisers
<1>12. impl_PyErr_SetString => Kept
  BY SetsKept DEF impl_PyErr_SetString, Contract!Raisers
<1>13. impl_PyErr_WarnEx => Ordinary("PyErr_WarnEx")
  BY DEF impl_PyErr_WarnEx, ZeroOrFail
<1> QED  BY <1>1, <1>2, <1>3, <1>4, <1>5, <1>6, <1>7, <1>8, <1>9, <1>10, <1>11, <1>12, <1>13,
            OrdinaryKept DEF Calls_PyErr

LEMMA PyEvalKept ==
  ASSUME TypeOK, Calls_PyEval
  PROVE  Kept
<1> USE DEF Ordinary, Plain, Contract!Parsers, Types, Fine
<1>1. impl_PyEval_CallMethod => Kept
  BY CrashesKept, CallsWithFormatKept DEF impl_PyEval_CallMethod, Contract!Releasing
<1>2. impl_PyEval_CallObjectWithKeywords => Ordinary("PyEval_CallObjectWithKeywords")
  BY DEF impl_PyEval_CallObjectWithKeywords, NewRefOrFail, ObjectCtor, Crashes
<1>3. impl_PyEval_InitThreads => Ordinary("PyEval_InitThreads")
  BY DEF impl_PyEval_InitThreads
<1>4. impl_PyEval_RestoreThread => Kept
  BY ThreadsKept DEF impl_PyEval_RestoreThread
<1>5. impl_PyEval_SaveThread => Kept
  BY ThreadsKept DEF impl_PyEval_SaveThread
<1> QED  BY <1>1, <1>2, <1>3, <1>4, <1>5, OrdinaryKept DEF Calls_PyEval

LEMMA PyListKept ==
  ASSUME TypeOK, Calls_PyList
  PROVE  Kept
<1> USE DEF Ordinary, Plain, Contract!Parsers, Types, Fine
<1>1. impl_PyList_GetItem => Ordinary("PyList_GetItem")
  BY DEF impl_PyList_GetItem, Crashes
<1>2. impl_PyList_New => Ordinary("PyList_New")
  BY DEF impl_PyList_New, ObjectCtor
<1>3. impl_PyList_SetItem => Kept
  BY CrashesKept, KeepsItemKept, PlainFailsKept DEF impl_PyList_SetItem
<1>4. impl_PyList_Size => Ordinary("PyList_Size")
  BY DEF impl_PyList_Size, Crashes
<1> QED  BY <1>1, <1>2, <1>3, <1>4, OrdinaryKept DEF Calls_PyList

LEMMA PyObjectKept ==
  ASSUME TypeOK, Calls_PyObject
  PROVE  Kept
<1> USE DEF Ordinary, Plain, Contract!Parsers, Types, Fine
<1>1. impl_PyObject_AsFileDescriptor => Ordinary("PyObject_AsFileDescriptor")
  BY DEF impl_PyObject_AsFileDescriptor, Crashes, NoLhs
<1>2. impl_PyObject_Call => Ordinary("PyObject_Call")
  BY DEF impl_PyObject_Call, NewRefOrFail, ObjectCtor, Crashes
<1>3. impl_PyObject_CallFunction => Kept
  BY CrashesKept, CallsWithFormatKept DEF impl_PyObject_CallFunction, Contract!Releasing
<1>4. impl__PyObject_CallFunction_SizeT => Kept
  BY CrashesKept, CallsWithFormatKept DEF impl__PyObject_CallFunction_SizeT, Contract!Releasing
<1>5. impl_PyObject_CallFunctionObjArgs => Ordinary("PyObject_CallFunctionObjArgs")
  BY DEF impl_PyObject_CallFunctionObjArgs, CallsWithObjArgs, NewRefOrFail, ObjectCtor
<1>6. impl_PyObject_CallMethod => Kept
  BY CrashesKept, CallsWithFormatKept DEF impl_PyObject_CallMethod, Contract!Releasing
<1>7. impl__PyObject_CallMethod_SizeT => Kept
  BY CrashesKept, CallsWithFormatKept DEF impl__PyObject_CallMethod_SizeT, Contract!Releasing
<1>8. impl_PyObject_CallMethodObjArgs => Ordinary("PyObject_CallMethodObjArgs")
  BY DEF impl_PyObject_CallMethodObjArgs, CallsWithObjArgs, NewRefOrFail, ObjectCtor
<1>9. impl_PyObject_CallObject => Ordinary("PyObject_CallObject")
  BY DEF impl_PyObject_CallObject, NewRefOrFail, ObjectCtor, Crashes
<1>10. impl_PyObject_GetAttr => Ordinary("PyObject_GetAttr")
  BY DEF impl_PyObject_GetAttr, NewRefOrFail, ObjectCtor, Crashes
<1>11. impl_PyObject_GetAttrString => Ordinary("PyObject_GetAttrString")
  BY DEF impl_PyObject_GetAttrString, NewRefOrFail, ObjectCtor, Crashes
<1>12. impl_PyObject_GetItem => Ordinary("PyObject_GetItem")
  BY DEF impl_PyObject_GetItem, NewRefOrFail, ObjectCtor, NullError
<1>13. impl_PyObject_GenericGetAttr => Ordinary("PyObject_GenericGetAttr")
  BY DEF impl_PyObject_GenericGetAttr, NewRefOrFail, ObjectCtor, Crashes
<1>14. impl_PyObject_GenericSetAttr => Ordinary("PyObject_GenericSetAttr")
  BY DEF impl_PyObject_GenericSetAttr, ZeroOrFail, Crashes
<1>15. impl_PyObject_HasAttrString => Ordinary("PyObject_HasAttrString")
  BY DEF impl_PyObject_HasAttrString, Crashes
<1>16. impl_PyObject_IsTrue => Ordinary("PyObject_IsTrue")
  BY DEF impl_PyObject_IsTrue
<1>17. impl__PyObject_New => Ordinary("_PyObject_New")
  BY DEF impl__PyObject_New, NewRefOrFail, ObjectCtor, NoLhs
<1>18. impl_PyObject_Repr => Ordinary("PyObject_Repr")
  BY DEF impl_PyObject_Repr, ObjectCtor
<1>19. impl_PyObject_SetAttr => Ordinary("PyObject_SetAttr")
  BY DEF impl_PyObject_SetAttr, ZeroOrFail, Crashes
<1>20. impl_PyObject_SetAttrString => Ordinary("PyObject_SetAttrString")
  BY DEF impl_PyObject_SetAttrString, ZeroOrFail, Crashes
<1>21. impl_PyObject_Str => Ordinary("PyObject_Str")
  BY DEF impl_PyObject_Str, ObjectCtor
<1> QED  BY <1>1, <1>2, <1>3, <1>4, <1>5, <1>6, <1>7, <1>8, <1>9, <1>10, <1>11, <1>12, <1>13,
            <1>14, <1>15, <1>16, <1>17, <1>18, <1>19, <1>20, <1>21, OrdinaryKept
            DEF Calls_PyObject

LEMMA PySequenceKept ==
  ASSUME TypeOK, Calls_PySequence
  PROVE  Kept
<1> USE DEF Ordinary, Plain, Contract!Parsers, Types, Fine
<1>1. impl_PySequence_Concat => Ordinary("PySequence_Concat")
  BY DEF impl_PySequence_Concat, NewRefOrFail, ObjectCtor, NullError
<1>2. impl_PySequence_DelItem => Ordinary("PySequence_DelItem")
  BY DEF impl_PySequence_DelItem, ZeroOrFail, NullError
<1>3. impl_PySequence_GetItem => Ordinary("PySequence_GetItem")
  BY DEF impl_PySequence_GetItem, NewRefOrFail, ObjectCtor
<1>4. impl_PySequence_GetSlice => Ordinary("PySequence_GetSlice")
  BY DEF impl_PySequence_GetSlice, NewRefOrFail, ObjectCtor, NullError
<1>5. impl_PySequence_Length => Ordinary("PySequence_Length")
  BY DEF impl_PySequence_Length, SequenceSize, NullError
<1>6. impl_PySequence_SetItem => Ordinary("PySequence_SetItem")
  BY DEF impl_PySequence_SetItem, NullError
<1>7. impl_PySequence_Size => Ordinary("PySequence_Size")
  BY DEF impl_PySequence_Size, SequenceSize, NullError
<1> QED  BY <1>1, <1>2, <1>3, <1>4, <1>5, <1>6, <1>7, OrdinaryKept DEF Calls_PySequence

LEMMA PyStringKept ==
  ASSUME TypeOK, Calls_PyString
  PROVE  Kept
<1> USE DEF Ordinary, Plain, Contract!Parsers, Types, Fine
<1>1. impl_PyString_AsString => Ordinary("PyString_AsString")
  BY DEF impl_PyString_AsString, Crashes
<1>2. impl_PyString_Concat => Kept
  BY EndsKept, ConcatsKept DEF impl_PyString_Concat, Contract!Releasing
<1>3. impl_PyString_ConcatAndDel => Kept
  BY EndsKept, ConcatsKept DEF impl_PyString_ConcatAndDel, Contract!Releasing
<1>4. impl_PyString_FromFormat => Ordinary("PyString_FromFormat")
  BY DEF impl_PyString_FromFormat, ObjectCtor
<1>5. impl_PyString_FromString => Ordinary("PyString_FromString")
  BY DEF impl_PyString_FromString, ObjectCtor, Crashes
<1>6. impl_PyString_FromStringAndSize => Ordinary("PyString_FromStringAndSize")
  BY DEF impl_PyString_FromStringAndSize, ObjectCtor
<1>7. impl_PyString_InternFromString => Ordinary("PyString_InternFromString")
  BY DEF impl_PyString_InternFromString, ObjectCtor, Crashes
<1>8. impl_PyString_Size => Ordinary("PyString_Size")
  BY DEF impl_PyString_Size, Crashes
<1> QED  BY <1>1, <1>2, <1>3, <1>4, <1>5, <1>6, <1>7, <1>8, OrdinaryKept DEF Calls_PyString

LEMMA PyTupleKept ==
  ASSUME TypeOK, Calls_PyTuple
  PROVE  Kept
<1> USE DEF Ordinary, Plain, Contract!Parsers, Types, Fine
<1>1. impl_PyTuple_GetItem => Ordinary("PyTuple_GetItem")
  BY DEF impl_PyTuple_GetItem, Crashes
<1>2. impl_PyTuple_New => Ordinary("PyTuple_New")
  BY DEF impl_PyTuple_New, ObjectCtor
<1>3. impl_PyTuple_Pack => Ordinary("PyTuple_Pack")
  BY DEF impl_PyTuple_Pack, ObjectCtor, Crashes
<1>4. impl_PyTuple_Size => Ordinary("PyTuple_Size")
  BY DEF impl_PyTuple_Size, Crashes
<1> QED  BY <1>1, <1>2, <1>3, <1>4, OrdinaryKept DEF Calls_PyTuple

LEMMA PyUnicodeKept ==
  ASSUME TypeOK, Calls_PyUnicode
  PROVE  Kept
<1> USE DEF Ordinary, Plain, Contract!Parsers, Types, Fine
<1>1. impl_PyUnicode_AsUTF8String => Ordinary("PyUnicode_AsUTF8String")
  BY DEF impl_PyUnicode_AsUTF8String, EncodesUTF8, Crashes, ObjectCtor, BytesTypes
<1>2. impl_PyUnicodeUCS4_AsUTF8String => Ordinary("PyUnicodeUCS4_AsUTF8String")
  BY DEF impl_PyUnicodeUCS4_AsUTF8String, EncodesUTF8, Crashes, ObjectCtor, BytesTypes
<1>3. impl_PyUnicode_DecodeUTF8 => Ordinary("PyUnicode_DecodeUTF8")
  BY DEF impl_PyUnicode_DecodeUTF8, ObjectCtor
<1>4. impl_PyUnicodeUCS4_DecodeUTF8 => Ordinary("PyUnicodeUCS4_DecodeUTF8")
  BY DEF impl_PyUnicodeUCS4_DecodeUTF8, ObjectCtor
<1> QED  BY <1>1, <1>2, <1>3, <1>4, OrdinaryKept DEF Calls_PyUnicode

LEMMA OtherKept ==
  ASSUME TypeOK, Calls_Other
  PROVE  Kept
<1> USE DEF Ordinary, Plain, Contract!Parsers, Types, Fine
<1>1. impl___cpychecker_log => Ordinary("__cpychecker_log")
  BY DEF impl___cpychecker_log
<1>2. impl___cpychecker_dump => Ordinary("__cpychecker_dump")
  BY DEF impl___cpychecker_dump
<1>3. impl___cpychecker_dump_all => Ordinary("__cpychecker_dump_all")
  BY DEF impl___cpychecker_dump_all
<1>4. impl___cpychecker_assert_equal => Ordinary("__cpychecker_assert_equal")
  BY DEF impl___cpychecker_assert_equal
<1>5. impl_Py_AtExit => Ordinary("Py_AtExit")
  BY DEF impl_Py_AtExit, NoLhs
<1>6. impl_PyBool_FromLong => Ordinary("PyBool_FromLong")
  BY DEF impl_PyBool_FromLong
<1>7. impl_Py_BuildValue => Kept
  BY BuildsValueKept DEF impl_Py_BuildValue
<1>8. impl__Py_BuildValue_SizeT => Kept
  BY BuildsValueKept DEF impl__Py_BuildValue_SizeT
<1>9. impl_PyCallable_Check => Ordinary("PyCallable_Check")
  BY DEF impl_PyCallable_Check
<1>10. impl_PyCapsule_GetPointer => Ordinary("PyCapsule_GetPointer")
  BY DEF impl_PyCapsule_GetPointer, NoLhs
<1>11. impl_PyCObject_AsVoidPtr => Ordinary("PyCObject_AsVoidPtr")
  BY DEF impl_PyCObject_AsVoidPtr
<1>12. impl_PyCObject_FromVoidPtr => Ordinary("PyCObject_FromVoidPtr")
  BY DEF impl_PyCObject_FromVoidPtr, ObjectCtor, mktrans_cobject_deprecation_warning
<1>13. impl_PyCObject_FromVoidPtrAndDesc => Ordinary("PyCObject_FromVoidPtrAndDesc")
  BY DEF impl_PyCObject_FromVoidPtrAndDesc, ObjectCtor, mktrans_cobject_deprecation_warning
<1>14. impl_PyCode_New => Ordinary("PyCode_New")
  BY DEF impl_PyCode_New, ObjectCtor
<1>15. impl_Py_FatalError => Ordinary("Py_FatalError")
  BY DEF impl_Py_FatalError
<1>16. impl_PyFile_SoftSpace => Ordinary("PyFile_SoftSpace")
  BY DEF impl_PyFile_SoftSpace
<1>17. impl_PyFile_WriteObject => Ordinary("PyFile_WriteObject")
  BY DEF impl_PyFile_WriteObject, ZeroOrFail
<1>18. impl_PyFile_WriteString => Ordinary("PyFile_WriteString")
  BY DEF impl_PyFile_WriteString, ZeroOrFail
<1>19. impl_Py_Finalize => Ordinary("Py_Finalize")
  BY DEF impl_Py_Finalize
<1>20. impl_PyFloat_AsDouble => Ordinary("PyFloat_AsDouble")
  BY DEF impl_PyFloat_AsDouble
<1>21. impl_PyFloat_FromDouble => Ordinary("PyFloat_FromDouble")
  BY DEF impl_PyFloat_FromDouble, ObjectCtor
<1>22. impl_PyFrame_New => Ordinary("PyFrame_New")
  BY DEF impl_PyFrame_New, ObjectCtor
<1>23. impl_Py_GetVersion => Ordinary("Py_GetVersion")
  BY DEF impl_Py_GetVersion
<1>24. impl_PyGILState_Ensure => Ordinary("PyGILState_Ensure")
  BY DEF impl_PyGILState_Ensure
<1>25. impl_PyGILState_Release => Ordinary("PyGILState_Release")
  BY DEF impl_PyGILState_Release
<1>26. impl_PyImport_AddModule => Ordinary("PyImport_AddModule")
  BY DEF impl_PyImport_AddModule, BorrowedRefOrFail
<1>27. impl_PyImport_AppendInittab => Kept
  BY SilentKept, OrdinaryKept DEF impl_PyImport_AppendInittab, Contract!Silent, Signal
<1>28. impl_PyImport_ImportModule => Ordinary("PyImport_ImportModule")
  BY DEF impl_PyImport_ImportModule, ObjectCtor
<1>29. impl_Py_Initialize => Ordinary("Py_Initialize")
  BY DEF impl_Py_Initialize
<1>30. impl_Py_InitModule4_64 => Ordinary("Py_InitModule4_64")
  BY DEF impl_Py_InitModule4_64, BorrowedRefOrFail
<1>31. impl_PyInt_AsLong => Ordinary("PyInt_AsLong")
  BY DEF impl_PyInt_AsLong
<1>32. impl_PyInt_FromLong => Ordinary("PyInt_FromLong")
  BY DEF impl_PyInt_FromLong
<1>33. impl_PyIter_Next => Kept
  BY SilentKept, OrdinaryKept DEF impl_PyIter_Next, NewRefOrFail, ObjectCtor, Crashes,
     Contract!Silent, Signal
<1>34. impl_PyLong_FromLong => Ordinary("PyLong_FromLong")
  BY DEF impl_PyLong_FromLong, ObjectCtor
<1>35. impl_PyLong_FromLongLong => Ordinary("PyLong_FromLongLong")
  BY DEF impl_PyLong_FromLongLong, ObjectCtor
<1>36. impl_PyLong_FromString => Ordinary("PyLong_FromString")
  BY DEF impl_PyLong_FromString, ObjectCtor
<1>37. impl_PyLong_FromVoidPtr => Ordinary("PyLong_FromVoidPtr")
  BY DEF impl_PyLong_FromVoidPtr, ObjectCtor
<1>38. impl_PyMapping_Size => Ordinary("PyMapping_Size")
  BY DEF impl_PyMapping_Size, NoLhs
<1>39. impl_PyMem_Free => Kept
  BY PlainGivesKept, MemoryKept, EndsKept DEF impl_PyMem_Free
<1>40. impl_PyMem_Malloc => Kept
  BY MemoryKept, SilentKept DEF impl_PyMem_Malloc, Contract!Silent, Signal
<1>41. impl_PyModule_AddIntConstant => Ordinary("PyModule_AddIntConstant")
  BY DEF impl_PyModule_AddIntConstant, ZeroOrFail
<1>42. impl_PyModule_AddObject => Kept
  BY CrashesKept, KeepsItemKept, PlainFailsKept DEF impl_PyModule_AddObject
<1>43. impl_PyModule_AddStringConstant => Ordinary("PyModule_AddStringConstant")
  BY DEF impl_PyModule_AddStringConstant, ZeroOrFail
<1>44. impl_PyModule_GetDict => Ordinary("PyModule_GetDict")
  BY DEF impl_PyModule_GetDict
<1>45. impl_PyNumber_Int => Ordinary("PyNumber_Int")
  BY DEF impl_PyNumber_Int, NewRefOrFail, ObjectCtor, NullError
<1>46. impl_PyOS_snprintf => Ordinary("PyOS_snprintf")
  BY DEF impl_PyOS_snprintf
<1>47. impl_PyRun_SimpleFileExFlags => Kept
  BY SilentKept, OrdinaryKept DEF impl_PyRun_SimpleFileExFlags, Contract!Silent, Signal
<1>48. impl_PyRun_SimpleStringFlags => Kept
  BY SilentKept, OrdinaryKept DEF impl_PyRun_SimpleStringFlags, Contract!Silent, Signal
<1>49. impl_PyStructSequence_InitType => Ordinary("PyStructSequence_InitType")
  BY DEF impl_PyStructSequence_InitType
<1>50. impl_PyStructSequence_New => Ordinary("PyStructSequence_New")
  BY DEF impl_PyStructSequence_New, NewRefOrFail, ObjectCtor, NoLhs
<1>51. impl_PySys_GetObject => Kept
  BY SilentKept, OrdinaryKept DEF impl_PySys_GetObject, Crashes, Contract!Silent, Signal
<1>52. impl_PySys_SetObject => Kept
  BY CrashesKept, SetsItemKept DEF impl_PySys_SetObject
<1>53. impl_PyTraceBack_Here => Kept
  BY SilentKept, OrdinaryKept DEF impl_PyTraceBack_Here, Contract!Silent, Signal
<1>54. impl_PyType_IsSubtype => Ordinary("PyType_IsSubtype")
  BY DEF impl_PyType_IsSubtype
<1>55. impl_PyType_Ready => Ordinary("PyType_Ready")
  BY DEF impl_PyType_Ready, ZeroOrFail
<1>56. impl_PyWeakref_GetObject => Ordinary("PyWeakref_GetObject")
  BY DEF impl_PyWeakref_GetObject, BadInternalCall
<1>57. impl_SWIG_Python_ErrorType => Ordinary("SWIG_Python_ErrorType")
  BY DEF impl_SWIG_Python_ErrorType
<1>58. impl_SWIG_Python_SetErrorMsg => Kept
  BY SetsKept DEF impl_SWIG_Python_SetErrorMsg, Contract!Raisers
<1> QED  BY <1>1, <1>2, <1>3, <1>4, <1>5, <1>6, <1>7, <1>8, <1>9, <1>10, <1>11, <1>12, <1>13,
            <1>14, <1>15, <1>16, <1>17, <1>18, <1>19, <1>20, <1>21, <1>22, <1>23, <1>24,
            <1>25, <1>26, <1>27, <1>28, <1>29, <1>30, <1>31, <1>32, <1>33, <1>34, <1>35,
            <1>36, <1>37, <1>38, <1>39, <1>40, <1>41, <1>42, <1>43, <1>44, <1>45, <1>46,
            <1>47, <1>48, <1>49, <1>50, <1>51, <1>52, <1>53, <1>54, <1>55, <1>56, <1>57,
            <1>58, OrdinaryKept DEF Calls_Other

-----------------------------------------------------------------------------
(***************************************************************************)
(* The theorems.                                                           *)
(***************************************************************************)
LEMMA InitTyped == Init => TypeOK /\ Contract!Init
<1> SUFFICES ASSUME Init  PROVE TypeOK /\ Contract!Init
  OBVIOUS
<1>1. PICK A \in ArgChoices :
           /\ known = [o \in Objects |-> IF o \in A THEN "other" ELSE "absent"]
           /\ tracked = A \cap Objects
           /\ ext = [o \in Objects |-> IF o \in A THEN 1 ELSE 0]
           /\ memory = [b \in Blocks |-> IF b \in A THEN "allocated" ELSE "absent"]
  BY DEF Init
<1>2. known \in [Objects -> Types \cup {"absent"}] /\ Seen = A \cap Objects
  BY <1>1 DEF Types, Seen
<1>3. /\ rel \in [Objects -> Int] /\ ext \in [Objects -> Nat] /\ tracked \subseteq Seen
      /\ \A o \in Objects \ Seen : rel[o] = 0 /\ ext[o] = 0
  BY <1>1, <1>2 DEF Init
<1>4. /\ answer = [fn |-> "none", value |-> "void"] /\ answer.value \in Answers
      /\ pc = "run" /\ complaints = {} /\ calls = 0
      /\ exception = FALSE /\ has_gil = TRUE
      /\ attrs \in [pointer : BOOLEAN, iternext : BOOLEAN, sets : BOOLEAN, negative : BOOLEAN]
  BY DEF Init, Answers
<1>5. memory \in [Blocks -> {"absent", "allocated", "deallocated"}]
  BY <1>1
<1>6. TypeOK
  BY <1>2, <1>3, <1>4, <1>5 DEF TypeOK
<1>7. ext \in [Objects -> {0, 1}] /\ rel = [o \in Objects |-> 0]
  BY <1>1 DEF Init
<1>8. Contract!Init
  BY <1>4, <1>7 DEF Contract!Init
<1> QED  BY <1>6, <1>8

LEMMA StepKept ==
  ASSUME TypeOK, Next
  PROVE  Kept
BY PyArgKept, PyDictKept, PyErrKept, PyEvalKept, PyListKept, PyObjectKept, PySequenceKept,
   PyStringKept, PyTupleKept, PyUnicodeKept, OtherKept, UnknownKept, MarkedKept, ReturnKept
   DEF Next

LEMMA StutterKept ==
  ASSUME TypeOK, UNCHANGED vars
  PROVE  TypeOK' /\ UNCHANGED Contract!vars
BY DEF TypeOK, Seen, vars, refs, Contract!vars

\* After any sequence of calls of the C API the state of the checker is of its
\* type: no reference is counted for an object that the function does not know.
THEOREM ApiTyped == Spec => []TypeOK
<1>1. TypeOK /\ [Next]_vars => TypeOK'
  BY StepKept, StutterKept DEF Kept
<1> QED  BY InitTyped, <1>1, PTL DEF Spec

\* Every handler keeps the contract of the C API, in every state to which the
\* calls before it have led, for any number of objects, blocks and calls: an
\* object that arrives comes with one reference, nobody else gains any, a call
\* that fails sets the error indicator and leaves the references alone, unless
\* it belongs to the functions for which the contract says otherwise, and the
\* return statement reports what the function has broken.
THEOREM HandlersKeepContract == Spec => KeepsContract
<1>1. TypeOK /\ [Next]_vars => [Contract!Next]_(Contract!vars)
  BY StepKept, StutterKept DEF Kept
<1> QED  BY InitTyped, ApiTyped, <1>1, PTL DEF Spec, KeepsContract, Contract!Spec

=============================================================================
