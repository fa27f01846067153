------------------------------ MODULE ValueRanges ------------------------------
(***************************************************************************)
(* The integer values of libcpychecker/absinterp.py: ConcreteValue, of one *)
(* value, and WithinRange, of which the least and the greatest are known.  *)
(* A path of a function is followed: beside what the checker knows of each *)
(* variable there is the value it really has in one execution.             *)
(***************************************************************************)
EXTENDS Integers, FiniteSetsExt

CONSTANTS
    Vars,   \* the variables of the function
    Stmts,  \* the statements that it may have
    SMin, SMax, UMax   \* the limits of its two types, one of them unsigned

Types == {"signed", "unsigned"}
TMin(t) == IF t = "signed" THEN SMin ELSE 0
TMax(t) == IF t = "signed" THEN SMax ELSE UMax

BinaryOps == {"plus", "minus", "mult", "max", "min", "div", "mod", "lshift", "rshift"}
UnaryOps  == {"neg", "abs", "not", "convert"}
Tests     == {"eq", "ne", "lt", "le", "gt", "ge"}

\* op is one of the above, "copy", "call", "cond" (a branch on a test) or "set"
\* (the assignment of a test); type is that of the operands; b may be a constant.
AllStmts == [op : BinaryOps \cup UnaryOps \cup {"copy", "call", "cond", "set"}, test : Tests,
             type : Types, lhs : Vars, a : Vars, b : Vars \cup Int]

ASSUME ConstantsAssumption ==
    /\ SMin \in Int /\ SMax \in Int /\ UMax \in Int
    /\ SMin < 0 /\ 1 < SMax /\ 1 < UMax
    /\ Vars \cap Int = {} /\ Stmts \subseteq AllStmts
    /\ \A s \in Stmts : s.b \in Int => s.b \in TMin(s.type)..TMax(s.type)

NoStmt == [op |-> "none"]
Raised == [op |-> "raised"]

VARIABLES
    typ,   \* the type of each variable
    val,   \* its value in the execution
    abs,   \* the AbstractValue that the state has for it
    same,  \* the variables that have that very object
    stmt   \* the statement to be evaluated again after a split

vars == <<typ, val, abs, same, stmt>>

-----------------------------------------------------------------------------
(***************************************************************************)
(* Values.                                                                 *)
(***************************************************************************)
Concrete(c) == [kind |-> "concrete", lo |-> c, hi |-> c]

\* Mutant of WithinRange: no clamping.
WithinRangeUnclamped(t, lo, hi) == [kind |-> "range", lo |-> lo, hi |-> hi]

\* Clamped to the limits of the type.
WithinRange(t, lo, hi) ==
    [kind |-> "range", lo |-> IF lo < TMin(t) THEN TMin(t) ELSE lo,
                       hi |-> IF hi > TMax(t) THEN TMax(t) ELSE hi]

Make(t, lo, hi) == IF lo = hi THEN Concrete(lo) ELSE WithinRange(t, lo, hi)

UnknownValue(t) == WithinRange(t, TMin(t), TMax(t))

\* The value c may be one that the AbstractValue stands for.
Contains(v, c) == v.lo <= c /\ c <= v.hi

Operand(x) == IF x \in Vars THEN abs[x] ELSE Concrete(x)
Actual(x)  == IF x \in Vars THEN val[x] ELSE x

-----------------------------------------------------------------------------
(***************************************************************************)
(* Arithmetic.                                                             *)
(***************************************************************************)
FloorDiv(a, b) == IF b > 0 THEN a \div b ELSE (-a) \div (-b)

\* eval_binop, on Python's integers, where it raises no error.
Python(op, a, b) ==
    CASE op = "plus"   -> a + b
      [] op = "minus"  -> a - b
      [] op = "mult"   -> a * b
      [] op = "max"    -> IF a < b THEN b ELSE a
      [] op = "min"    -> IF b < a THEN b ELSE a
      [] op = "div"    -> FloorDiv(a, b)
      [] op = "mod"    -> a - b * FloorDiv(a, b)
      [] op = "lshift" -> a * 2^b
      [] op = "rshift" -> a \div 2^b

\* ArithmeticError or ValueError.
Errs(op, b) == (op \in {"div", "mod"} /\ b = 0) \/ (op \in {"lshift", "rshift"} /\ b < 0)

Corners(l, r) == {l.lo, l.hi} \X {r.lo, r.hi}

\* A known value and a range are not combined.
Combines(l, r) == l.kind = "range" \/ r.kind = "concrete"

\* Mutant of BinaryValue: two of the corners.
BinaryValueDiagonal(t, op, l, r) ==
    IF Combines(l, r)
    THEN LET values == {Python(op, l.lo, r.lo), Python(op, l.hi, r.hi)}
         IN  Make(t, Min(values), Max(values))
    ELSE UnknownValue(t)

\* eval_binop of ConcreteValue and of WithinRange.
BinaryValue(t, op, l, r) ==
    IF Combines(l, r)
    THEN LET values == {Python(op, c[1], c[2]) : c \in Corners(l, r)}
         IN  Make(t, Min(values), Max(values))
    ELSE UnknownValue(t)

Abs(c) == IF c < 0 THEN -c ELSE c

\* eval_unary_op of ConcreteValue and of WithinRange, from type t to type u.
UnaryValue(t, u, op, v) ==
    CASE op = "neg" -> Make(u, -v.hi, -v.lo)
      [] op = "abs" -> LET values == {Abs(v.lo), Abs(v.hi)} IN Make(u, Min(values), Max(values))
      [] op = "not" -> IF v.kind = "concrete" THEN Concrete(-v.lo - 1) ELSE UnknownValue(u)
      [] op = "convert" ->
           IF TMin(u) <= v.lo /\ v.hi <= TMax(u) THEN Make(u, v.lo, v.hi) ELSE UnknownValue(u)

\* What the right operand is split into before the corners are tried.
OperandParts(t, op, l, r) ==
    IF l.kind = "concrete" \/ r.kind = "concrete" THEN {}
    ELSE IF op \in {"div", "mod"} /\ r.lo = 0 /\ r.hi > 0
      THEN {Concrete(0), Make(t, 1, r.hi)}
    ELSE IF op \in {"lshift", "rshift"} /\ r.lo < 0 /\ r.hi >= 0
      THEN {Make(t, r.lo, -1), Make(t, 0, r.hi)}
    ELSE {}

-----------------------------------------------------------------------------
(***************************************************************************)
(* Comparisons.                                                            *)
(***************************************************************************)
Raw(a, test, b) ==
    CASE test = "eq" -> a = b
      [] test = "ge" -> a >= b
      [] test = "gt" -> a > b
      [] test = "le" -> a <= b
      [] test = "lt" -> a < b

\* Mutant of Flip: the test is negated.
FlipNegated(test) ==
    CASE test = "eq" -> "eq" [] test = "ge" -> "lt" [] test = "gt" -> "le"
      [] test = "le" -> "gt" [] test = "lt" -> "ge"

\* flip_opname
Flip(test) ==
    CASE test = "eq" -> "eq" [] test = "ge" -> "le" [] test = "gt" -> "lt"
      [] test = "le" -> "ge" [] test = "lt" -> "gt"

\* The values at which a comparison of c with r may change.
Boundaries(c, r) == {n \in {c - 1, c, c + 1, r.lo, r.hi} : Contains(r, n)}

\* The last value of the part that begins at boundary n.
PartEnd(c, r, n) ==
    LET later == {m \in Boundaries(c, r) : m > n}
    IN  IF later = {} THEN r.hi ELSE Min(later) - 1

\* Mutant of EqualParts: the part above c is forgotten.
EqualPartsBelow(t, c, r) ==
    IF ~Contains(r, c) THEN {}
    ELSE {Concrete(c)} \cup (IF r.lo < c THEN {Make(t, r.lo, c - 1)} ELSE {})

\* What a range is split into when it is compared for equality with c.
EqualParts(t, c, r) ==
    IF ~Contains(r, c) THEN {}
    ELSE {Concrete(c)} \cup (IF r.lo < c THEN {Make(t, r.lo, c - 1)} ELSE {})
                       \cup (IF c < r.hi THEN {Make(t, c + 1, r.hi)} ELSE {})

\* ConcreteValue.eval_comparison with a range: what that is split into, adjacent
\* parts with one result being merged.
ComparisonParts(t, test, c, r) ==
    IF test = "eq" THEN EqualParts(t, c, r)
    ELSE IF Raw(c, test, r.lo) = Raw(c, test, r.hi) THEN {}
    ELSE {LET starts == {n \in Boundaries(c, r) : Raw(c, test, n) = result}
          IN  Make(t, Min(starts), Max({PartEnd(c, r, n) : n \in starts})) : result \in BOOLEAN}

\* eval_comparison, when nothing is split: the results that are possible.
Compare(test, l, r, is) ==
    CASE l.kind = "concrete" /\ r.kind = "concrete" -> {Raw(l.lo, test, r.lo)}
      [] l.kind = "concrete" /\ r.kind = "range"    -> {Raw(l.lo, test, r.lo)}
      [] l.kind = "range"    /\ r.kind = "concrete" -> {Raw(r.lo, Flip(test), l.lo)}
      [] l.kind = "range"    /\ r.kind = "range"    ->
           IF test = "eq" /\ is THEN {TRUE}
           ELSE IF test = "eq" /\ ~Contains(l, r.lo) /\ ~Contains(l, r.hi) THEN {FALSE}
           ELSE BOOLEAN

\* eval_condition: the outcomes that it leaves open.
Outcomes(s) ==
    LET l == Operand(s.a)
        r == Operand(s.b)
    IN  IF s.test = "ne" THEN {~o : o \in Compare("eq", l, r, s.b \in same[s.a])}
                         ELSE Compare(s.test, l, r, s.b \in same[s.a])

-----------------------------------------------------------------------------
(***************************************************************************)
(* SplitValue: the alternatives of the value that a statement asks for.    *)
(***************************************************************************)
EqualityFor(test) == IF test = "ne" THEN "eq" ELSE test

\* The operand whose value is split, if one is.
SplitOperand(s) ==
    IF s.op \in BinaryOps \/ Operand(s.a).kind = "concrete" THEN s.b ELSE s.a

Alternatives(s) ==
    LET l == Operand(s.a)
        r == Operand(s.b)
        test == EqualityFor(s.test)
    IN  CASE s.op \in BinaryOps -> OperandParts(s.type, s.op, l, r)
          [] s.op \in {"cond", "set"} /\ l.kind = "concrete" /\ r.kind = "range" ->
                 ComparisonParts(s.type, test, l.lo, r)
          [] s.op \in {"cond", "set"} /\ l.kind = "range" /\ r.kind = "concrete" ->
                 ComparisonParts(s.type, Flip(test), r.lo, l)
          [] OTHER -> {}

\* A PredictedArithmeticError.
Predicted(s) ==
    LET l == Operand(s.a)
        r == Operand(s.b)
    IN  s.op \in BinaryOps /\ Combines(l, r) /\ \E b \in {r.lo, r.hi} : Errs(s.op, b)

\* eval_rhs, when nothing is split: a test that is left open counts as true.
Result(s) ==
    LET l == Operand(s.a)
        r == Operand(s.b)
    IN  CASE s.op \in BinaryOps -> BinaryValue(s.type, s.op, l, r)
          [] s.op \in UnaryOps  -> UnaryValue(s.type, typ[s.lhs], s.op, l)
          [] s.op = "copy"      -> r
          [] s.op = "call"      -> UnknownValue(typ[s.lhs])
          [] s.op = "set"       -> Concrete(IF Outcomes(s) = {FALSE} THEN 0 ELSE 1)

-----------------------------------------------------------------------------
(***************************************************************************)
(* The execution.                                                          *)
(***************************************************************************)
Holds(s) == IF s.test = "ne" THEN Actual(s.a) # Actual(s.b)
                             ELSE Raw(Actual(s.a), s.test, Actual(s.b))

TruncDiv(a, b) ==
    LET q == Abs(a) \div Abs(b) IN IF (a < 0) = (b < 0) THEN q ELSE -q

\* The value of an expression in C, before it is brought to its type.
InC(s) ==
    LET a == Actual(s.a)
        b == Actual(s.b)
    IN  CASE s.op = "div"     -> TruncDiv(a, b)
          [] s.op = "mod"     -> a - b * TruncDiv(a, b)
          [] s.op \in BinaryOps \ {"div", "mod"} -> Python(s.op, a, b)
          [] s.op = "neg"     -> -a
          [] s.op = "abs"     -> Abs(a)
          [] s.op = "not"     -> -a - 1
          [] s.op = "convert" -> a
          [] s.op = "copy"    -> b
          [] s.op = "set"     -> IF Holds(s) THEN 1 ELSE 0

\* What may be assigned: a value of an unsigned type wraps, and so does a
\* converted one (as with GCC), overflow of a signed type is undefined.
Values(s) ==
    LET t == typ[s.lhs]
        size == TMax(t) - TMin(t) + 1
    IN  IF s.op = "call" THEN TMin(t)..TMax(t)
        ELSE IF s.op \in BinaryOps /\ Errs(s.op, Actual(s.b)) THEN {}
        ELSE IF InC(s) \in TMin(t)..TMax(t) THEN {InC(s)}
        ELSE IF t = "signed" /\ s.op # "convert" THEN {}
        ELSE {n \in TMin(t)..TMax(t) : (n - InC(s)) % size = 0}

-----------------------------------------------------------------------------
Init ==
    /\ typ \in [Vars -> Types]
    /\ val \in [Vars -> SMin..SMax \cup 0..UMax]
    /\ \A v \in Vars : val[v] \in TMin(typ[v])..TMax(typ[v])
    /\ abs = [v \in Vars |-> UnknownValue(typ[v])]
    /\ same = [v \in Vars |-> {v}]
    /\ stmt = NoStmt

\* The statement that is next: the same one again after a split.
Evaluated(s) ==
    /\ stmt \in {NoStmt, s}
    /\ typ[s.a] = s.type /\ (s.b \in Vars => typ[s.b] = s.type)
    /\ s.op # "convert" => typ[s.lhs] = s.type

\* SplitValue.split: the world in which the execution is.
Split(s) ==
    /\ Evaluated(s)
    /\ \E alt \in Alternatives(s) :
           /\ Contains(alt, val[SplitOperand(s)])
           /\ abs' = [v \in Vars |-> IF v \in same[SplitOperand(s)] THEN alt ELSE abs[v]]
    /\ stmt' = s
    /\ UNCHANGED <<typ, val, same>>

\* A copy shares the object that is copied, any other value is a new one.
Sharing(s) ==
    LET sharers == {s.lhs} \cup IF s.op = "copy" /\ s.b \in Vars THEN same[s.b] ELSE {}
    IN  [v \in Vars |-> IF v \in sharers THEN sharers ELSE same[v] \ {s.lhs}]

Assign(s) ==
    /\ Evaluated(s) /\ Alternatives(s) = {} /\ ~Predicted(s)
    /\ s.op # "cond"
    /\ \E n \in Values(s) : val' = [val EXCEPT ![s.lhs] = n]
    /\ abs' = [abs EXCEPT ![s.lhs] = Result(s)]
    /\ same' = Sharing(s)
    /\ stmt' = NoStmt
    /\ UNCHANGED typ

\* The branch of the execution, which is followed: the state knows no more than before.
Branch(s) ==
    /\ Evaluated(s) /\ Alternatives(s) = {}
    /\ s.op = "cond" /\ Holds(s) \in Outcomes(s)
    /\ stmt' = NoStmt
    /\ UNCHANGED <<typ, val, abs, same>>

\* The path ends in a PredictedError.
Raise(s) ==
    /\ Evaluated(s) /\ Alternatives(s) = {} /\ Predicted(s)
    /\ stmt' = Raised
    /\ UNCHANGED <<typ, val, abs, same>>

Next == \E s \in Stmts : Split(s) \/ Assign(s) \/ Branch(s) \/ Raise(s)

Spec == Init /\ [][Next]_vars

-----------------------------------------------------------------------------
\* TypeOK: a ConcreteValue is one value, a WithinRange is within its type.
TypeOK ==
    /\ typ \in [Vars -> Types] /\ same \in [Vars -> SUBSET Vars]
    /\ val \in [Vars -> Int] /\ \A v \in Vars : val[v] \in TMin(typ[v])..TMax(typ[v])
    /\ abs \in [Vars -> [kind : {"concrete", "range"}, lo : Int, hi : Int]]
    /\ \A v \in Vars : /\ abs[v].kind = "concrete" => abs[v].lo = abs[v].hi
                       /\ abs[v].kind = "range" => abs[v].lo >= TMin(typ[v]) /\ abs[v].hi <= TMax(typ[v])
    /\ stmt \in Stmts \cup {NoStmt, Raised}

\* Sound: "a value known to be within a given range" is, and variables that share
\* a value are equal, whatever was computed and split before.
Sound ==
    \A v \in Vars :
        /\ Contains(abs[v], val[v])
        /\ \A w \in same[v] : val[v] = val[w] /\ abs[v] = abs[w] /\ typ[v] = typ[w]

\* Of a condition the branch that the execution takes is followed.
BranchesFollowed ==
    \A s \in Stmts : Evaluated(s) /\ s.op = "cond" /\ Alternatives(s) = {} => Holds(s) \in Outcomes(s)

\* No value that an execution may have is lost in a split.
SplitsCover ==
    \A s \in Stmts : Evaluated(s) /\ Alternatives(s) # {} =>
        \E alt \in Alternatives(s) : Contains(alt, val[SplitOperand(s)])

\* After a split the statement is evaluated, not split again.
SplitsSettle == stmt \in Stmts => Alternatives(stmt) = {}

\* "All ranges should have identical value when compared against the
\* concrete value", an assertion of ConcreteValue.eval_comparison.
PartsAgree ==
    \A s \in Stmts : Evaluated(s) /\ s.op = "cond" /\ s.test \notin {"eq", "ne"} =>
        LET l == Operand(s.a)
            r == Operand(s.b)
        IN  l.kind = "range" /\ r.kind = "concrete" =>
                \A n \in Boundaries(r.lo, l) :
                    Raw(r.lo, Flip(s.test), n) = Raw(r.lo, Flip(s.test), PartEnd(r.lo, l, n))

\* SplitsRight: a split loses no value of the execution, its parts are such that
\* the statement gives one result on each, and then it is evaluated.
SplitsRight == SplitsCover /\ PartsAgree /\ SplitsSettle

\* An arithmetic error is predicted only where the execution has one,
\* and wherever it has one on two ranges.
ErrorsReal ==
    \A s \in Stmts : Evaluated(s) /\ s.op \in BinaryOps /\ Alternatives(s) = {} =>
        LET real == Errs(s.op, Actual(s.b))
        IN  /\ Predicted(s) => real
            /\ real /\ Combines(Operand(s.a), Operand(s.b)) => Predicted(s)

\* OutcomesReal: where the analysis goes on, and where it stops with an error, is
\* where the execution does.
OutcomesReal == BranchesFollowed /\ ErrorsReal
=============================================================================
