-------------------------- MODULE ValueRanges_proofs --------------------------
(***************************************************************************)
(* For types of any size: what is known of the variables stays true of any *)
(* execution, whatever is computed and split, as long as the statements    *)
(* are ones for which the corners of two ranges bound the result.          *)
(***************************************************************************)
EXTENDS ValueRanges, TLAPS

-----------------------------------------------------------------------------
(***************************************************************************)
(* The least and the greatest of a few integers.                           *)
(***************************************************************************)
HasMin(S) == S = {} \/ \E x \in S : \A y \in S : x <= y
HasMax(S) == S = {} \/ \E x \in S : \A y \in S : x >= y

LEMMA HasBoundsUnion ==
    ASSUME NEW S \in SUBSET Int, NEW T \in SUBSET Int,
           HasMin(S), HasMin(T), HasMax(S), HasMax(T)
    PROVE  HasMin(S \cup T) /\ HasMax(S \cup T)
<1>1. CASE S = {} \/ T = {}
  BY <1>1, Zenon DEF HasMin, HasMax
<1>2. CASE S # {} /\ T # {}
  <2>1. PICK s \in S, t \in T : (\A y \in S : s <= y) /\ (\A y \in T : t <= y)
    BY <1>2 DEF HasMin
  <2>2. HasMin(S \cup T)
    BY <2>1, SMT DEF HasMin
  <2>3. PICK u \in S, v \in T : (\A y \in S : u >= y) /\ (\A y \in T : v >= y)
    BY <1>2 DEF HasMax
  <2>4. HasMax(S \cup T)
    BY <2>3, SMT DEF HasMax
  <2>5. QED  BY <2>2, <2>4
<1>3. QED  BY <1>1, <1>2

LEMMA HasBoundsOne ==
    ASSUME NEW a \in Int, NEW S \in SUBSET {a}
    PROVE  HasMin(S) /\ HasMax(S)
<1>1. S = {} \/ S = {a}
  OBVIOUS
<1>2. a <= a /\ a >= a
  BY SMT
<1>3. QED  BY <1>1, <1>2, Zenon DEF HasMin, HasMax

LEMMA HasBounds ==
    ASSUME NEW a \in Int, NEW b \in Int, NEW c \in Int, NEW d \in Int, NEW e \in Int,
           NEW S \in SUBSET {a, b, c, d, e}
    PROVE  HasMin(S) /\ HasMax(S)
<1> DEFINE ab == (S \cap {a}) \cup (S \cap {b})
           abc == ab \cup (S \cap {c})
           abcd == abc \cup (S \cap {d})
<1>1. HasMin(ab) /\ HasMax(ab)
  BY HasBoundsUnion, HasBoundsOne
<1>2. HasMin(abc) /\ HasMax(abc)
  BY <1>1, HasBoundsUnion, HasBoundsOne
<1>3. HasMin(abcd) /\ HasMax(abcd)
  BY <1>2, HasBoundsUnion, HasBoundsOne
<1>4. HasMin(abcd \cup (S \cap {e})) /\ HasMax(abcd \cup (S \cap {e}))
  BY <1>3, HasBoundsUnion, HasBoundsOne
<1>5. S = abcd \cup (S \cap {e})
  OBVIOUS
<1>6. QED  BY <1>4, <1>5

\* Min and Max of at most five integers are the least and the greatest of them.
LEMMA MinMax ==
    ASSUME NEW a \in Int, NEW b \in Int, NEW c \in Int, NEW d \in Int, NEW e \in Int,
           NEW S \in SUBSET {a, b, c, d, e}, S # {}
    PROVE  /\ Min(S) \in S /\ \A y \in S : Min(S) <= y
           /\ Max(S) \in S /\ \A y \in S : Max(S) >= y
<1>1. HasMin(S) /\ HasMax(S)
  BY HasBounds, Zenon
<1>2. (\E x \in S : \A y \in S : x <= y) /\ (\E x \in S : \A y \in S : x >= y)
  BY <1>1 DEF HasMin, HasMax
<1>3. QED  BY <1>2, Zenon DEF Min, Max

-----------------------------------------------------------------------------
(***************************************************************************)
(* Values of a type.                                                       *)
(***************************************************************************)
Fits(t, v) ==
    /\ v \in [kind : {"concrete", "range"}, lo : Int, hi : Int]
    /\ v.kind = "concrete" => v.lo = v.hi
    /\ v.kind = "range" => v.lo >= TMin(t) /\ v.hi <= TMax(t)

InType(t, n) == n \in TMin(t)..TMax(t)

LEMMA Limits ==
    ASSUME NEW t \in Types
    PROVE  TMin(t) \in Int /\ TMax(t) \in Int /\ TMin(t) <= 0 /\ 1 < TMax(t)
BY ConstantsAssumption DEF TMin, TMax, Types

LEMMA MakeFits ==
    ASSUME NEW t \in Types, NEW lo \in Int, NEW hi \in Int
    PROVE  Fits(t, Make(t, lo, hi)) /\ Fits(t, Concrete(lo)) /\ Fits(t, WithinRange(t, lo, hi))
BY Limits, SMT DEF Make, Concrete, WithinRange, Fits

LEMMA MakeContains ==
    ASSUME NEW t \in Types, NEW lo \in Int, NEW hi \in Int, NEW n \in Int, InType(t, n),
           lo <= n, n <= hi
    PROVE  Contains(Make(t, lo, hi), n)
BY Limits, SMT DEF Make, Concrete, WithinRange, Contains, InType

LEMMA UnknownContains ==
    ASSUME NEW t \in Types, NEW n \in Int, InType(t, n)
    PROVE  Fits(t, UnknownValue(t)) /\ Contains(UnknownValue(t), n)
BY Limits, MakeFits, SMT DEF UnknownValue, WithinRange, Contains, InType, Fits

-----------------------------------------------------------------------------
(***************************************************************************)
(* Corners.                                                                *)
(***************************************************************************)
\* The operations whose result is between those at the corners, and which have
\* in C the value that they have in Python.
BoundedOp(t, op) ==
    \/ op \in {"max", "min"}
    \/ t = "signed" /\ op \in {"plus", "minus", "mult"}
    \/ t = "unsigned" /\ op = "div"

Corner(l, r, c, d) == c \in {l.lo, l.hi} /\ d \in {r.lo, r.hi}

LEMMA ProductMonotonic ==
    ASSUME NEW x \in Int, NEW y \in Int, NEW z \in Int, x <= y
    PROVE  /\ 0 <= z => x * z <= y * z
           /\ z <= 0 => y * z <= x * z
<1>1. (y - x) * z = y * z - x * z
  BY SMT
<1>2. 0 <= z => 0 <= (y - x) * z
  BY SMT
<1>3. z <= 0 => (y - x) * z <= 0
  BY SMT
<1>4. x * z \in Int /\ y * z \in Int
  BY SMT
<1>5. QED  BY <1>1, <1>2, <1>3, <1>4, SMT

LEMMA ProductCommutes ==
    ASSUME NEW x \in Int, NEW y \in Int
    PROVE  x * y = y * x
BY SMT

\* With one operand fixed the product is between those at the ends of the other.
LEMMA ProductBetween ==
    ASSUME NEW p \in Int, NEW q \in Int, NEW n \in Int, NEW z \in Int, p <= n, n <= q
    PROVE  /\ \E c \in {p, q} : c * z <= n * z
           /\ \E c \in {p, q} : n * z <= c * z
<1>1. CASE 0 <= z
  BY <1>1, ProductMonotonic
<1>2. CASE z <= 0
  BY <1>2, ProductMonotonic
<1>3. QED  BY <1>1, <1>2, SMT

LEMMA ProductCorners ==
    ASSUME NEW p \in Int, NEW q \in Int, NEW n \in Int, p <= n, n <= q,
           NEW u \in Int, NEW v \in Int, NEW m \in Int, u <= m, m <= v
    PROVE  /\ \E c \in {p, q}, d \in {u, v} : c * d <= n * m
           /\ \E c \in {p, q}, d \in {u, v} : n * m <= c * d
<1>1. PICK c1 \in {p, q} : c1 * m <= n * m
  BY ProductBetween
<1>2. PICK d1 \in {u, v} : d1 * c1 <= m * c1
  BY ProductBetween
<1>3. c1 * d1 <= n * m
  <2>1. c1 \in Int /\ d1 \in Int
    OBVIOUS
  <2>2. c1 * d1 = d1 * c1 /\ c1 * m = m * c1
    BY <2>1, ProductCommutes
  <2>3. c1 * d1 \in Int /\ c1 * m \in Int /\ n * m \in Int
    BY <2>1, SMT
  <2>4. QED  BY <1>1, <1>2, <2>2, <2>3, SMT
<1>4. PICK c2 \in {p, q} : n * m <= c2 * m
  BY ProductBetween
<1>5. PICK d2 \in {u, v} : m * c2 <= d2 * c2
  BY ProductBetween
<1>6. n * m <= c2 * d2
  <2>1. c2 \in Int /\ d2 \in Int
    OBVIOUS
  <2>2. c2 * d2 = d2 * c2 /\ c2 * m = m * c2
    BY <2>1, ProductCommutes
  <2>3. c2 * d2 \in Int /\ c2 * m \in Int /\ n * m \in Int
    BY <2>1, SMT
  <2>4. QED  BY <1>4, <1>5, <2>2, <2>3, SMT
<1>7. QED  BY <1>3, <1>6

\* The quotient of naturals grows with the dividend and falls with the divisor.
LEMMA QuotientMonotonic ==
    ASSUME NEW a \in Nat, NEW b \in Nat, NEW c \in Nat, NEW d \in Nat,
           a <= c, 0 < d, d <= b
    PROVE  a \div b \in Nat /\ c \div d \in Nat /\ a \div b <= c \div d
<1> DEFINE p == a \div b
           q == c \div d
<1>1. p \in Int /\ q \in Int /\ b * p <= a /\ c < d * (q + 1) /\ 0 <= p /\ 0 <= q
  BY SMT
<1> HIDE DEF p, q
<1>2. d * p <= b * p
  BY <1>1, ProductMonotonic
<1>3. SUFFICES ASSUME q + 1 <= p PROVE FALSE
  BY <1>1, SMT DEF p, q
<1>4. (q + 1) * d <= p * d
  BY <1>1, <1>3, ProductMonotonic
<1>5. (q + 1) * d = d * (q + 1) /\ p * d = d * p
  BY <1>1, ProductCommutes
<1>6. d * p \in Int /\ b * p \in Int /\ d * (q + 1) \in Int
  BY <1>1, SMT
<1>7. QED  BY <1>1, <1>2, <1>4, <1>5, <1>6, SMT

\* For operands from p..q and from u..v, the corners bound the result for n and m.
BoundedByCorners(op, p, q, n, u, v, m) ==
    /\ \A c \in {p, q, n}, d \in {u, v, m} : Python(op, c, d) \in Int
    /\ \E c \in {p, q}, d \in {u, v} : Python(op, c, d) <= Python(op, n, m)
    /\ \E c \in {p, q}, d \in {u, v} : Python(op, n, m) <= Python(op, c, d)

LEMMA PythonCorners ==
    ASSUME NEW p \in Int, NEW q \in Int, NEW n \in Int, p <= n, n <= q,
           NEW u \in Int, NEW v \in Int, NEW m \in Int, u <= m, m <= v,
           NEW op, op \in {"plus", "minus", "mult", "max", "min", "div"},
           op = "div" => 0 <= p /\ 0 < u
    PROVE  BoundedByCorners(op, p, q, n, u, v, m)
<1> USE DEF BoundedByCorners
<1>1. CASE op = "plus"
  <2>1. \A c, d : Python(op, c, d) = c + d
    BY <1>1 DEF Python
  <2>2. p + u <= n + m /\ n + m <= q + v
    BY SMT
  <2>3. \A c \in {p, q, n}, d \in {u, v, m} : c + d \in Int
    BY SMT
  <2>4. QED  BY <2>1, <2>2, <2>3, Zenon
<1>2. CASE op = "minus"
  <2>1. \A c, d : Python(op, c, d) = c - d
    BY <1>2 DEF Python
  <2>2. p - v <= n - m /\ n - m <= q - u
    BY SMT
  <2>3. \A c \in {p, q, n}, d \in {u, v, m} : c - d \in Int
    BY SMT
  <2>4. QED  BY <2>1, <2>2, <2>3, Zenon
<1>3. CASE op = "mult"
  <2>1. \A c, d : Python(op, c, d) = c * d
    BY <1>3 DEF Python
  <2>2. \A c \in {p, q, n}, d \in {u, v, m} : c * d \in Int
    BY SMT
  <2>3. /\ \E c \in {p, q}, d \in {u, v} : c * d <= n * m
        /\ \E c \in {p, q}, d \in {u, v} : n * m <= c * d
    BY ProductCorners
  <2>4. QED  BY <2>1, <2>2, <2>3, Zenon
<1>4. CASE op = "max"
  <2>1. \A c, d : Python(op, c, d) = IF c < d THEN d ELSE c
    BY <1>4 DEF Python
  <2>2. QED  BY <2>1, SMT
<1>5. CASE op = "min"
  <2>1. \A c, d : Python(op, c, d) = IF d < c THEN d ELSE c
    BY <1>5 DEF Python
  <2>2. QED  BY <2>1, SMT
<1>6. CASE op = "div"
  <2>1. \A c, d \in Int : d > 0 => Python(op, c, d) = c \div d
    BY <1>6 DEF Python, FloorDiv
  <2>2. \A c \in {p, q, n}, d \in {u, v, m} : c \in Nat /\ d \in Nat /\ d > 0
    BY <1>6, SMT
  <2>3. \A c \in {p, q, n}, d \in {u, v, m} : c \div d \in Nat
    BY <2>2, QuotientMonotonic
  <2>4. p \div v <= n \div m
    <3>1. p \in Nat /\ v \in Nat /\ n \in Nat /\ m \in Nat /\ p <= n /\ 0 < m /\ m <= v
      BY <2>2
    <3>2. QED  BY <3>1, QuotientMonotonic
  <2>5. n \div m <= q \div u
    <3>1. n \in Nat /\ m \in Nat /\ q \in Nat /\ u \in Nat /\ n <= q /\ 0 < u /\ u <= m
      BY <2>2
    <3>2. QED  BY <3>1, QuotientMonotonic
  <2>6. \A c \in {p, q, n}, d \in {u, v, m} : Python(op, c, d) = c \div d
    BY <2>1, <2>2
  <2>7. \A k : k \in Nat => k \in Int
    OBVIOUS
  <2>8. QED  BY <2>3, <2>4, <2>5, <2>6, <2>7, Zenon
<1>7. QED  BY <1>1, <1>2, <1>3, <1>4, <1>5, <1>6

\* Of two values that are combined, each within its AbstractValue, the result is
\* within that of eval_binop.
LEMMA BinaryContains ==
    ASSUME NEW t \in Types, NEW op, NEW l, NEW r, Fits(t, l), Fits(t, r), Combines(l, r),
           NEW a \in Int, NEW b \in Int, Contains(l, a), Contains(r, b),
           op \in {"plus", "minus", "mult", "max", "min", "div"},
           op = "div" => 0 <= l.lo /\ 0 < r.lo
    PROVE  /\ Fits(t, BinaryValue(t, op, l, r))
           /\ InType(t, Python(op, a, b)) => Contains(BinaryValue(t, op, l, r), Python(op, a, b))
<1> DEFINE P(c, d) == Python(op, c, d)
           values == {P(c[1], c[2]) : c \in Corners(l, r)}
           four == {P(l.lo, r.lo), P(l.lo, r.hi), P(l.hi, r.lo), P(l.hi, r.hi)}
<1>1. /\ l.lo \in Int /\ l.hi \in Int /\ l.lo <= a /\ a <= l.hi
      /\ r.lo \in Int /\ r.hi \in Int /\ r.lo <= b /\ b <= r.hi
  BY DEF Fits, Contains
<1>2. /\ \A c \in {l.lo, l.hi, a}, d \in {r.lo, r.hi, b} : P(c, d) \in Int
      /\ \E c \in {l.lo, l.hi}, d \in {r.lo, r.hi} : P(c, d) <= P(a, b)
      /\ \E c \in {l.lo, l.hi}, d \in {r.lo, r.hi} : P(a, b) <= P(c, d)
  <2>1. \A p, q, u, v \in Int :
            /\ p <= a /\ a <= q /\ u <= b /\ b <= v
            /\ op = "div" => 0 <= p /\ 0 < u
            => BoundedByCorners(op, p, q, a, u, v, b)
    BY PythonCorners
  <2>2. BoundedByCorners(op, l.lo, l.hi, a, r.lo, r.hi, b)
    BY <1>1, <2>1
  <2>3. QED  BY <2>2 DEF BoundedByCorners
<1>3. BinaryValue(t, op, l, r) = Make(t, Min(values), Max(values))
  BY DEF BinaryValue
<1>4. values \subseteq four /\ values # {}
      /\ \A c \in {l.lo, l.hi}, d \in {r.lo, r.hi} : P(c, d) \in values
  <2>1. Corners(l, r) = {<<l.lo, r.lo>>, <<l.lo, r.hi>>, <<l.hi, r.lo>>, <<l.hi, r.hi>>}
    BY DEF Corners
  <2> HIDE DEF P
  <2>2. QED  BY <2>1
<1> HIDE DEF P, values
<1>5. /\ P(l.lo, r.lo) \in Int /\ P(l.lo, r.hi) \in Int
      /\ P(l.hi, r.lo) \in Int /\ P(l.hi, r.hi) \in Int /\ P(a, b) \in Int
  BY <1>2
<1>6. /\ Min(values) \in values /\ \A y \in values : Min(values) <= y
      /\ Max(values) \in values /\ \A y \in values : Max(values) >= y
  <2>1. values \in SUBSET {P(l.lo, r.lo), P(l.lo, r.hi), P(l.hi, r.lo), P(l.hi, r.hi), P(a, b)}
    BY <1>4
  <2>2. QED  BY <1>4, <1>5, <2>1, MinMax
<1>7. Min(values) \in Int /\ Max(values) \in Int
  BY <1>4, <1>5, <1>6
<1>8. Min(values) <= P(a, b) /\ P(a, b) <= Max(values)
  <2>1. PICK c1 \in {l.lo, l.hi}, d1 \in {r.lo, r.hi} : P(c1, d1) <= P(a, b)
    BY <1>2
  <2>2. PICK c2 \in {l.lo, l.hi}, d2 \in {r.lo, r.hi} : P(a, b) <= P(c2, d2)
    BY <1>2
  <2>3. P(c1, d1) \in Int /\ P(c2, d2) \in Int /\ Min(values) <= P(c1, d1) /\ P(c2, d2) <= Max(values)
    BY <1>2, <1>4, <1>6
  <2>4. QED  BY <1>5, <1>7, <2>1, <2>2, <2>3, SMT
<1>9. InType(t, P(a, b)) => Contains(Make(t, Min(values), Max(values)), P(a, b))
  BY <1>5, <1>7, <1>8, MakeContains
<1>10. QED  BY <1>3, <1>7, <1>9, MakeFits DEF P

LEMMA UnaryContains ==
    ASSUME NEW t \in Types, NEW u \in Types, NEW op \in {"neg", "not", "convert"}, NEW v, Fits(t, v),
           NEW a \in Int, Contains(v, a)
    PROVE  /\ Fits(u, UnaryValue(t, u, op, v))
           /\ op = "neg" /\ InType(u, -a) => Contains(UnaryValue(t, u, op, v), -a)
           /\ op = "not" /\ InType(u, -a - 1) => Contains(UnaryValue(t, u, op, v), -a - 1)
           /\ op = "convert" =>
                \A n \in Int : InType(u, n) /\ (InType(u, a) => n = a) =>
                                   Contains(UnaryValue(t, u, op, v), n)
<1>1. v.lo \in Int /\ v.hi \in Int /\ v.lo <= a /\ a <= v.hi
  BY DEF Fits, Contains
<1>2. CASE op = "neg"
  <2>1. UnaryValue(t, u, op, v) = Make(u, -v.hi, -v.lo)
    BY <1>2 DEF UnaryValue
  <2>2. -v.hi \in Int /\ -v.lo \in Int /\ -a \in Int /\ -v.hi <= -a /\ -a <= -v.lo
    BY <1>1, SMT
  <2>3. QED  BY <1>2, <2>1, <2>2, MakeFits, MakeContains
<1>3. CASE op = "not"
  <2>1. UnaryValue(t, u, op, v) = IF v.kind = "concrete" THEN Concrete(-v.lo - 1) ELSE UnknownValue(u)
    BY <1>3 DEF UnaryValue
  <2>2. -v.lo - 1 \in Int /\ -a - 1 \in Int
    BY <1>1, SMT
  <2>3. CASE v.kind = "concrete"
    <3>1. v.lo = a
      BY <1>1, <2>3, SMT DEF Fits
    <3>2. Contains(Concrete(-a - 1), -a - 1)
      BY <2>2, SMT DEF Contains, Concrete
    <3>3. QED  BY <1>3, <2>1, <2>2, <2>3, <3>1, <3>2, MakeFits
  <2>4. CASE v.kind # "concrete"
    <3>1. 0 \in Int /\ InType(u, 0)
      BY Limits, SMT DEF InType
    <3>2. Fits(u, UnknownValue(u))
      BY <3>1, UnknownContains
    <3>3. QED  BY <1>3, <2>1, <2>2, <2>4, <3>2, UnknownContains
  <2>5. QED  BY <2>3, <2>4
<1>4. CASE op = "convert"
  <2>1. UnaryValue(t, u, op, v) =
          IF TMin(u) <= v.lo /\ v.hi <= TMax(u) THEN Make(u, v.lo, v.hi) ELSE UnknownValue(u)
    BY <1>4 DEF UnaryValue
  <2>2. CASE TMin(u) <= v.lo /\ v.hi <= TMax(u)
    <3>1. InType(u, a)
      BY <1>1, <2>2, Limits, SMT DEF InType
    <3>2. QED  BY <1>1, <1>4, <2>1, <2>2, <3>1, MakeFits, MakeContains
  <2>3. CASE ~(TMin(u) <= v.lo /\ v.hi <= TMax(u))
    <3>1. 0 \in Int /\ InType(u, 0)
      BY Limits, SMT DEF InType
    <3>2. Fits(u, UnknownValue(u))
      BY <3>1, UnknownContains
    <3>3. QED  BY <1>4, <2>1, <2>3, <3>2, UnknownContains
  <2>4. QED  BY <2>2, <2>3
<1>5. QED  BY <1>2, <1>3, <1>4

-----------------------------------------------------------------------------
(***************************************************************************)
(* The parts into which a comparison splits a range.                       *)
(***************************************************************************)
RawTests == {"eq", "ge", "gt", "le", "lt"}

\* m and n are on one side of c.
SameSide(c, m, n) == (m < c <=> n < c) /\ (m = c <=> n = c)

LEMMA RawBoolean ==
    ASSUME NEW test \in RawTests, NEW c \in Int, NEW n \in Int
    PROVE  /\ Raw(c, test, n) \in BOOLEAN
           /\ Flip(test) \in RawTests
           /\ Raw(c, Flip(test), n) <=> Raw(n, test, c)
<1>1. Flip(test) \in RawTests
  BY DEF RawTests, Flip
<1>2. Raw(c, test, n) \in BOOLEAN
  <2>1. CASE test = "eq"
    BY <2>1 DEF Raw
  <2>2. CASE test = "ge"
    BY <2>2 DEF Raw
  <2>3. CASE test = "gt"
    BY <2>3 DEF Raw
  <2>4. CASE test = "le"
    BY <2>4 DEF Raw
  <2>5. CASE test = "lt"
    BY <2>5 DEF Raw
  <2>6. QED  BY <2>1, <2>2, <2>3, <2>4, <2>5 DEF RawTests
<1>3. Raw(c, Flip(test), n) <=> Raw(n, test, c)
  <2>1. CASE test = "eq"
    BY <2>1, SMT DEF Raw, Flip
  <2>2. CASE test = "ge"
    BY <2>2, SMT DEF Raw, Flip
  <2>3. CASE test = "gt"
    BY <2>3, SMT DEF Raw, Flip
  <2>4. CASE test = "le"
    BY <2>4, SMT DEF Raw, Flip
  <2>5. CASE test = "lt"
    BY <2>5, SMT DEF Raw, Flip
  <2>6. QED  BY <2>1, <2>2, <2>3, <2>4, <2>5 DEF RawTests
<1>4. QED  BY <1>1, <1>2, <1>3

LEMMA RawSide ==
    ASSUME NEW test \in RawTests, NEW c \in Int, NEW m \in Int, NEW n \in Int, SameSide(c, m, n)
    PROVE  Raw(c, test, m) = Raw(c, test, n)
BY SMT DEF Raw, RawTests, SameSide

\* A range that has a value.
Proper(t, r) == Fits(t, r) /\ r.lo <= r.hi

LEMMA BoundariesFacts ==
    ASSUME NEW t \in Types, NEW r, Proper(t, r), NEW c \in Int
    PROVE  /\ Boundaries(c, r) \in SUBSET {c - 1, c, c + 1, r.lo, r.hi}
           /\ r.lo \in Boundaries(c, r) /\ r.hi \in Boundaries(c, r)
           /\ \A n \in Boundaries(c, r) : n \in Int /\ r.lo <= n /\ n <= r.hi
           /\ \A n \in {c, c + 1} : r.lo <= n /\ n <= r.hi => n \in Boundaries(c, r)
           /\ c - 1 \in Int /\ c + 1 \in Int /\ r.lo \in Int /\ r.hi \in Int
BY SMT DEF Boundaries, Contains, Proper, Fits

LEMMA MinMaxBoundaries ==
    ASSUME NEW t \in Types, NEW r, Proper(t, r), NEW c \in Int,
           NEW S \in SUBSET Boundaries(c, r), S # {}
    PROVE  /\ Min(S) \in S /\ \A y \in S : Min(S) <= y
           /\ Max(S) \in S /\ \A y \in S : Max(S) >= y
<1>1. S \in SUBSET {c - 1, c, c + 1, r.lo, r.hi}
      /\ c - 1 \in Int /\ c + 1 \in Int /\ r.lo \in Int /\ r.hi \in Int
  BY BoundariesFacts
<1>2. QED  BY <1>1, MinMax

LEMMA PartEndFacts ==
    ASSUME NEW t \in Types, NEW r, Proper(t, r), NEW c \in Int, NEW n \in Boundaries(c, r)
    PROVE  /\ PartEnd(c, r, n) \in Int /\ n <= PartEnd(c, r, n) /\ PartEnd(c, r, n) <= r.hi
           /\ \A k \in Boundaries(c, r) : k > n => PartEnd(c, r, n) < k
           /\ PartEnd(c, r, n) # r.hi => \E k \in Boundaries(c, r) : k > n /\ PartEnd(c, r, n) = k - 1
<1> DEFINE later == {m \in Boundaries(c, r) : m > n}
<1>1. PartEnd(c, r, n) = IF later = {} THEN r.hi ELSE Min(later) - 1
  BY DEF PartEnd
<1>2. /\ \A k \in Boundaries(c, r) : k \in Int /\ k <= r.hi
      /\ r.hi \in Int
  BY BoundariesFacts
<1>3. CASE later = {}
  BY <1>1, <1>2, <1>3, SMT
<1>4. CASE later # {}
  <2>1. Min(later) \in later /\ \A y \in later : Min(later) <= y
    BY <1>4, MinMaxBoundaries
  <2> HIDE DEF later
  <2>2. Min(later) \in Boundaries(c, r) /\ Min(later) > n
    BY <2>1 DEF later
  <2>3. \A k \in Boundaries(c, r) : k > n => Min(later) <= k
    BY <2>1 DEF later
  <2>4. QED  BY <1>1, <1>2, <1>4, <2>2, <2>3, SMT
<1>5. QED  BY <1>3, <1>4

\* Within a part nothing changes sides.
LEMMA PartOneSided ==
    ASSUME NEW t \in Types, NEW r, Proper(t, r), NEW c \in Int, NEW n \in Boundaries(c, r),
           NEW m \in Int, n <= m, m <= PartEnd(c, r, n)
    PROVE  SameSide(c, m, n)
<1>1. /\ PartEnd(c, r, n) \in Int /\ PartEnd(c, r, n) <= r.hi
      /\ \A k \in Boundaries(c, r) : k > n => PartEnd(c, r, n) < k
  BY PartEndFacts
<1>2. /\ n \in Int /\ r.lo <= n /\ n <= r.hi /\ r.lo \in Int /\ r.hi \in Int
      /\ \A k \in {c, c + 1} : r.lo <= k /\ k <= r.hi => k \in Boundaries(c, r)
  BY BoundariesFacts
<1>3. n < c => m < c
  BY <1>1, <1>2, SMT
<1>4. n = c => m = c
  BY <1>1, <1>2, SMT
<1>5. n > c => m > c
  BY <1>2, SMT
<1>6. QED  BY <1>2, <1>3, <1>4, <1>5, SMT DEF SameSide

\* Every value of the range is in a part.
LEMMA PartsCover ==
    ASSUME NEW t \in Types, NEW r, Proper(t, r), NEW c \in Int, NEW m \in Int, Contains(r, m)
    PROVE  \E n \in Boundaries(c, r) : n <= m /\ m <= PartEnd(c, r, n)
<1> DEFINE earlier == {k \in Boundaries(c, r) : k <= m}
<1>1. /\ r.lo \in Boundaries(c, r) /\ r.lo <= m /\ m <= r.hi /\ r.hi \in Int
      /\ \A k \in Boundaries(c, r) : k \in Int
  BY BoundariesFacts DEF Contains
<1>2. earlier # {}
  BY <1>1
<1>3. Max(earlier) \in earlier /\ \A y \in earlier : Max(earlier) >= y
  BY <1>2, MinMaxBoundaries
<1> HIDE DEF earlier
<1>4. PICK n \in Boundaries(c, r) : n <= m /\ \A y \in Boundaries(c, r) : y <= m => n >= y
  BY <1>3 DEF earlier
<1>5. /\ PartEnd(c, r, n) \in Int
      /\ PartEnd(c, r, n) # r.hi => \E k \in Boundaries(c, r) : k > n /\ PartEnd(c, r, n) = k - 1
  BY PartEndFacts
<1>6. m <= PartEnd(c, r, n)
  BY <1>1, <1>4, <1>5, SMT
<1>7. QED  BY <1>4, <1>6

-----------------------------------------------------------------------------
\* The values at which the parts with one result begin, and at which they end.
Starts(test, c, r, result) == {n \in Boundaries(c, r) : Raw(c, test, n) = result}
Ends(test, c, r, result)   == {PartEnd(c, r, n) : n \in Starts(test, c, r, result)}
Part(t, test, c, r, result) ==
    Make(t, Min(Starts(test, c, r, result)), Max(Ends(test, c, r, result)))

\* What merging the parts with one result yields.
LEMMA PartFacts ==
    ASSUME NEW t \in Types, NEW test \in RawTests, NEW c \in Int, NEW r, Proper(t, r), r.kind = "range",
           NEW result \in BOOLEAN, Raw(c, test, r.lo) = result \/ Raw(c, test, r.hi) = result
    PROVE  /\ Fits(t, Part(t, test, c, r, result))
           /\ \A m \in Int : Contains(r, m) /\ Raw(c, test, m) = result =>
                                 Contains(Part(t, test, c, r, result), m)
           /\ Raw(c, test, Part(t, test, c, r, result).lo) = result
           /\ Raw(c, test, Part(t, test, c, r, result).hi) = result
<1> DEFINE S == Starts(test, c, r, result)
           E == Ends(test, c, r, result)
<1>1. /\ \A n \in Boundaries(c, r) : n \in Int /\ r.lo <= n /\ n <= r.hi
      /\ r.lo \in Boundaries(c, r) /\ r.hi \in Boundaries(c, r)
      /\ r.lo \in Int /\ r.hi \in Int /\ c - 1 \in Int /\ c + 1 \in Int
  BY BoundariesFacts
<1>2. S \in SUBSET Boundaries(c, r) /\ S # {}
  BY <1>1 DEF Starts
<1>3. Min(S) \in S /\ \A y \in S : Min(S) <= y
  BY <1>2, MinMaxBoundaries
<1>4. \A n \in S : /\ PartEnd(c, r, n) \in Int /\ n <= PartEnd(c, r, n) /\ PartEnd(c, r, n) <= r.hi
                   /\ Raw(c, test, PartEnd(c, r, n)) = result
  <2> TAKE n \in S
  <2>1. n \in Boundaries(c, r) /\ Raw(c, test, n) = result /\ n \in Int
    BY <1>1 DEF Starts
  <2>2. PartEnd(c, r, n) \in Int /\ n <= PartEnd(c, r, n) /\ PartEnd(c, r, n) <= r.hi
    BY <2>1, PartEndFacts
  <2>3. PartEnd(c, r, n) <= PartEnd(c, r, n)
    BY <2>2, SMT
  <2>4. SameSide(c, PartEnd(c, r, n), n)
    BY <2>1, <2>2, <2>3, PartOneSided
  <2>5. QED  BY <2>1, <2>2, <2>4, RawSide
<1>5. Max(E) \in E /\ \A y \in E : Max(E) >= y
  <2> DEFINE e(n) == IF n \in Boundaries(c, r) THEN PartEnd(c, r, n) ELSE 0
  <2>1. \A n : e(n) \in Int
    BY PartEndFacts
  <2>2. E \in SUBSET {e(c - 1), e(c), e(c + 1), e(r.lo), e(r.hi)}
    <3>1. Boundaries(c, r) \in SUBSET {c - 1, c, c + 1, r.lo, r.hi}
      BY BoundariesFacts
    <3>2. \A n \in S : PartEnd(c, r, n) = e(n) /\ n \in {c - 1, c, c + 1, r.lo, r.hi}
      BY <1>2, <3>1
    <3> HIDE DEF e
    <3>3. QED  BY <3>2 DEF Ends
  <2>3. E # {}
    BY <1>2 DEF Ends
  <2> HIDE DEF e, E
  <2>4. QED  BY <2>1, <2>2, <2>3, MinMax
<1>6. PICK k \in S : Max(E) = PartEnd(c, r, k)
  BY <1>5 DEF Ends
<1>7. /\ Min(S) \in Int /\ r.lo <= Min(S) /\ Max(E) \in Int /\ Max(E) <= r.hi
      /\ Raw(c, test, Min(S)) = result /\ Raw(c, test, Max(E)) = result
      /\ Min(S) <= Max(E)
  <2>1. Min(S) \in Boundaries(c, r) /\ Raw(c, test, Min(S)) = result
    BY <1>3 DEF Starts
  <2>2. Min(S) <= k /\ k \in Int /\ k <= Max(E) /\ Max(E) \in Int
    BY <1>1, <1>2, <1>3, <1>4, <1>6
  <2>3. QED  BY <1>1, <1>4, <1>6, <2>1, <2>2, SMT
<1>8. Part(t, test, c, r, result) = Make(t, Min(S), Max(E))
  BY DEF Part
<1>9. \A m \in Int : Contains(r, m) /\ Raw(c, test, m) = result =>
                         Min(S) <= m /\ m <= Max(E)
  <2> SUFFICES ASSUME NEW m \in Int, Contains(r, m), Raw(c, test, m) = result
               PROVE  Min(S) <= m /\ m <= Max(E)
    OBVIOUS
  <2>1. PICK n \in Boundaries(c, r) : n <= m /\ m <= PartEnd(c, r, n)
    BY PartsCover
  <2>2. n \in Int /\ SameSide(c, m, n)
    BY <1>1, <2>1, PartOneSided
  <2>3. n \in S
    BY <2>2, RawSide DEF Starts
  <2>4. Min(S) <= n /\ PartEnd(c, r, n) <= Max(E) /\ PartEnd(c, r, n) \in Int
    <3>1. PartEnd(c, r, n) \in E
      BY <2>3 DEF Ends
    <3>2. Max(E) >= PartEnd(c, r, n)
      BY <1>5, <3>1
    <3>3. QED  BY <1>3, <1>4, <1>7, <2>3, <3>2, SMT
  <2>5. QED  BY <1>7, <2>1, <2>2, <2>4, SMT
<1> HIDE DEF S, E
<1>10. TMin(t) <= r.lo /\ r.hi <= TMax(t) /\ TMin(t) \in Int /\ TMax(t) \in Int
  BY Limits DEF Proper, Fits
<1>11. Make(t, Min(S), Max(E)).lo = Min(S) /\ Make(t, Min(S), Max(E)).hi = Max(E)
  BY <1>1, <1>7, <1>10, SMT DEF Make, Concrete, WithinRange
<1>12. \A m \in Int : Min(S) <= m /\ m <= Max(E) => Contains(Make(t, Min(S), Max(E)), m)
  BY <1>11 DEF Contains
<1>13. QED  BY <1>7, <1>8, <1>9, <1>11, <1>12, MakeFits

\* Parts of r: values of the type, that between them lose no value of r.
GoodParts(t, r, parts) ==
    /\ \A alt \in parts : Fits(t, alt)
    /\ parts # {} => \A m \in Int : Contains(r, m) /\ InType(t, m) =>
                                        \E alt \in parts : Contains(alt, m)

LEMMA ComparisonPartsGood ==
    ASSUME NEW t \in Types, NEW test \in RawTests, NEW c \in Int, NEW r, Proper(t, r), r.kind = "range"
    PROVE  /\ GoodParts(t, r, ComparisonParts(t, test, c, r))
           /\ \A alt \in ComparisonParts(t, test, c, r) :
                  alt.kind = "range" => ComparisonParts(t, test, c, alt) = {}
<1> DEFINE parts == ComparisonParts(t, test, c, r)
<1>1. r.lo \in Int /\ r.hi \in Int /\ r.lo <= r.hi /\ TMin(t) <= r.lo /\ r.hi <= TMax(t)
      /\ TMin(t) \in Int /\ TMax(t) \in Int
  BY Limits DEF Proper, Fits
<1>2. CASE test = "eq"
  <2> DEFINE below == Make(t, r.lo, c - 1)
             above == Make(t, c + 1, r.hi)
  <2>1. /\ parts = EqualParts(t, c, r)
        /\ \A alt : ComparisonParts(t, test, c, alt) = EqualParts(t, c, alt)
    BY <1>2 DEF ComparisonParts
  <2>2. CASE ~Contains(r, c)
    BY <2>1, <2>2 DEF EqualParts, GoodParts
  <2>3. CASE Contains(r, c)
    <3>1. parts = {Concrete(c)} \cup (IF r.lo < c THEN {below} ELSE {})
                                \cup (IF c < r.hi THEN {above} ELSE {})
      BY <2>1, <2>3 DEF EqualParts
    <3>2. Fits(t, Concrete(c)) /\ Fits(t, below) /\ Fits(t, above)
          /\ Concrete(c).kind = "concrete"
      <4>1. c - 1 \in Int /\ c + 1 \in Int
        BY SMT
      <4>2. Concrete(c).kind = "concrete"
        BY DEF Concrete
      <4>3. QED  BY <1>1, <4>1, <4>2, MakeFits
    <3>3. r.lo < c => ~Contains(below, c)
      BY <1>1, <2>3, SMT DEF Make, Concrete, WithinRange, Contains
    <3>4. c < r.hi => ~Contains(above, c)
      BY <1>1, <2>3, SMT DEF Make, Concrete, WithinRange, Contains
    <3>5. \A alt \in parts : Fits(t, alt) /\ (alt.kind = "range" => EqualParts(t, c, alt) = {})
      <4> HIDE DEF parts, below, above
      <4>1. \A alt \in parts : alt = Concrete(c) \/ (r.lo < c /\ alt = below) \/ (c < r.hi /\ alt = above)
        BY <3>1
      <4>2. QED  BY <3>2, <3>3, <3>4, <4>1 DEF EqualParts
    <3>6. \A m \in Int : Contains(r, m) /\ InType(t, m) => \E alt \in parts : Contains(alt, m)
      <4> SUFFICES ASSUME NEW m \in Int, Contains(r, m), InType(t, m)
                   PROVE  \E alt \in parts : Contains(alt, m)
        OBVIOUS
      <4>1. CASE m = c
        <5>1. Contains(Concrete(c), m)
          BY <4>1, SMT DEF Contains, Concrete
        <5>2. QED  BY <3>1, <5>1
      <4>2. CASE m < c
        <5>1. r.lo < c /\ r.lo <= m /\ m <= c - 1 /\ c - 1 \in Int
          BY <1>1, <4>2, SMT DEF Contains
        <5>2. Contains(below, m)
          BY <1>1, <5>1, MakeContains
        <5>3. QED  BY <3>1, <5>1, <5>2
      <4>3. CASE m > c
        <5>1. c < r.hi /\ m <= r.hi /\ c + 1 <= m /\ c + 1 \in Int
          BY <1>1, <4>3, SMT DEF Contains
        <5>2. Contains(above, m)
          BY <1>1, <5>1, MakeContains
        <5>3. QED  BY <3>1, <5>1, <5>2
      <4>4. QED  BY <4>1, <4>2, <4>3, SMT
    <3>7. QED  BY <2>1, <3>5, <3>6 DEF GoodParts
  <2>4. QED  BY <2>2, <2>3
<1>3. CASE test # "eq" /\ Raw(c, test, r.lo) = Raw(c, test, r.hi)
  BY <1>3 DEF ComparisonParts, GoodParts
<1>4. CASE test # "eq" /\ Raw(c, test, r.lo) # Raw(c, test, r.hi)
  <2>1. parts = {Part(t, test, c, r, result) : result \in BOOLEAN}
    BY <1>4, Zenon DEF ComparisonParts, Part, Starts, Ends
  <2>2. \A n \in Int : Raw(c, test, n) \in BOOLEAN
    BY RawBoolean
  <2>3. ASSUME NEW result \in BOOLEAN
        PROVE  /\ Fits(t, Part(t, test, c, r, result))
               /\ \A m \in Int : Contains(r, m) /\ Raw(c, test, m) = result =>
                                     Contains(Part(t, test, c, r, result), m)
               /\ Raw(c, test, Part(t, test, c, r, result).lo) = result
               /\ Raw(c, test, Part(t, test, c, r, result).hi) = result
    <3>1. Raw(c, test, r.lo) = result \/ Raw(c, test, r.hi) = result
      BY <1>1, <1>4, <2>2
    <3>2. QED  BY <3>1, PartFacts
  <2>4. \A alt \in parts : Fits(t, alt) /\ ComparisonParts(t, test, c, alt) = {}
    <3>1. SUFFICES ASSUME NEW result \in BOOLEAN
                   PROVE  LET alt == Part(t, test, c, r, result)
                          IN  Fits(t, alt) /\ ComparisonParts(t, test, c, alt) = {}
      BY <2>1, Zenon
    <3>2. QED  BY <1>4, <2>3, Zenon DEF ComparisonParts
  <2>5. \A m \in Int : Contains(r, m) => \E alt \in parts : Contains(alt, m)
    BY <2>1, <2>2, <2>3, Zenon
  <2>6. QED  BY <2>4, <2>5 DEF GoodParts
<1>5. QED  BY <1>2, <1>3, <1>4

\* A range that is not split has one result.
LEMMA Unsplit ==
    ASSUME NEW t \in Types, NEW test \in RawTests, NEW c \in Int, NEW r, Proper(t, r),
           ComparisonParts(t, test, c, r) = {}, NEW m \in Int, Contains(r, m)
    PROVE  Raw(c, test, m) = Raw(c, test, r.lo)
<1>1. r.lo \in Int /\ r.hi \in Int /\ r.lo <= m /\ m <= r.hi
  BY DEF Proper, Fits, Contains
<1>2. CASE test = "eq"
  <2>1. ~Contains(r, c)
    BY <1>2 DEF ComparisonParts, EqualParts
  <2>2. QED  BY <1>1, <1>2, <2>1, SMT DEF Raw, Contains
<1>3. CASE test # "eq"
  <2>1. Raw(c, test, r.lo) = Raw(c, test, r.hi)
    <3>1. SUFFICES ASSUME Raw(c, test, r.lo) # Raw(c, test, r.hi) PROVE FALSE
      OBVIOUS
    <3>2. ComparisonParts(t, test, c, r) = {Part(t, test, c, r, result) : result \in BOOLEAN}
      BY <1>3, <3>1, Zenon DEF ComparisonParts, Part, Starts, Ends
    <3>3. Part(t, test, c, r, TRUE) \in ComparisonParts(t, test, c, r)
      BY <3>2, Zenon
    <3>4. QED  BY <3>3
  <2>2. CASE test = "ge"
    BY <1>1, <2>1, <2>2, SMT DEF Raw
  <2>3. CASE test = "gt"
    BY <1>1, <2>1, <2>3, SMT DEF Raw
  <2>4. CASE test = "le"
    BY <1>1, <2>1, <2>4, SMT DEF Raw
  <2>5. CASE test = "lt"
    BY <1>1, <2>1, <2>5, SMT DEF Raw
  <2>6. QED  BY <1>3, <2>2, <2>3, <2>4, <2>5 DEF RawTests
<1>4. QED  BY <1>2, <1>3

LEMMA OperandPartsGood ==
    ASSUME NEW t \in Types, NEW op \in BinaryOps, NEW l, NEW r, Proper(t, r), NEW k
    PROVE  /\ GoodParts(t, r, OperandParts(t, op, l, r))
           /\ \A alt \in OperandParts(t, op, l, r) :
                  alt.kind = "range" => OperandParts(t, op, k, alt) = {}
<1>1. r.lo \in Int /\ r.hi \in Int /\ r.lo <= r.hi /\ -1 \in Int /\ 0 \in Int /\ 1 \in Int
  BY DEF Proper, Fits
<1>2. CASE OperandParts(t, op, l, r) = {}
  BY <1>2 DEF GoodParts
<1>3. CASE op \in {"div", "mod"} /\ r.lo = 0 /\ r.hi > 0 /\ OperandParts(t, op, l, r) # {}
  <2>1. OperandParts(t, op, l, r) = {Concrete(0), Make(t, 1, r.hi)}
    BY <1>3 DEF OperandParts
  <2>2. Fits(t, Concrete(0)) /\ Fits(t, Make(t, 1, r.hi))
    BY <1>1, MakeFits
  <2>3. Concrete(0).kind = "concrete" /\ (Make(t, 1, r.hi).kind = "range" => Make(t, 1, r.hi).lo = 1)
    BY <1>1, Limits, SMT DEF Make, Concrete, WithinRange
  <2>4. OperandParts(t, op, k, Make(t, 1, r.hi)) = {}
    <3> DEFINE part == Make(t, 1, r.hi)
    <3>1. part.kind = "concrete" \/ (part.kind = "range" /\ part.lo = 1)
      BY <2>2, <2>3 DEF Fits
    <3> HIDE DEF part
    <3>2. part.kind = "concrete" \/ part.lo # 0
      BY <3>1
    <3>3. op \notin {"lshift", "rshift"}
      BY <1>3
    <3>4. OperandParts(t, op, k, part) = {}
      BY <3>2, <3>3 DEF OperandParts
    <3>5. QED  BY <3>4 DEF part
  <2>5. \A m \in Int : Contains(r, m) /\ InType(t, m) =>
            Contains(Concrete(0), m) \/ Contains(Make(t, 1, r.hi), m)
    <3> SUFFICES ASSUME NEW m \in Int, Contains(r, m), InType(t, m)
                 PROVE  Contains(Concrete(0), m) \/ Contains(Make(t, 1, r.hi), m)
      OBVIOUS
    <3>1. CASE m = 0
      BY <3>1, SMT DEF Contains, Concrete
    <3>2. CASE m # 0
      <4>1. 1 <= m /\ m <= r.hi
        BY <1>1, <1>3, <3>2, SMT DEF Contains
      <4>2. QED  BY <1>1, <4>1, MakeContains
    <3>3. QED  BY <3>1, <3>2
  <2>6. QED  BY <2>1, <2>2, <2>3, <2>4, <2>5 DEF GoodParts
<1>4. CASE op \in {"lshift", "rshift"} /\ r.lo < 0 /\ r.hi >= 0 /\ OperandParts(t, op, l, r) # {}
  <2> DEFINE below == Make(t, r.lo, -1)
             above == Make(t, 0, r.hi)
  <2>1. OperandParts(t, op, l, r) = {below, above}
    BY <1>4 DEF OperandParts
  <2>2. Fits(t, below) /\ Fits(t, above)
    BY <1>1, MakeFits
  <2>3. (below.kind = "range" => below.hi < 0) /\ (above.kind = "range" => above.lo >= 0)
    BY <1>1, <1>4, Limits, SMT DEF Make, Concrete, WithinRange
  <2>4. /\ below.kind = "range" => OperandParts(t, op, k, below) = {}
        /\ above.kind = "range" => OperandParts(t, op, k, above) = {}
    <3>1. op \notin {"div", "mod"}
      BY <1>4
    <3>2. below.hi \in Int /\ above.lo \in Int
      BY <2>2 DEF Fits
    <3> HIDE DEF below, above
    <3>3. /\ below.kind = "range" => ~(below.hi >= 0)
          /\ above.kind = "range" => ~(above.lo < 0)
      BY <2>3, <3>2, SMT
    <3>4. QED  BY <3>1, <3>3 DEF OperandParts
  <2>5. \A m \in Int : Contains(r, m) /\ InType(t, m) => Contains(below, m) \/ Contains(above, m)
    <3> SUFFICES ASSUME NEW m \in Int, Contains(r, m), InType(t, m)
                 PROVE  Contains(below, m) \/ Contains(above, m)
      OBVIOUS
    <3>1. r.lo <= m /\ m <= r.hi /\ (m <= -1 \/ 0 <= m)
      BY <1>1, SMT DEF Contains
    <3>2. QED  BY <1>1, <3>1, MakeContains
  <2> HIDE DEF below, above
  <2>6. QED  BY <2>1, <2>2, <2>4, <2>5 DEF GoodParts
<1>5. QED  BY <1>2, <1>3, <1>4 DEF OperandParts

-----------------------------------------------------------------------------
(***************************************************************************)
(* The inductive invariant.                                                *)
(***************************************************************************)
\* Having the same object is an equivalence.
Shared == \A v \in Vars : v \in same[v] /\ \A w \in same[v] : same[w] = same[v]

IInv == TypeOK /\ Sound /\ Shared

\* The statements for which the corners bound what the execution computes.
Bounded(s) ==
    \/ s.op \in {"copy", "call", "cond", "convert"}
    \/ s.op \in {"neg", "not"} /\ s.type = "signed"
    \/ BoundedOp(s.type, s.op)

LEMMA StmtFacts ==
    ASSUME NEW s \in Stmts
    PROVE  /\ s.op \in BinaryOps \cup UnaryOps \cup {"copy", "call", "cond", "set"}
           /\ s.test \in Tests /\ s.type \in Types /\ s.lhs \in Vars /\ s.a \in Vars
           /\ s.b \in Vars \/ (s.b \in Int /\ s.b \notin Vars /\ InType(s.type, s.b))
           /\ s # NoStmt /\ s # Raised
<1>1. s \in AllStmts /\ (s.b \in Int => InType(s.type, s.b)) /\ Vars \cap Int = {}
  BY ConstantsAssumption DEF InType
<1>2. s.op # "none" /\ s.op # "raised"
  BY <1>1 DEF AllStmts, BinaryOps, UnaryOps
<1>3. s # NoStmt /\ s # Raised
  BY <1>2 DEF NoStmt, Raised
<1>4. QED  BY <1>1, <1>3 DEF AllStmts

LEMMA VarFacts ==
    ASSUME IInv, NEW v \in Vars
    PROVE  /\ typ[v] \in Types /\ val[v] \in Int /\ InType(typ[v], val[v])
           /\ Proper(typ[v], abs[v]) /\ Contains(abs[v], val[v])
           /\ same[v] \subseteq Vars /\ v \in same[v]
<1>1. Fits(typ[v], abs[v])
  BY DEF IInv, TypeOK, Fits
<1>2. Contains(abs[v], val[v]) /\ val[v] \in Int
  BY DEF IInv, Sound, TypeOK
<1>3. abs[v].lo <= abs[v].hi
  BY <1>1, <1>2, SMT DEF Fits, Contains
<1>4. QED  BY <1>1, <1>2, <1>3 DEF IInv, TypeOK, Shared, InType, Proper

LEMMA OperandFacts ==
    ASSUME IInv, NEW s \in Stmts, Evaluated(s), NEW x \in {s.a, s.b}
    PROVE  /\ Actual(x) \in Int /\ InType(s.type, Actual(x))
           /\ Proper(s.type, Operand(x)) /\ Contains(Operand(x), Actual(x))
           /\ x \in Vars => typ[x] = s.type /\ Operand(x) = abs[x] /\ Actual(x) = val[x]
           /\ x \notin Vars => Operand(x).kind = "concrete"
<1>1. CASE x \in Vars
  <2>1. typ[x] = s.type
    BY <1>1, StmtFacts DEF Evaluated
  <2>2. QED  BY <1>1, <2>1, VarFacts DEF Operand, Actual
<1>2. CASE x \notin Vars
  <2>1. x \in Int /\ InType(s.type, x) /\ s.type \in Types
    BY <1>2, StmtFacts
  <2>2. Operand(x) = Concrete(x) /\ Actual(x) = x
    BY <1>2 DEF Operand, Actual
  <2>3. Fits(s.type, Concrete(x))
    BY <2>1, MakeFits
  <2>4. Concrete(x).kind = "concrete" /\ Concrete(x).lo = x /\ Concrete(x).hi = x
    BY DEF Concrete
  <2>5. x <= x
    BY <2>1, SMT
  <2>6. QED  BY <1>2, <2>1, <2>2, <2>3, <2>4, <2>5 DEF Proper, Contains
<1>3. QED  BY <1>1, <1>2

LEMMA KindFacts ==
    ASSUME NEW t \in Types, NEW v, Proper(t, v)
    PROVE  (v.kind = "concrete" \/ v.kind = "range") /\ (v.kind = "concrete" => v.lo = v.hi)
BY DEF Proper, Fits

LEMMA TestFacts ==
    ASSUME NEW test \in Tests
    PROVE  EqualityFor(test) \in RawTests /\ Flip(EqualityFor(test)) \in RawTests
BY DEF Tests, EqualityFor, RawTests, Flip

\* What is split, and that the alternatives are values of its type.
LEMMA AlternativesFacts ==
    ASSUME IInv, NEW s \in Stmts, Evaluated(s), Alternatives(s) # {}
    PROVE  LET w == SplitOperand(s)
           IN  /\ w \in Vars /\ typ[w] = s.type /\ abs[w].kind = "range"
               /\ \A alt \in Alternatives(s) : Fits(s.type, alt)
               /\ \E alt \in Alternatives(s) : Contains(alt, val[w])
<1> DEFINE l == Operand(s.a)
           r == Operand(s.b)
           t == s.type
           test == EqualityFor(s.test)
<1>1. /\ Proper(t, l) /\ Proper(t, r) /\ t \in Types /\ s.a \in Vars /\ test \in RawTests
      /\ Flip(test) \in RawTests
      /\ l.kind = "concrete" \/ l.kind = "range"
      /\ r.kind = "concrete" \/ r.kind = "range"
  BY OperandFacts, StmtFacts, TestFacts, KindFacts
<1>2. ASSUME NEW w \in {s.a, s.b}, Operand(w).kind = "range", SplitOperand(s) = w,
             GoodParts(t, Operand(w), Alternatives(s))
      PROVE  /\ w \in Vars /\ typ[w] = t /\ abs[w].kind = "range"
             /\ \A alt \in Alternatives(s) : Fits(t, alt)
             /\ \E alt \in Alternatives(s) : Contains(alt, val[w])
  <2>1. Operand(w).kind # "concrete"
    BY <1>2
  <2>2. w \in Vars /\ typ[w] = t /\ Operand(w) = abs[w] /\ Actual(w) = val[w]
    BY <2>1, OperandFacts
  <2>3. Actual(w) \in Int /\ InType(t, Actual(w)) /\ Contains(Operand(w), Actual(w))
    BY OperandFacts
  <2>4. QED  BY <1>2, <2>2, <2>3 DEF GoodParts
<1>3. CASE s.op \in BinaryOps
  <2>1. SplitOperand(s) = s.b /\ Alternatives(s) = OperandParts(t, s.op, l, r)
    BY <1>3 DEF SplitOperand, Alternatives, BinaryOps
  <2>2. r.kind = "range"
    BY <1>1, <2>1 DEF OperandParts
  <2>3. GoodParts(t, r, Alternatives(s))
    BY <1>1, <1>3, <2>1, OperandPartsGood
  <2>4. QED  BY <1>2, <2>1, <2>2, <2>3
<1>4. CASE s.op \in {"cond", "set"} /\ l.kind = "concrete" /\ r.kind = "range"
  <2>1. SplitOperand(s) = s.b /\ Alternatives(s) = ComparisonParts(t, test, l.lo, r)
    BY <1>4 DEF SplitOperand, Alternatives, BinaryOps
  <2>2. l.lo \in Int
    BY <1>1 DEF Proper, Fits
  <2>3. GoodParts(t, r, Alternatives(s))
    BY <1>1, <1>4, <2>1, <2>2, ComparisonPartsGood
  <2>4. QED  BY <1>2, <1>4, <2>1, <2>3
<1>5. CASE s.op \in {"cond", "set"} /\ l.kind = "range" /\ r.kind = "concrete"
  <2>1. SplitOperand(s) = s.a /\ Alternatives(s) = ComparisonParts(t, Flip(test), r.lo, l)
    BY <1>5 DEF SplitOperand, Alternatives, BinaryOps
  <2>2. r.lo \in Int
    BY <1>1 DEF Proper, Fits
  <2>3. GoodParts(t, l, Alternatives(s))
    BY <1>1, <1>5, <2>1, <2>2, ComparisonPartsGood
  <2>4. QED  BY <1>2, <1>5, <2>1, <2>3
<1>6. QED  BY <1>3, <1>4, <1>5 DEF Alternatives

-----------------------------------------------------------------------------
(***************************************************************************)
(* What is assigned is within what the state then has.                     *)
(***************************************************************************)
Assignable(s) ==
    Evaluated(s) /\ Alternatives(s) = {} /\ ~Predicted(s) /\ s.op # "cond"

LEMMA BinaryAssigned ==
    ASSUME IInv, NEW s \in Stmts, BoundedOp(s.type, s.op), Assignable(s), NEW n \in Values(s)
    PROVE  /\ InType(s.type, n) /\ Fits(s.type, Result(s)) /\ Contains(Result(s), n)
<1> DEFINE l == Operand(s.a)
           r == Operand(s.b)
           t == s.type
           a == Actual(s.a)
           b == Actual(s.b)
<1>1. /\ t \in Types /\ Proper(t, l) /\ Proper(t, r) /\ Contains(l, a) /\ Contains(r, b)
      /\ a \in Int /\ b \in Int /\ InType(t, a) /\ InType(t, b)
      /\ TMin(t) \in Int /\ TMax(t) \in Int
  BY OperandFacts, StmtFacts, Limits DEF Assignable
<1>2. /\ s.op \in {"plus", "minus", "mult", "max", "min", "div"} /\ s.op \in BinaryOps
      /\ s.op \in {"plus", "minus", "mult"} => t = "signed"
      /\ s.op = "div" => t = "unsigned"
  BY DEF BoundedOp, BinaryOps
<1>3. /\ typ[s.lhs] = t
      /\ Result(s) = BinaryValue(t, s.op, l, r)
      /\ Errs(s.op, b) <=> (s.op = "div" /\ b = 0)
  BY <1>2 DEF Assignable, Evaluated, Result, BinaryOps, UnaryOps, Errs
<1>4. ASSUME s.op = "div" PROVE 0 <= a /\ 0 <= b
  BY <1>1, <1>2, <1>4, SMT DEF InType, TMin
<1>5. ~Errs(s.op, b)
  BY <1>2 DEF Values
<1>6. InC(s) = Python(s.op, a, b)
  <2>1. CASE s.op # "div"
    <3>1. s.op \in {"plus", "minus", "mult", "max", "min"}
      BY <1>2, <2>1
    <3>2. QED  BY <3>1 DEF InC, BinaryOps
  <2>2. CASE s.op = "div"
    <3>1. InC(s) = TruncDiv(a, b) /\ Python(s.op, a, b) = FloorDiv(a, b)
      BY <2>2 DEF InC, Python
    <3>2. 0 <= a /\ 0 < b
      BY <1>1, <1>3, <1>4, <1>5, <2>2, SMT
    <3>3. Abs(a) = a /\ Abs(b) = b /\ ~(a < 0) /\ ~(b < 0) /\ b > 0
      BY <1>1, <3>2, SMT DEF Abs
    <3>4. QED  BY <3>1, <3>3 DEF TruncDiv, FloorDiv
  <2>3. QED  BY <2>1, <2>2
<1>7. t = "unsigned" => InType(t, Python(s.op, a, b))
  <2>1. CASE s.op = "max"
    <3>1. Python(s.op, a, b) \in {a, b}
      BY <2>1 DEF Python
    <3>2. QED  BY <1>1, <3>1
  <2>2. CASE s.op = "min"
    <3>1. Python(s.op, a, b) \in {a, b}
      BY <2>2 DEF Python
    <3>2. QED  BY <1>1, <3>1
  <2>3. CASE s.op = "div"
    <3>1. a \in Nat /\ b \in Nat /\ 1 \in Nat /\ 0 < 1 /\ 1 <= b /\ a <= a
      BY <1>1, <1>3, <1>4, <1>5, <2>3, SMT
    <3>2. Python(s.op, a, b) = a \div b
      BY <2>3, <3>1, SMT DEF Python, FloorDiv
    <3>3. a \div b \in Nat /\ a \div b <= a \div 1
      BY <3>1, QuotientMonotonic
    <3>4. a \div 1 = a
      BY <3>1, SMT
    <3>5. t = "unsigned" => TMin(t) = 0
      BY DEF TMin
    <3>6. QED  BY <1>1, <3>2, <3>3, <3>4, <3>5, SMT DEF InType
  <2>4. t = "unsigned" => s.op \in {"max", "min", "div"}
    BY <1>2
  <2>5. QED  BY <2>1, <2>2, <2>3, <2>4
<1>8. n = Python(s.op, a, b) /\ InType(t, n)
  <2>1. s.op # "call" /\ s.op # "convert"
    BY <1>2
  <2>2. t = "signed" \/ t = "unsigned"
    BY <1>1 DEF Types
  <2>3. InType(t, InC(s)) /\ n = InC(s)
    BY <1>3, <1>5, <1>6, <1>7, <2>1, <2>2 DEF Values, InType
  <2>4. QED  BY <1>6, <2>3
<1>9. CASE Combines(l, r)
  <2>1. s.op = "div" => 0 <= l.lo /\ 0 < r.lo
    <3>1. SUFFICES ASSUME s.op = "div" PROVE 0 <= l.lo /\ 0 < r.lo
      OBVIOUS
    <3>2. ~Errs(s.op, r.lo)
      BY <1>2, <1>9 DEF Assignable, Predicted
    <3>3. r.lo # 0
      BY <3>1, <3>2 DEF Errs
    <3>4. 0 <= l.lo /\ 0 <= r.lo
      <4>1. TMin(t) = 0
        BY <1>2, <3>1 DEF TMin
      <4>2. ASSUME NEW v, Proper(t, v), NEW c \in Int, Contains(v, c), 0 <= c PROVE 0 <= v.lo
        BY <4>1, <4>2, SMT DEF Proper, Fits, Contains
      <4>3. QED  BY <1>1, <1>4, <3>1, <4>2
    <3>5. r.lo \in Int
      BY <1>1 DEF Proper, Fits
    <3>6. QED  BY <3>3, <3>4, <3>5, SMT
  <2>2. /\ Fits(t, BinaryValue(t, s.op, l, r))
        /\ InType(t, Python(s.op, a, b)) => Contains(BinaryValue(t, s.op, l, r), Python(s.op, a, b))
    BY <1>1, <1>2, <1>9, <2>1, BinaryContains DEF Proper
  <2>3. QED  BY <1>3, <1>8, <2>2
<1>10. CASE ~Combines(l, r)
  <2>1. Result(s) = UnknownValue(t)
    BY <1>3, <1>10 DEF BinaryValue
  <2>2. n \in Int
    BY <1>1, <1>8 DEF InType
  <2>3. QED  BY <1>1, <1>8, <2>1, <2>2, UnknownContains
<1>11. QED  BY <1>9, <1>10

LEMMA Assigned ==
    ASSUME IInv, NEW s \in Stmts, Bounded(s), Assignable(s), NEW n \in Values(s)
    PROVE  /\ n \in Int /\ InType(typ[s.lhs], n)
           /\ Fits(typ[s.lhs], Result(s)) /\ Contains(Result(s), n)
           /\ s.op = "copy" => n = Actual(s.b) /\ Result(s) = Operand(s.b) /\ typ[s.lhs] = s.type
<1> DEFINE l == Operand(s.a)
           r == Operand(s.b)
           t == s.type
           u == typ[s.lhs]
           a == Actual(s.a)
           b == Actual(s.b)
<1>1. /\ t \in Types /\ Proper(t, l) /\ Proper(t, r) /\ Contains(l, a) /\ Contains(r, b)
      /\ a \in Int /\ b \in Int /\ InType(t, a) /\ InType(t, b)
      /\ u \in Types /\ TMin(u) \in Int /\ TMax(u) \in Int
  BY OperandFacts, StmtFacts, VarFacts, Limits DEF Assignable
<1>2. s.op # "convert" => u = t
  BY DEF Assignable, Evaluated
<1>3. CASE BoundedOp(t, s.op)
  <2>1. u = t /\ s.op # "copy"
    BY <1>2, <1>3 DEF BoundedOp
  <2>2. InType(t, n) /\ Fits(t, Result(s)) /\ Contains(Result(s), n)
    BY <1>3, BinaryAssigned
  <2>3. n \in Int
    BY <1>1, <2>1, <2>2 DEF InType
  <2>4. QED  BY <2>1, <2>2, <2>3
<1>4. CASE s.op \in {"neg", "not"} /\ t = "signed"
  <2>1. /\ Result(s) = UnaryValue(t, u, s.op, l) /\ u = "signed"
        /\ InC(s) = (IF s.op = "neg" THEN -a ELSE -a - 1)
    BY <1>2, <1>4 DEF Result, InC, BinaryOps, UnaryOps
  <2>2. InType(u, InC(s)) /\ n = InC(s)
    BY <1>4, <2>1 DEF Values, InType, BinaryOps
  <2>3. n \in Int
    BY <1>1, <2>2 DEF InType
  <2>4. Fits(t, l)
    BY <1>1 DEF Proper
  <2>5. /\ Fits(u, UnaryValue(t, u, s.op, l))
        /\ s.op = "neg" /\ InType(u, -a) => Contains(UnaryValue(t, u, s.op, l), -a)
        /\ s.op = "not" /\ InType(u, -a - 1) => Contains(UnaryValue(t, u, s.op, l), -a - 1)
    BY <1>1, <1>4, <2>4, UnaryContains
  <2>6. QED  BY <1>4, <2>1, <2>2, <2>3, <2>5
<1>5. CASE s.op = "convert"
  <2>1. Result(s) = UnaryValue(t, u, s.op, l) /\ InC(s) = a
    BY <1>5 DEF Result, InC, BinaryOps, UnaryOps
  <2>2. InType(u, n) /\ (InType(u, a) => n = a)
    BY <1>5, <2>1 DEF Values, InType, BinaryOps
  <2>3. n \in Int
    BY <1>1, <2>2 DEF InType
  <2>4. Fits(t, l)
    BY <1>1 DEF Proper
  <2>5. /\ Fits(u, UnaryValue(t, u, "convert", l))
        /\ \A m \in Int : InType(u, m) /\ (InType(u, a) => m = a) =>
                              Contains(UnaryValue(t, u, "convert", l), m)
    BY <1>1, <2>4, UnaryContains
  <2>6. QED  BY <1>5, <2>1, <2>2, <2>3, <2>5
<1>6. CASE s.op = "copy"
  <2>1. Result(s) = r /\ InC(s) = b
    BY <1>6 DEF Result, InC, BinaryOps, UnaryOps
  <2>2. n = b
    BY <1>1, <1>2, <1>6, <2>1 DEF Values, InType, BinaryOps
  <2>3. QED  BY <1>1, <1>2, <1>6, <2>1, <2>2 DEF Proper
<1>7. CASE s.op = "call"
  <2>1. Result(s) = UnknownValue(u) /\ InType(u, n)
    BY <1>7 DEF Result, Values, InType, BinaryOps, UnaryOps
  <2>2. n \in Int
    BY <1>1, <2>1 DEF InType
  <2>3. QED  BY <1>1, <1>7, <2>1, <2>2, UnknownContains
<1>8. s.op # "cond"
  BY DEF Assignable
<1>9. QED  BY <1>3, <1>4, <1>5, <1>6, <1>7, <1>8 DEF Bounded

-----------------------------------------------------------------------------
(***************************************************************************)
(* Invariance.                                                             *)
(***************************************************************************)
LEMMA Initially == Init => IInv
<1> SUFFICES ASSUME Init PROVE IInv
  OBVIOUS
<1>1. ASSUME NEW v \in Vars
      PROVE  /\ typ[v] \in Types /\ val[v] \in Int /\ InType(typ[v], val[v])
             /\ abs[v] = UnknownValue(typ[v]) /\ same[v] = {v}
  <2>1. SMin \in Int /\ SMax \in Int /\ UMax \in Int
    BY ConstantsAssumption
  <2>2. typ[v] \in Types /\ InType(typ[v], val[v])
    BY DEF Init, InType
  <2>3. val[v] \in Int
    BY <2>2, Limits DEF InType
  <2>4. QED  BY <2>2, <2>3 DEF Init
<1>2. \A v \in Vars : Fits(typ[v], abs[v]) /\ Contains(abs[v], val[v])
  BY <1>1, UnknownContains
<1>3. TypeOK
  <2>1. typ \in [Vars -> Types] /\ stmt = NoStmt /\ val \in [Vars -> Int]
    BY <1>1 DEF Init
  <2>2. same \in [Vars -> SUBSET Vars]
    BY DEF Init
  <2>3. abs = [v \in Vars |-> UnknownValue(typ[v])]
    BY DEF Init
  <2>4. \A v \in Vars : abs[v] \in [kind : {"concrete", "range"}, lo : Int, hi : Int]
    BY <1>2 DEF Fits
  <2>5. abs \in [Vars -> [kind : {"concrete", "range"}, lo : Int, hi : Int]]
    BY <2>3, <2>4
  <2>6. QED  BY <1>1, <1>2, <2>1, <2>2, <2>5 DEF TypeOK, Fits, InType
<1>4. Sound /\ Shared
  BY <1>1, <1>2 DEF Sound, Shared
<1>5. QED  BY <1>3, <1>4 DEF IInv

\* What has one object has one value, type and AbstractValue.
LEMMA SharedFacts ==
    ASSUME IInv, NEW v \in Vars, NEW w \in same[v]
    PROVE  /\ w \in Vars /\ same[w] = same[v] /\ v \in same[w]
           /\ val[v] = val[w] /\ abs[v] = abs[w] /\ typ[v] = typ[w]
BY DEF IInv, TypeOK, Sound, Shared

LEMMA SplitPreserves ==
    ASSUME IInv, NEW s \in Stmts, Split(s)
    PROVE  IInv'
<1> DEFINE w == SplitOperand(s)
<1>1. PICK alt \in Alternatives(s) :
          /\ Contains(alt, val[w])
          /\ abs' = [v \in Vars |-> IF v \in same[w] THEN alt ELSE abs[v]]
  BY DEF Split
<1>2. Evaluated(s) /\ stmt' = s /\ typ' = typ /\ val' = val /\ same' = same
  BY DEF Split
<1>3. w \in Vars /\ typ[w] = s.type /\ Fits(s.type, alt)
  BY <1>1, <1>2, AlternativesFacts
<1> HIDE DEF w
<1>4. \A v \in Vars : abs'[v] = IF v \in same[w] THEN alt ELSE abs[v]
  BY <1>1
<1>5. \A v \in Vars : Fits(typ[v], abs'[v]) /\ Contains(abs'[v], val[v])
  <2> TAKE v \in Vars
  <2>1. CASE v \in same[w]
    BY <1>1, <1>3, <1>4, <2>1, SharedFacts
  <2>2. CASE v \notin same[w]
    BY <1>4, <2>2, VarFacts DEF Proper
  <2>3. QED  BY <2>1, <2>2
<1>6. TypeOK'
  <2>1. /\ typ \in [Vars -> Types] /\ same \in [Vars -> SUBSET Vars] /\ val \in [Vars -> Int]
        /\ \A v \in Vars : val[v] \in TMin(typ[v])..TMax(typ[v])
    BY DEF IInv, TypeOK
  <2>2. \A v \in Vars : abs'[v] \in [kind : {"concrete", "range"}, lo : Int, hi : Int]
    BY <1>5 DEF Fits
  <2>3. abs' \in [Vars -> [kind : {"concrete", "range"}, lo : Int, hi : Int]]
    BY <1>1, <1>4, <2>2
  <2>4. \A v \in Vars : /\ abs'[v].kind = "concrete" => abs'[v].lo = abs'[v].hi
                        /\ abs'[v].kind = "range" => abs'[v].lo >= TMin(typ[v]) /\ abs'[v].hi <= TMax(typ[v])
    BY <1>5 DEF Fits
  <2>5. QED  BY <1>2, <2>1, <2>3, <2>4 DEF TypeOK
<1>7. Sound'
  <2>1. ASSUME NEW v \in Vars, NEW x \in same[v]
        PROVE  val[v] = val[x] /\ abs'[v] = abs'[x] /\ typ[v] = typ[x]
    <3>1. x \in Vars /\ val[v] = val[x] /\ abs[v] = abs[x] /\ typ[v] = typ[x] /\ same[x] = same[v]
      BY SharedFacts
    <3>2. v \in same[w] <=> x \in same[w]
      BY <1>3, <2>1, <3>1, SharedFacts
    <3>3. QED  BY <1>4, <3>1, <3>2
  <2>2. QED  BY <1>2, <1>5, <2>1 DEF Sound
<1>8. Shared'
  BY <1>2 DEF IInv, Shared
<1>9. QED  BY <1>6, <1>7, <1>8 DEF IInv

LEMMA AssignPreserves ==
    ASSUME IInv, NEW s \in Stmts, Bounded(s), Assign(s)
    PROVE  IInv'
<1> DEFINE x == s.lhs
           sharers == {x} \cup IF s.op = "copy" /\ s.b \in Vars THEN same[s.b] ELSE {}
<1>1. Assignable(s) /\ x \in Vars /\ typ' = typ /\ stmt' = NoStmt
  BY StmtFacts DEF Assign, Assignable
<1>2. PICK n \in Values(s) : val' = [val EXCEPT ![x] = n]
  BY DEF Assign
<1>3. /\ abs' = [abs EXCEPT ![x] = Result(s)]
      /\ same' = [v \in Vars |-> IF v \in sharers THEN sharers ELSE same[v] \ {x}]
  BY DEF Assign, Sharing
<1>4. /\ n \in Int /\ InType(typ[x], n) /\ Fits(typ[x], Result(s)) /\ Contains(Result(s), n)
      /\ s.op = "copy" => n = Actual(s.b) /\ Result(s) = Operand(s.b) /\ typ[x] = s.type
  BY <1>1, Assigned
<1>5. /\ typ \in [Vars -> Types] /\ val \in [Vars -> Int] /\ same \in [Vars -> SUBSET Vars]
      /\ abs \in [Vars -> [kind : {"concrete", "range"}, lo : Int, hi : Int]]
  BY DEF IInv, TypeOK
<1>6. \A v \in Vars : /\ val'[v] = IF v = x THEN n ELSE val[v]
                      /\ abs'[v] = IF v = x THEN Result(s) ELSE abs[v]
  BY <1>2, <1>3, <1>5
\* Those who share the new value had it already.
<1>7. ASSUME NEW v \in sharers
      PROVE  v \in Vars /\ val'[v] = n /\ abs'[v] = Result(s) /\ typ[v] = typ[x]
  <2>1. CASE v = x
    BY <1>1, <1>6, <2>1
  <2>2. CASE v # x
    <3>1. s.op = "copy" /\ s.b \in Vars /\ v \in same[s.b]
      BY <1>7, <2>2
    <3>2. v \in Vars /\ val[v] = val[s.b] /\ abs[v] = abs[s.b] /\ typ[v] = typ[s.b]
      BY <3>1, SharedFacts
    <3>3. Actual(s.b) = val[s.b] /\ Operand(s.b) = abs[s.b] /\ typ[s.b] = s.type
      BY <1>1, <3>1, OperandFacts DEF Assignable
    <3>4. QED  BY <1>4, <1>6, <2>2, <3>1, <3>2, <3>3
  <2>3. QED  BY <2>1, <2>2
<1>8. \A v \in Vars : same'[v] = IF v \in sharers THEN sharers ELSE same[v] \ {x}
  BY <1>3
<1>9. \A v \in Vars : v \notin sharers => \A u \in same[v] : u = x \/ u \notin sharers
  <2> SUFFICES ASSUME NEW v \in Vars, v \notin sharers, NEW u \in same[v], u # x, u \in sharers
               PROVE  FALSE
    OBVIOUS
  <2>1. s.b \in Vars /\ u \in same[s.b] /\ same[s.b] \subseteq sharers
    OBVIOUS
  <2>2. same[u] = same[s.b] /\ v \in same[u]
    BY <2>1, SharedFacts
  <2>3. QED  BY <2>1, <2>2
<1>10. x \in sharers
  OBVIOUS
<1> HIDE DEF x, sharers
<1>11. \A v \in Vars : Fits(typ[v], abs'[v]) /\ Contains(abs'[v], val'[v]) /\ InType(typ[v], val'[v])
                       /\ val'[v] \in Int
  <2> TAKE v \in Vars
  <2>1. CASE v = x
    BY <1>4, <1>6, <2>1
  <2>2. CASE v # x
    BY <1>6, <2>2, VarFacts DEF Proper
  <2>3. QED  BY <2>1, <2>2
<1>12. TypeOK'
  <2>1. val' \in [Vars -> Int]
    BY <1>2, <1>4, <1>5
  <2>2. abs' \in [Vars -> [kind : {"concrete", "range"}, lo : Int, hi : Int]]
    <3>1. Result(s) \in [kind : {"concrete", "range"}, lo : Int, hi : Int]
      BY <1>4 DEF Fits
    <3>2. QED  BY <1>3, <1>5, <3>1
  <2>3. same' \in [Vars -> SUBSET Vars]
    <3>1. \A v \in Vars : same'[v] \in SUBSET Vars
      <4>1. sharers \subseteq Vars
        BY <1>7
      <4>2. QED  BY <1>5, <1>8, <4>1
    <3>2. QED  BY <1>3, <3>1
  <2>4. QED  BY <1>1, <1>5, <1>11, <2>1, <2>2, <2>3 DEF TypeOK, Fits, InType
<1>13. Sound'
  <2>1. ASSUME NEW v \in Vars, NEW u \in same'[v]
        PROVE  val'[v] = val'[u] /\ abs'[v] = abs'[u] /\ typ[v] = typ[u]
    <3>1. CASE v \in sharers
      BY <1>7, <1>8, <2>1, <3>1
    <3>2. CASE v \notin sharers
      <4>1. u \in same[v] /\ u # x /\ v # x
        BY <1>8, <1>10, <2>1, <3>2
      <4>2. u \in Vars /\ val[v] = val[u] /\ abs[v] = abs[u] /\ typ[v] = typ[u]
        BY <4>1, SharedFacts
      <4>3. QED  BY <1>6, <4>1, <4>2
    <3>3. QED  BY <3>1, <3>2
  <2>2. QED  BY <1>1, <1>11, <2>1 DEF Sound
<1>14. Shared'
  <2>1. ASSUME NEW v \in Vars PROVE v \in same'[v] /\ \A u \in same'[v] : same'[u] = same'[v]
    <3>1. CASE v \in sharers
      BY <1>7, <1>8, <3>1
    <3>2. CASE v \notin sharers
      <4>1. same'[v] = same[v] \ {x} /\ v # x
        BY <1>8, <1>10, <3>2
      <4>2. ASSUME NEW u \in same'[v] PROVE same'[u] = same'[v]
        <5>1. u \in same[v] /\ u # x /\ u \notin sharers
          BY <1>9, <3>2, <4>1
        <5>2. u \in Vars /\ same[u] = same[v]
          BY <5>1, SharedFacts
        <5>3. QED  BY <1>8, <4>1, <5>1, <5>2
      <4>3. v \in same[v]
        BY VarFacts
      <4>4. QED  BY <4>1, <4>2, <4>3
    <3>3. QED  BY <3>1, <3>2
  <2>2. QED  BY <2>1 DEF Shared
<1>15. QED  BY <1>12, <1>13, <1>14 DEF IInv

LEMMA Unchanged ==
    ASSUME IInv, UNCHANGED <<typ, val, abs, same>>, stmt' \in Stmts \cup {NoStmt, Raised}
    PROVE  IInv'
BY DEF IInv, TypeOK, Sound, Shared, Contains

\* Of any statements for which the corners bound the result, the invariant holds.
THEOREM Invariant ==
    ASSUME \A s \in Stmts : Bounded(s)
    PROVE  Spec => []IInv
<1>1. Init => IInv
  BY Initially
<1>2. IInv /\ [Next]_vars => IInv'
  <2> SUFFICES ASSUME IInv, [Next]_vars PROVE IInv'
    OBVIOUS
  <2>1. ASSUME NEW s \in Stmts, Split(s) PROVE IInv'
    BY <2>1, SplitPreserves
  <2>2. ASSUME NEW s \in Stmts, Assign(s) PROVE IInv'
    BY <2>2, AssignPreserves
  <2>3. ASSUME NEW s \in Stmts, Branch(s) PROVE IInv'
    BY <2>3, Unchanged DEF Branch
  <2>4. ASSUME NEW s \in Stmts, Raise(s) PROVE IInv'
    BY <2>4, Unchanged DEF Raise
  <2>5. CASE UNCHANGED vars
    <3>1. stmt' \in Stmts \cup {NoStmt, Raised}
      BY <2>5 DEF vars, IInv, TypeOK
    <3>2. QED  BY <2>5, <3>1, Unchanged DEF vars
  <2>6. QED  BY <2>1, <2>2, <2>3, <2>4, <2>5 DEF Next
<1>3. QED  BY <1>1, <1>2, PTL DEF Spec

-----------------------------------------------------------------------------
(***************************************************************************)
(* The theorems.                                                           *)
(***************************************************************************)
\* RangesTyped: no range leaves the limits of its type.
THEOREM RangesTyped ==
    ASSUME \A s \in Stmts : Bounded(s)
    PROVE  Spec => []TypeOK
BY Invariant, PTL DEF IInv

\* Soundness: every variable has a value within the AbstractValue that the state
\* has for it, after any number of operations, copies and splits.
THEOREM Soundness ==
    ASSUME \A s \in Stmts : Bounded(s)
    PROVE  Spec => []Sound
BY Invariant, PTL DEF IInv

\* Coverage: of the worlds that a split yields one is that of the execution.
THEOREM Coverage ==
    ASSUME \A s \in Stmts : Bounded(s)
    PROVE  Spec => []SplitsCover
<1>1. IInv => SplitsCover
  BY AlternativesFacts DEF SplitsCover
<1>2. QED  BY <1>1, Invariant, PTL

\* What eval_comparison decides of two known values or ranges is so.
LEMMA Decided ==
    ASSUME NEW t \in Types, NEW test \in RawTests, NEW l, NEW r, Proper(t, l), Proper(t, r),
           NEW a \in Int, NEW b \in Int, Contains(l, a), Contains(r, b), NEW is,
           l.kind = "concrete" \/ r.kind = "concrete" \/ test # "eq",
           l.kind = "concrete" /\ r.kind = "range" => ComparisonParts(t, test, l.lo, r) = {},
           l.kind = "range" /\ r.kind = "concrete" => ComparisonParts(t, Flip(test), r.lo, l) = {}
    PROVE  Raw(a, test, b) \in Compare(test, l, r, is)
<1>1. /\ l.kind = "concrete" \/ l.kind = "range"
      /\ r.kind = "concrete" \/ r.kind = "range"
      /\ l.lo \in Int /\ r.lo \in Int
      /\ l.kind = "concrete" => l.lo = a
      /\ r.kind = "concrete" => r.lo = b
  BY SMT DEF Proper, Fits, Contains
<1>2. Flip(test) \in RawTests /\ Raw(a, test, b) \in BOOLEAN
  BY RawBoolean
<1>3. CASE l.kind = "concrete" /\ r.kind = "concrete"
  BY <1>1, <1>3 DEF Compare
<1>4. CASE l.kind = "concrete" /\ r.kind = "range"
  <2>1. Raw(l.lo, test, b) = Raw(l.lo, test, r.lo)
    BY <1>1, <1>4, Unsplit
  <2>2. Compare(test, l, r, is) = {Raw(l.lo, test, r.lo)}
    BY <1>4 DEF Compare
  <2>3. QED  BY <1>1, <1>4, <2>1, <2>2
<1>5. CASE l.kind = "range" /\ r.kind = "concrete"
  <2>1. Raw(r.lo, Flip(test), a) = Raw(r.lo, Flip(test), l.lo)
    BY <1>1, <1>2, <1>5, Unsplit
  <2>2. Compare(test, l, r, is) = {Raw(r.lo, Flip(test), l.lo)}
    BY <1>5 DEF Compare
  <2>3. Raw(r.lo, Flip(test), a) <=> Raw(a, test, b)
    BY <1>1, <1>5, RawBoolean
  <2>4. Raw(r.lo, Flip(test), a) \in BOOLEAN
    BY <1>1, <1>2, RawBoolean
  <2>5. Raw(r.lo, Flip(test), a) = Raw(a, test, b)
    BY <1>2, <2>3, <2>4
  <2>6. QED  BY <2>1, <2>2, <2>5
<1>6. CASE l.kind = "range" /\ r.kind = "range"
  <2>1. Compare(test, l, r, is) = BOOLEAN
    BY <1>6 DEF Compare
  <2>2. QED  BY <1>2, <2>1
<1>7. QED  BY <1>1, <1>3, <1>4, <1>5, <1>6

\* Following: no branch that the execution takes is left out, as long as two
\* ranges are not compared for equality.
THEOREM Following ==
    ASSUME \A s \in Stmts : Bounded(s) /\ (s.op = "cond" /\ s.b \in Vars => s.test \notin {"eq", "ne"})
    PROVE  Spec => []BranchesFollowed
<1>1. ASSUME IInv, NEW s \in Stmts, Evaluated(s), s.op = "cond", Alternatives(s) = {}
      PROVE  Holds(s) \in Outcomes(s)
  <2> DEFINE l == Operand(s.a)
             r == Operand(s.b)
             t == s.type
             test == EqualityFor(s.test)
             is == s.b \in same[s.a]
             raw == Raw(Actual(s.a), test, Actual(s.b))
  <2>1. /\ t \in Types /\ test \in RawTests /\ s.test \in Tests
        /\ Proper(t, l) /\ Proper(t, r) /\ Actual(s.a) \in Int /\ Actual(s.b) \in Int
        /\ Contains(l, Actual(s.a)) /\ Contains(r, Actual(s.b))
    BY <1>1, OperandFacts, StmtFacts, TestFacts
  <2>2. r.kind = "concrete" \/ test # "eq"
    <3>1. s.b \in Vars => test # "eq"
      BY <1>1, <2>1 DEF EqualityFor, Tests
    <3>2. QED  BY <1>1, <3>1, OperandFacts
  <2>3. /\ l.kind = "concrete" /\ r.kind = "range" => ComparisonParts(t, test, l.lo, r) = {}
        /\ l.kind = "range" /\ r.kind = "concrete" => ComparisonParts(t, Flip(test), r.lo, l) = {}
    BY <1>1 DEF Alternatives, BinaryOps
  <2>4. raw \in Compare(test, l, r, is)
    BY <2>1, <2>2, <2>3, Decided
  <2>5. CASE s.test = "ne"
    <3>1. test = "eq"
      BY <2>5 DEF EqualityFor
    <3>2. Outcomes(s) = {~o : o \in Compare("eq", l, r, is)}
      BY <2>5 DEF Outcomes
    <3>3. Holds(s) = ~raw
      BY <2>5, <3>1 DEF Holds, Raw
    <3>4. QED  BY <2>4, <3>1, <3>2, <3>3
  <2>6. CASE s.test # "ne"
    <3>1. test = s.test /\ Outcomes(s) = Compare(test, l, r, is) /\ Holds(s) = raw
      BY <2>6 DEF EqualityFor, Outcomes, Holds
    <3>2. QED  BY <2>4, <3>1
  <2>7. QED  BY <2>5, <2>6
<1>2. IInv => BranchesFollowed
  BY <1>1 DEF BranchesFollowed
<1>3. \A s \in Stmts : Bounded(s)
  OBVIOUS
<1>4. Spec => []IInv
  BY <1>3, Invariant
<1>5. QED  BY <1>2, <1>4, PTL

\* Agreement: the assertion of eval_comparison, for any range and any known value.
THEOREM Agreement ==
    ASSUME \A s \in Stmts : Bounded(s)
    PROVE  Spec => []PartsAgree
<1>1. ASSUME IInv, NEW s \in Stmts, Evaluated(s), s.test \notin {"eq", "ne"},
             Operand(s.a).kind = "range", Operand(s.b).kind = "concrete",
             NEW n \in Boundaries(Operand(s.b).lo, Operand(s.a))
      PROVE  Raw(Operand(s.b).lo, Flip(s.test), n)
                 = Raw(Operand(s.b).lo, Flip(s.test), PartEnd(Operand(s.b).lo, Operand(s.a), n))
  <2> DEFINE l == Operand(s.a)
             c == Operand(s.b).lo
  <2>1. s.type \in Types /\ Proper(s.type, l) /\ Proper(s.type, Operand(s.b)) /\ s.test \in Tests
    BY <1>1, OperandFacts, StmtFacts
  <2>2. c \in Int
    BY <2>1 DEF Proper, Fits
  <2>3. Flip(s.test) \in RawTests
    BY <1>1, <2>1 DEF Flip, RawTests, Tests
  <2>4. n \in Int
    BY <2>1, <2>2, BoundariesFacts
  <2>5. PartEnd(c, l, n) \in Int /\ n <= PartEnd(c, l, n)
    BY <2>1, <2>2, PartEndFacts
  <2>6. PartEnd(c, l, n) <= PartEnd(c, l, n)
    BY <2>5, SMT
  <2>7. SameSide(c, PartEnd(c, l, n), n)
    BY <2>1, <2>2, <2>5, <2>6, PartOneSided
  <2> HIDE DEF l, c
  <2>8. Raw(c, Flip(s.test), PartEnd(c, l, n)) = Raw(c, Flip(s.test), n)
    BY <2>2, <2>3, <2>4, <2>5, <2>7, RawSide
  <2>9. QED  BY <2>8 DEF l, c
<1>2. IInv => PartsAgree
  BY <1>1, Zenon DEF PartsAgree
<1>3. QED  BY <1>2, Invariant, PTL

\* Errors: an error is predicted of a division where the divisor is zero, and nowhere else.
THEOREM Errors ==
    ASSUME \A s \in Stmts : Bounded(s)
    PROVE  Spec => []ErrorsReal
<1>1. ASSUME IInv, NEW s \in Stmts, Bounded(s), Evaluated(s), s.op \in BinaryOps, Alternatives(s) = {}
      PROVE  LET real == Errs(s.op, Actual(s.b))
             IN  /\ Predicted(s) => real
                 /\ real /\ Combines(Operand(s.a), Operand(s.b)) => Predicted(s)
  <2> DEFINE l == Operand(s.a)
             r == Operand(s.b)
             b == Actual(s.b)
  <2>1. BoundedOp(s.type, s.op)
    BY <1>1 DEF Bounded, BinaryOps
  <2>2. CASE s.op # "div"
    <3>1. \A x : ~Errs(s.op, x)
      BY <2>1, <2>2 DEF Errs, BoundedOp
    <3>2. QED  BY <3>1 DEF Predicted
  <2>3. CASE s.op = "div"
    <3>1. \A x : Errs(s.op, x) <=> x = 0
      BY <2>3 DEF Errs
    <3>2. s.type = "unsigned" /\ TMin(s.type) = 0
      BY <2>1, <2>3 DEF BoundedOp, TMin
    <3>3. /\ Proper(s.type, r) /\ Contains(r, b) /\ b \in Int /\ InType(s.type, b)
          /\ TMax(s.type) \in Int
      BY <1>1, OperandFacts, StmtFacts, Limits
    <3>4. OperandParts(s.type, s.op, l, r) = {}
      BY <1>1 DEF Alternatives, BinaryOps
    <3>5. /\ r.lo \in Int /\ r.hi \in Int /\ r.lo <= b /\ b <= r.hi /\ 0 <= b
          /\ r.kind = "concrete" => r.lo = r.hi
          /\ r.kind # "concrete" => 0 <= r.lo
      BY <3>2, <3>3, SMT DEF Proper, Fits, Contains, InType
    <3>6. Predicted(s) <=> Combines(l, r) /\ (r.lo = 0 \/ r.hi = 0)
      BY <1>1, <3>1 DEF Predicted
    <3>7. Combines(l, r) => (r.lo = 0 \/ r.hi = 0 <=> b = 0)
      <4> HIDE DEF l, r, b
      <4>1. CASE r.kind = "concrete"
        BY <3>3, <3>5, <4>1, SMT
      <4>2. CASE r.kind # "concrete" /\ l.kind # "concrete"
        <5>1. ~(r.lo = 0 /\ r.hi > 0)
          BY <2>3, <3>4, <4>2 DEF OperandParts
        <5>2. QED  BY <3>3, <3>5, <4>2, <5>1, SMT
      <4>3. QED  BY <4>1, <4>2 DEF Combines
    <3>8. (Predicted(s) => b = 0) /\ (b = 0 /\ Combines(l, r) => Predicted(s))
      BY <3>6, <3>7
    <3>9. QED  BY <3>1, <3>8
  <2>4. QED  BY <2>2, <2>3
<1>2. (\A s \in Stmts : Bounded(s)) /\ IInv => ErrorsReal
  BY <1>1 DEF ErrorsReal
<1>3. QED  BY <1>2, Invariant, PTL

\* After a split the statement has no alternatives left.
LEMMA SplitSettles ==
    ASSUME IInv, NEW s \in Stmts, Split(s)
    PROVE  Alternatives(s)' = {}
<1> DEFINE l == Operand(s.a)
           r == Operand(s.b)
           t == s.type
           test == EqualityFor(s.test)
           w == SplitOperand(s)
<1>1. PICK alt \in Alternatives(s) :
          abs' = [v \in Vars |-> IF v \in same[w] THEN alt ELSE abs[v]]
  BY DEF Split
<1>2. Evaluated(s) /\ s.a \in Vars
  BY StmtFacts DEF Split
<1>3. w \in Vars /\ Fits(t, alt) /\ abs[w].kind = "range"
  BY <1>1, <1>2, AlternativesFacts
<1>4. /\ Proper(t, l) /\ Proper(t, r) /\ t \in Types /\ test \in RawTests /\ Flip(test) \in RawTests
      /\ l.lo \in Int /\ r.lo \in Int
      /\ alt.kind = "concrete" \/ alt.kind = "range"
  BY <1>2, <1>3, OperandFacts, StmtFacts, TestFacts DEF Proper, Fits
<1>5. ASSUME NEW x \in {s.a, s.b}, x = w PROVE Operand(x)' = alt
  <2> HIDE DEF w
  <2>1. x \in Vars /\ x \in same[w]
    BY <1>3, <1>5, VarFacts
  <2>2. abs'[x] = alt
    BY <1>1, <2>1
  <2>3. QED  BY <2>1, <2>2 DEF Operand
\* A known value does not share the object that is split.
<1>6. ASSUME NEW x \in {s.a, s.b}, Operand(x).kind = "concrete"
      PROVE  Operand(x)' = Operand(x)
  <2>1. CASE x \in Vars
    <3>1. abs[x].kind = "concrete"
      BY <1>6, <2>1 DEF Operand
    <3>2. x \notin same[w]
      <4> HIDE DEF w
      <4>1. x \in same[w] => abs[w] = abs[x]
        BY <1>3, SharedFacts
      <4>2. QED  BY <1>3, <3>1, <4>1
    <3> HIDE DEF w
    <3>3. abs'[x] = abs[x]
      BY <1>1, <2>1, <3>2
    <3>4. QED  BY <2>1, <3>3 DEF Operand
  <2>2. CASE x \notin Vars
    BY <2>2 DEF Operand
  <2>3. QED  BY <2>1, <2>2
<1>7. CASE s.op \in BinaryOps
  <2>1. w = s.b /\ Alternatives(s) = OperandParts(t, s.op, l, r)
        /\ Alternatives(s)' = OperandParts(t, s.op, Operand(s.a)', Operand(s.b)')
    BY <1>7 DEF SplitOperand, Alternatives, BinaryOps
  <2>2. Operand(s.b)' = alt
    BY <1>5, <2>1
  <2>3. CASE alt.kind = "concrete"
    BY <2>1, <2>3, <2>2 DEF OperandParts
  <2>4. CASE alt.kind = "range"
    <3>1. OperandParts(t, s.op, Operand(s.a)', alt) = {}
      BY <1>1, <1>4, <1>7, <2>1, <2>4, OperandPartsGood
    <3>2. QED  BY <2>1, <2>2, <3>1
  <2>5. QED  BY <1>4, <2>3, <2>4
<1>8. CASE s.op \in {"cond", "set"} /\ l.kind = "concrete" /\ r.kind = "range"
  <2>1. w = s.b /\ Alternatives(s) = ComparisonParts(t, test, l.lo, r)
    BY <1>8 DEF SplitOperand, Alternatives, BinaryOps
  <2>2. Operand(s.a)' = l /\ Operand(s.b)' = alt
    BY <1>5, <1>6, <1>8, <2>1
  <2>3. CASE alt.kind = "concrete"
    <3>1. Operand(s.a)'.kind = "concrete" /\ Operand(s.b)'.kind = "concrete"
      BY <1>8, <2>2, <2>3
    <3>2. QED  BY <1>8, <3>1 DEF Alternatives, BinaryOps
  <2>4. CASE alt.kind = "range"
    <3>1. ComparisonParts(t, test, l.lo, alt) = {}
      BY <1>1, <1>4, <1>8, <2>1, <2>4, ComparisonPartsGood
    <3>2. Alternatives(s)' = ComparisonParts(t, test, l.lo, alt)
      BY <1>8, <2>2, <2>4 DEF Alternatives, BinaryOps
    <3>3. QED  BY <3>1, <3>2
  <2>5. QED  BY <1>4, <2>3, <2>4
<1>9. CASE s.op \in {"cond", "set"} /\ l.kind = "range" /\ r.kind = "concrete"
  <2>1. w = s.a /\ Alternatives(s) = ComparisonParts(t, Flip(test), r.lo, l)
    BY <1>9 DEF SplitOperand, Alternatives, BinaryOps
  <2>2. Operand(s.a)' = alt /\ Operand(s.b)' = r
    BY <1>5, <1>6, <1>9, <2>1
  <2>3. CASE alt.kind = "concrete"
    <3>1. Operand(s.a)'.kind = "concrete" /\ Operand(s.b)'.kind = "concrete"
      BY <1>9, <2>2, <2>3
    <3>2. QED  BY <1>9, <3>1 DEF Alternatives, BinaryOps
  <2>4. CASE alt.kind = "range"
    <3>1. ComparisonParts(t, Flip(test), r.lo, alt) = {}
      BY <1>1, <1>4, <1>9, <2>1, <2>4, ComparisonPartsGood
    <3>2. Alternatives(s)' = ComparisonParts(t, Flip(test), r.lo, alt)
      BY <1>9, <2>2, <2>4 DEF Alternatives, BinaryOps
    <3>3. QED  BY <3>1, <3>2
  <2>5. QED  BY <1>4, <2>3, <2>4
<1>10. QED  BY <1>1, <1>7, <1>8, <1>9 DEF Alternatives

\* Settling: a split is not followed by another of the same statement.
THEOREM Settling ==
    ASSUME \A s \in Stmts : Bounded(s)
    PROVE  Spec => []SplitsSettle
<1>1. NoStmt \notin Stmts /\ Raised \notin Stmts
  BY StmtFacts
<1>2. Init => SplitsSettle
  BY <1>1 DEF Init, SplitsSettle
<1>3. IInv /\ SplitsSettle /\ [Next]_vars => SplitsSettle'
  <2> SUFFICES ASSUME IInv, SplitsSettle, [Next]_vars PROVE SplitsSettle'
    OBVIOUS
  <2>1. ASSUME NEW s \in Stmts, Split(s) PROVE SplitsSettle'
    <3>1. stmt' = s /\ Alternatives(s)' = {}
      BY <2>1, SplitSettles DEF Split
    <3>2. Alternatives(stmt)' = {}
      BY <3>1 DEF Alternatives, Operand
    <3>3. QED  BY <3>2 DEF SplitsSettle
  <2>2. ASSUME NEW s \in Stmts, Assign(s) \/ Branch(s) \/ Raise(s) PROVE SplitsSettle'
    <3>1. stmt' \in {NoStmt, Raised}
      BY <2>2 DEF Assign, Branch, Raise
    <3>2. QED  BY <1>1, <3>1 DEF SplitsSettle
  <2>3. CASE UNCHANGED vars
    BY <2>3 DEF vars, SplitsSettle, Alternatives, Operand
  <2>4. QED  BY <2>1, <2>2, <2>3 DEF Next
<1>4. QED  BY <1>2, <1>3, Invariant, PTL DEF Spec

\* For integer types of any size, the splits for comparisons and divisions keep
\* every value, separate the results, and are not repeated.
THEOREM SplitsAreRight ==
    ASSUME \A s \in Stmts : Bounded(s)
    PROVE  Spec => []SplitsRight
<1>1. Spec => []SplitsCover   BY Coverage
<1>2. Spec => []PartsAgree    BY Agreement
<1>3. Spec => []SplitsSettle  BY Settling
<1>4. QED  BY <1>1, <1>2, <1>3, PTL DEF SplitsRight

\* The branch that the execution takes is followed, and an error is predicted of
\* an unsigned division by zero and of no other.
THEOREM OutcomesAreReal ==
    ASSUME \A s \in Stmts : Bounded(s) /\ (s.op = "cond" /\ s.b \in Vars => s.test \notin {"eq", "ne"})
    PROVE  Spec => []OutcomesReal
<1>1. Spec => []BranchesFollowed  BY Following
<1>2. Spec => []ErrorsReal        BY Errors
<1>3. QED  BY <1>1, <1>2, PTL DEF OutcomesReal
=============================================================================
