---------------------------- MODULE MCValueRanges ----------------------------
(***************************************************************************)
(* Instances of ValueRanges for TLC.                                       *)
(***************************************************************************)
EXTENDS ValueRanges

CONSTANTS x, y

MCSMin == -3

Stmt(op, test, type, lhs, a, b) ==
    [op |-> op, test |-> test, type |-> type, lhs |-> lhs, a |-> a, b |-> b]

\* The operations for which the four corners bound what the execution computes:
\* they are monotonic in each operand, and do not wrap.
ExactOps == [signed |-> {"plus", "minus", "mult", "max", "min", "lshift", "rshift"},
             unsigned |-> {"div", "max", "min", "rshift"}]
ExactUnary == [signed |-> {"neg", "not", "convert"}, unsigned |-> {"convert"}]

Binary == {Stmt(op, "eq", t, l, x, b) :
               op \in BinaryOps, t \in Types, l \in {x, y}, b \in {x, y, 1}}
Unary  == {Stmt(op, "eq", t, y, x, x) : op \in UnaryOps, t \in Types}
Moves  == {Stmt("copy", "eq", t, y, x, b) : t \in Types, b \in {x, 1}}
          \cup {Stmt("call", "eq", t, x, x, x) : t \in Types}
TestsOf(op, bs) == {Stmt(op, test, t, y, x, b) : test \in Tests, t \in Types, b \in bs}

Exact(s) == /\ s.op \in BinaryOps => s.op \in ExactOps[s.type]
            /\ s.op \in UnaryOps => s.op \in ExactUnary[s.type]

\* Two ranges are compared, but not for equality; what is assigned is a test that
\* can be decided.
MCStmts ==
    {s \in Binary \cup Unary : Exact(s)} \cup Moves \cup TestsOf("cond", {1}) \cup TestsOf("set", {1})
    \cup {s \in TestsOf("cond", {y}) : s.test \notin {"eq", "ne"}}
=============================================================================
