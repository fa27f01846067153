---------------------------- MODULE AbstractState ----------------------------
(***************************************************************************)
(* The abstract State of libcpychecker/absinterp.py and the transitions    *)
(* out of it: what one GIMPLE statement does to the checker's knowledge of *)
(* the variables.  Values are abstracted to what the control depends on:   *)
(* a pointer is NULL, non-NULL or unknown, an integer is negative, not     *)
(* negative or unknown, and any variable may still be uninitialized.       *)
(***************************************************************************)
EXTENDS Naturals, Sequences

CONSTANTS
    Nodes,      \* the StmtNodes of the StmtGraphs
    Blocks,     \* the gcc.BasicBlocks the nodes lie in
    PtrVars,    \* variables of pointer type
    IntVars,    \* variables of integer type
    Parms,      \* those that are gcc.ParmDecl; the others are local VarDecls
    Programs    \* the functions analysed, as StmtGraphs

Vars == PtrVars \cup IntVars

\* Statements with exactly one successor, then those with any number.
StraightOps == {"nop", "null", "addr", "assign", "newref", "call", "pass",
                "callneg", "deref"}
Ops == StraightOps \cup {"none", "switch", "cond", "return", "exit"}

\* lhs and rhs are read only by the operations that have them.
Stmts == [op : Ops, lhs : Vars, rhs : Vars]

StmtGraphs == [entry : Nodes, bb : [Nodes -> Blocks], stmt : [Nodes -> Stmts],
               succs : [Nodes -> Seq(Nodes)]]

ASSUME VarsAssumption == PtrVars \cap IntVars = {} /\ Parms \subseteq Vars

\* What the checker relies on: an entry block without statements, one way out of
\* a straight statement, two out of a condition, and no node that follows itself
\* (use_next_stmt_node asserts it) or follows another twice (GCC makes one edge
\* between two blocks).  GIMPLE is typed: both sides of a copy are pointers or
\* neither is, and what is allocated is a pointer.
ASSUME ProgramsAssumption ==
    /\ Programs \subseteq StmtGraphs
    /\ \A g \in Programs : g.stmt[g.entry].op = "none"
    /\ \A g \in Programs, n \in Nodes :
         /\ g.stmt[n].op \in StraightOps => Len(g.succs[n]) = 1
         /\ g.stmt[n].op = "cond" => Len(g.succs[n]) = 2
         /\ \A i \in 1..Len(g.succs[n]) : g.succs[n][i] # n
         /\ \A i, j \in 1..Len(g.succs[n]) : g.succs[n][i] = g.succs[n][j] => i = j
         /\ g.stmt[n].op = "assign" => (g.stmt[n].lhs \in PtrVars <=> g.stmt[n].rhs \in PtrVars)
         /\ g.stmt[n].op = "newref" => g.stmt[n].lhs \in PtrVars

-----------------------------------------------------------------------------
(***************************************************************************)
(* Values.  An UnknownValue has an identity, that of the Python object, so *)
(* that copies of it are known to be equal; split is the attribute         *)
(* fromsplit, present on the values a SplitValue has chosen.               *)
(***************************************************************************)
Ids   == Vars \X Nat
Kinds == {"uninit", "unknown", "null", "nonnull", "neg", "nonneg"}
Values == [kind : Kinds, id : Ids, split : BOOLEAN]

Value(kind, v) == [kind |-> kind, id |-> <<v, 0>>, split |-> FALSE]
Unknown(v, k)  == [kind |-> "unknown", id |-> <<v, k>>, split |-> FALSE]

States == [node : Nodes, store : [Vars -> Values], calls : Nat,
           fromsplit : BOOLEAN, has_returned : BOOLEAN, not_returning : BOOLEAN]

\* Parameters start unknown and locals uninitialized.
InitState(g) ==
    [node |-> g.entry,
     store |-> [v \in Vars |-> IF v \in Parms THEN Unknown(v, 0) ELSE Value("uninit", v)],
     calls |-> 0, fromsplit |-> FALSE, has_returned |-> FALSE, not_returning |-> FALSE]

\* State.copy, which leaves fromsplit behind, moved to node n.
Goto(s, n) == [s EXCEPT !.node = n, !.fromsplit = FALSE]

Next1(g, s) == Goto(s, g.succs[s.node][1])

Assign(s, v, val) == [s EXCEPT !.store[v] = val]

Transitions == [src : Nodes, dest : States]
Transition(s, d) == [src |-> s.node, dest |-> d]

-----------------------------------------------------------------------------
(***************************************************************************)
(* SplitValue: one world per alternative, in which every variable that     *)
(* holds that very value (Python's "is") gets the alternative instead.     *)
(***************************************************************************)
\* Mutants of SplitInto: only one of the copies is replaced; the alternative
\* is not marked as supposed.
SplitIntoFirst(s, val, kind) ==
    LET first == CHOOSE v \in Vars : s.store[v] = val
    IN  [s EXCEPT !.fromsplit = TRUE,
                  !.store = [v \in Vars |->
                      IF v = first
                      THEN [kind |-> kind, id |-> val.id, split |-> TRUE]
                      ELSE s.store[v]]]

SplitIntoUnmarked(s, val, kind) ==
    [s EXCEPT !.fromsplit = TRUE,
              !.store = [v \in Vars |->
                  IF s.store[v] = val
                  THEN [kind |-> kind, id |-> val.id, split |-> FALSE]
                  ELSE s.store[v]]]

SplitInto(s, val, kind) ==
    [s EXCEPT !.fromsplit = TRUE,
              !.store = [v \in Vars |->
                  IF s.store[v] = val
                  THEN [kind |-> kind, id |-> val.id, split |-> TRUE]
                  ELSE s.store[v]]]

\* Pointers are tried as non-NULL first; ranges in ascending order.
Split(s, v) ==
    LET val == s.store[v]
        alt(i) == IF v \in PtrVars THEN <<"nonnull", "null">>[i]
                                   ELSE <<"neg", "nonneg">>[i]
    IN  [i \in 1..2 |-> Transition(s, SplitInto(s, val, alt(i)))]

\* Conditions are "ptr == NULL" and "int < 0".  An unknown integer is split
\* whatever it is, an unknown pointer only if the operand is a VarDecl.
SplitsAtCond(v) == v \in IntVars \/ v \notin Parms

MustSplit(g, s) ==
    LET st == g.stmt[s.node]
    IN  /\ s.store[st.rhs].kind = "unknown"
        /\ \/ st.op = "deref"
           \/ st.op = "cond" /\ SplitsAtCond(st.rhs)

-----------------------------------------------------------------------------
(***************************************************************************)
(* PredictedError: the statement is known to fail in this state.           *)
(***************************************************************************)
Errors == [kind : {"none", "uninit", "null"}, isdefinite : BOOLEAN]
NoError == [kind |-> "none", isdefinite |-> FALSE]

ErrorAt(g, s) ==
    LET st  == g.stmt[s.node]
        val == s.store[st.rhs]
    IN  IF st.op \in {"deref", "cond", "pass"} /\ val.kind = "uninit"
          THEN [kind |-> "uninit", isdefinite |-> TRUE]
        ELSE IF st.op = "deref" /\ val.kind = "null"
          THEN [kind |-> "null", isdefinite |-> ~val.split]
        ELSE NoError

-----------------------------------------------------------------------------
(***************************************************************************)
(* State.get_transitions, for a state in which no PredictedError arises.   *)
(***************************************************************************)

\* Empty nodes and switches: every successor is possible.
ToAllSuccs(g, s) ==
    [i \in 1..Len(g.succs[s.node]) |-> Transition(s, Goto(s, g.succs[s.node][i]))]

\* The result of a call of which nothing is known: a value not seen before.
UnknownResult(g, s) ==
    LET v == g.stmt[s.node].lhs
    IN  [Assign(Next1(g, s), v, Unknown(v, s.calls + 1)) EXCEPT !.calls = @ + 1]

\* A function marked as setting an exception on a negative result: the
\* successor is split at once, and the transitions lead from it.
NegativeOrNot(g, s) == Split(UnknownResult(g, s), g.stmt[s.node].lhs)

\* A new reference, or NULL with an exception; neither is marked fromsplit.
NewRefOrFail(g, s) ==
    LET v == g.stmt[s.node].lhs
    IN  <<Transition(s, Assign(Next1(g, s), v, Value("nonnull", v))),
          Transition(s, Assign(Next1(g, s), v, Value("null", v)))>>

\* successor 1 is the true edge, successor 2 the false one.
CondTransitions(g, s) ==
    LET kind   == s.store[g.stmt[s.node].rhs].kind
        edge(i) == Transition(s, Goto(s, g.succs[s.node][i]))
    IN  IF kind \in {"null", "neg"} THEN <<edge(1)>>
        ELSE IF kind = "unknown" THEN <<edge(1), edge(2)>>
        ELSE <<edge(2)>>

Returning(s) == <<Transition(s, [s EXCEPT !.has_returned = TRUE, !.fromsplit = FALSE])>>
NotReturning(s) == <<Transition(s, [s EXCEPT !.not_returning = TRUE, !.fromsplit = FALSE])>>

Straight(g, s) ==
    LET st == g.stmt[s.node]
        n  == Next1(g, s)
    IN  CASE st.op \in {"nop", "deref"} -> n
          [] st.op = "null"   -> Assign(n, st.lhs, Value("null", st.lhs))
          [] st.op = "addr"   -> Assign(n, st.lhs, Value("nonnull", st.lhs))
          [] st.op = "assign" -> Assign(n, st.lhs, s.store[st.rhs])
          [] st.op \in {"call", "pass"} -> UnknownResult(g, s)

GetTransitions(g, s) ==
    LET op == g.stmt[s.node].op
    IN  IF MustSplit(g, s) THEN Split(s, g.stmt[s.node].rhs)
        ELSE CASE op \in {"none", "switch"} -> ToAllSuccs(g, s)
               [] op = "callneg" -> NegativeOrNot(g, s)
               [] op = "newref"  -> NewRefOrFail(g, s)
               [] op = "cond"    -> CondTransitions(g, s)
               [] op = "return"  -> Returning(s)
               [] op = "exit"    -> NotReturning(s)
               [] OTHER          -> <<Transition(s, Straight(g, s))>>
=============================================================================
