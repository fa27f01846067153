--------------------------- MODULE IterTraces_proofs ---------------------------
(***************************************************************************)
(* For every function, every set of variables and every budget: the search *)
(* is well typed, keeps to its limits and loses no trace; every trace is   *)
(* feasible, every definite error inevitable, and every run that does not  *)
(* loop is covered by exactly one trace.                                   *)
(***************************************************************************)
EXTENDS ConcreteRuns, FiniteSetTheorems, SequenceTheorems, WellFoundedInduction, TLAPS

-----------------------------------------------------------------------------
(***************************************************************************)
(* Sequences as stacks.                                                    *)
(***************************************************************************)

\* The rest and the top of a stack that is not empty.
LEMMA PopProperties ==
    ASSUME NEW S, NEW s \in Seq(S), s # <<>>
    PROVE  /\ Len(s) \in Nat \ {0}
           /\ Last(s) \in S
           /\ Front(s) \in Seq(S)
           /\ Len(Front(s)) = Len(s) - 1
           /\ \A i \in 1..(Len(s) - 1) : Front(s)[i] = s[i]
<1>1. Len(s) \in Nat \ {0}
  BY EmptySeq, LenProperties
<1>2. Last(s) \in S
  BY <1>1, ElementOfSeq DEF Last
<1>3. \A i \in 1..(Len(s) - 1) : s[i] \in S
  BY <1>1, ElementOfSeq
<1>4. /\ SubSeq(s, 1, Len(s) - 1) \in Seq(S)
      /\ Len(SubSeq(s, 1, Len(s) - 1)) = IF 1 <= Len(s) - 1 THEN Len(s) - 1 - 1 + 1 ELSE 0
      /\ \A i \in 1..(Len(s) - 1 - 1 + 1) : SubSeq(s, 1, Len(s) - 1)[i] = s[1 + i - 1]
  <2>1. 1 \in Int /\ Len(s) - 1 \in Int
    BY <1>1
  <2> QED
    BY <2>1, <1>3, SubSeqProperties
<1>5. Len(Front(s)) = Len(s) - 1 /\ Front(s) \in Seq(S)
  <2>1. Front(s) = SubSeq(s, 1, Len(s) - 1)
    BY DEF Front
  <2>2. \A n \in Nat \ {0} : (IF 1 <= n - 1 THEN n - 1 - 1 + 1 ELSE 0) = n - 1
    OBVIOUS
  <2>3. Len(SubSeq(s, 1, Len(s) - 1)) = Len(s) - 1
    BY <2>2, <1>1, <1>4
  <2>4. Front(s) \in Seq(S)
    BY <2>1, <1>4, Zenon
  <2> QED
    BY <2>1, <2>3, <2>4, Zenon
<1>6. \A i \in 1..(Len(s) - 1) : Front(s)[i] = s[i]
  <2> SUFFICES ASSUME NEW i \in 1..(Len(s) - 1)
               PROVE  Front(s)[i] = s[i]
    OBVIOUS
  <2>1. i \in 1..(Len(s) - 1 - 1 + 1) /\ 1 + i - 1 = i
    BY <1>1
  <2> QED
    BY <2>1, <1>4 DEF Front
<1> QED
  BY <1>1, <1>2, <1>5, <1>6

-----------------------------------------------------------------------------
(***************************************************************************)
(* The abstract state and its transitions are well typed.                  *)
(***************************************************************************)

\* The state in which the analysis of a function starts.
LEMMA InitStateType ==
    ASSUME NEW h \in StmtGraphs
    PROVE  InitState(h) \in States
<1>1. h.entry \in Nodes
  BY DEF StmtGraphs
<1>2. \A v \in Vars : Unknown(v, 0) \in Values /\ Value("uninit", v) \in Values
  BY DEF Unknown, Value, Values, Ids, Kinds
<1> QED
  BY <1>1, <1>2 DEF InitState, States

\* Moving to another node.
LEMMA GotoType ==
    ASSUME NEW s \in States, NEW n \in Nodes
    PROVE  Goto(s, n) \in States
BY DEF Goto, States

\* Assigning a value of a variable or a constant.
LEMMA AssignType ==
    ASSUME NEW s \in States, NEW v \in Vars, NEW x \in Values
    PROVE  Assign(s, v, x) \in States
BY DEF Assign, States

\* What a variable or a constant evaluates to.
LEMMA ValueType ==
    ASSUME NEW v \in Vars, NEW kind \in Kinds
    PROVE  Value(kind, v) \in Values
BY DEF Value, Values, Ids

\* Splitting a value gives one state per alternative.
LEMMA SplitType ==
    ASSUME NEW s \in States, NEW v \in Vars
    PROVE  Split(s, v) \in Seq(Transitions)
<1> DEFINE alt(i) == IF v \in PtrVars THEN <<"nonnull", "null">>[i]
                                      ELSE <<"neg", "nonneg">>[i]
<1>1. s.store[v] \in Values
  BY DEF States
<1>2. \A kind \in Kinds : SplitInto(s, s.store[v], kind) \in States
  <2> SUFFICES ASSUME NEW kind \in Kinds
               PROVE  SplitInto(s, s.store[v], kind) \in States
    OBVIOUS
  <2>1. [kind |-> kind, id |-> s.store[v].id, split |-> TRUE] \in Values
    BY <1>1 DEF Values
  <2>2. [w \in Vars |-> IF s.store[w] = s.store[v]
                        THEN [kind |-> kind, id |-> s.store[v].id, split |-> TRUE]
                        ELSE s.store[w]] \in [Vars -> Values]
    BY <2>1 DEF States
  <2> QED
    BY <2>2, Zenon DEF SplitInto, States
<1>3. \A i \in 1..2 : alt(i) \in Kinds
  BY DEF Kinds
<1>4. \A i \in 1..2 : Transition(s, SplitInto(s, s.store[v], alt(i))) \in Transitions
  <2>1. s.node \in Nodes
    BY DEF States
  <2> QED
    BY <2>1, <1>2, <1>3 DEF Transition, Transitions
<1>5. [i \in 1..2 |-> Transition(s, SplitInto(s, s.store[v], alt(i)))] \in Seq(Transitions)
  BY <1>4, IsASeq
<1> QED
  BY <1>5 DEF Split

\* The statement at a node, and what a straight one is followed by.
LEMMA StmtType ==
    ASSUME NEW h \in Programs, NEW s \in States
    PROVE  /\ s.node \in Nodes
           /\ h.stmt[s.node] \in Stmts
           /\ h.succs[s.node] \in Seq(Nodes)
           /\ h.stmt[s.node].op \in StraightOps => Next1(h, s) \in States
           /\ h.stmt[s.node].op = "cond" =>
                 \A i \in 1..2 : h.succs[s.node][i] \in Nodes
<1>1. h \in StmtGraphs
  BY ProgramsAssumption
<1>2. s.node \in Nodes
  BY DEF States
<1>3. h.stmt[s.node] \in Stmts /\ h.succs[s.node] \in Seq(Nodes)
  BY <1>1, <1>2 DEF StmtGraphs
<1>4. ASSUME h.stmt[s.node].op \in StraightOps
      PROVE  Next1(h, s) \in States
  <2>1. Len(h.succs[s.node]) = 1
    BY <1>2, <1>4, ProgramsAssumption
  <2>2. h.succs[s.node][1] \in Nodes
    BY <2>1, <1>3, ElementOfSeq
  <2> QED
    BY <2>2, GotoType DEF Next1
<1>5. ASSUME h.stmt[s.node].op = "cond"
      PROVE  \A i \in 1..2 : h.succs[s.node][i] \in Nodes
  <2>1. Len(h.succs[s.node]) = 2
    BY <1>2, <1>5, ProgramsAssumption
  <2> QED
    BY <2>1, <1>3, ElementOfSeq
<1> QED
  BY <1>2, <1>3, <1>4, <1>5

\* What follows a call of a function that is not known.
LEMMA UnknownResultType ==
    ASSUME NEW h \in Programs, NEW s \in States,
           h.stmt[s.node].op \in StraightOps
    PROVE  UnknownResult(h, s) \in States
<1> DEFINE v == h.stmt[s.node].lhs
           t == Assign(Next1(h, s), v, Unknown(v, s.calls + 1))
<1>1. v \in Vars /\ Next1(h, s) \in States
  BY StmtType DEF Stmts
<1>2. Unknown(v, s.calls + 1) \in Values
  BY <1>1 DEF Unknown, Values, Ids, Kinds, States
<1>3. t \in States
  BY <1>1, <1>2, AssignType, SMTT(30)
<1>4. [t EXCEPT !.calls = t.calls + 1] \in States
  <2>1. t.calls \in Nat /\ t.calls + 1 \in Nat
    BY <1>3 DEF States
  <2> QED
    BY <1>3, <2>1 DEF States
<1> QED
  BY <1>4 DEF UnknownResult

\* What follows an assignment of each kind.
LEMMA StraightType ==
    ASSUME NEW h \in Programs, NEW s \in States,
           h.stmt[s.node].op \in StraightOps \ {"newref", "callneg"}
    PROVE  Straight(h, s) \in States
<1> DEFINE st == h.stmt[s.node]
<1>1. /\ st.lhs \in Vars /\ st.rhs \in Vars
      /\ Next1(h, s) \in States
  BY StmtType DEF Stmts
<1>2. /\ Value("null", st.lhs) \in Values
      /\ Value("nonnull", st.lhs) \in Values
      /\ s.store[st.rhs] \in Values
  BY <1>1, ValueType DEF Kinds, States
<1>3. UnknownResult(h, s) \in States
  BY UnknownResultType
<1>4. CASE st.op \in {"nop", "deref"}
  BY <1>1, <1>4 DEF Straight
<1>5. CASE st.op = "null"
  <2>1. Straight(h, s) = Assign(Next1(h, s), st.lhs, Value("null", st.lhs))
    BY <1>5 DEF Straight
  <2> QED
    BY <2>1, <1>1, <1>2, AssignType
<1>6. CASE st.op = "addr"
  <2>1. Straight(h, s) = Assign(Next1(h, s), st.lhs, Value("nonnull", st.lhs))
    BY <1>6 DEF Straight
  <2> QED
    BY <2>1, <1>1, <1>2, AssignType
<1>7. CASE st.op = "assign"
  <2>1. Straight(h, s) = Assign(Next1(h, s), st.lhs, s.store[st.rhs])
    BY <1>7 DEF Straight
  <2> QED
    BY <2>1, <1>1, <1>2, AssignType
<1>8. CASE st.op \in {"call", "pass"}
  BY <1>3, <1>8 DEF Straight
<1> QED
  BY <1>4, <1>5, <1>6, <1>7, <1>8 DEF StraightOps

\* One or two transitions written out are a sequence of transitions.
LEMMA OneOrTwo ==
    ASSUME NEW t \in Transitions, NEW u \in Transitions
    PROVE  <<t>> \in Seq(Transitions) /\ <<t, u>> \in Seq(Transitions)
OBVIOUS

\* A transition is a record of two states.
LEMMA TransitionType ==
    ASSUME NEW s \in States, NEW t \in States
    PROVE  Transition(s, t) \in Transitions
BY DEF Transition, Transitions, States

\* get_transitions returns a list of Transitions, whatever the statement: no
\* operation is left without a case.
LEMMA GetTransitionsType ==
    ASSUME NEW h \in Programs, NEW s \in States
    PROVE  GetTransitions(h, s) \in Seq(Transitions)
<1> DEFINE st == h.stmt[s.node]
<1>1. /\ s.node \in Nodes
      /\ st.op \in Ops /\ st.lhs \in Vars /\ st.rhs \in Vars
      /\ h.succs[s.node] \in Seq(Nodes)
  BY StmtType DEF Stmts
<1>2. CASE MustSplit(h, s)
  BY <1>1, <1>2, SplitType DEF GetTransitions
<1>3. CASE ~MustSplit(h, s) /\ st.op \in {"none", "switch"}
  <2>1. \A i \in 1..Len(h.succs[s.node]) :
            Transition(s, Goto(s, h.succs[s.node][i])) \in Transitions
    BY <1>1, ElementOfSeq, GotoType, TransitionType
  <2>2. Len(h.succs[s.node]) \in Nat
    BY <1>1, LenProperties
  <2>3. ToAllSuccs(h, s) \in Seq(Transitions)
    BY <2>1, <2>2, IsASeq DEF ToAllSuccs
  <2> QED
    BY <2>3, <1>3 DEF GetTransitions
<1>4. CASE ~MustSplit(h, s) /\ st.op = "callneg"
  <2>1. NegativeOrNot(h, s) \in Seq(Transitions)
    BY <1>1, <1>4, UnknownResultType, SplitType DEF NegativeOrNot, StraightOps
  <2> QED
    BY <2>1, <1>4 DEF GetTransitions
<1>5. CASE ~MustSplit(h, s) /\ st.op = "newref"
  <2>1. Next1(h, s) \in States
    BY <1>5, StmtType DEF StraightOps
  <2>2. /\ Value("nonnull", st.lhs) \in Values
        /\ Value("null", st.lhs) \in Values
    BY <1>1, ValueType DEF Kinds
  <2>3. NewRefOrFail(h, s) \in Seq(Transitions)
    BY <1>1, <2>1, <2>2, AssignType, TransitionType, OneOrTwo DEF NewRefOrFail
  <2> QED
    BY <2>3, <1>5 DEF GetTransitions
<1>6. CASE ~MustSplit(h, s) /\ st.op = "cond"
  <2>1. \A i \in 1..2 : h.succs[s.node][i] \in Nodes
    BY <1>6, StmtType
  <2>2. \A i \in 1..2 : Transition(s, Goto(s, h.succs[s.node][i])) \in Transitions
    BY <2>1, GotoType, TransitionType
  <2>3. CondTransitions(h, s) \in Seq(Transitions)
    BY <2>2, OneOrTwo DEF CondTransitions
  <2> QED
    BY <2>3, <1>6 DEF GetTransitions
<1>7. CASE ~MustSplit(h, s) /\ st.op = "return"
  <2>1. [s EXCEPT !.has_returned = TRUE, !.fromsplit = FALSE] \in States
    BY DEF States
  <2>2. Returning(s) \in Seq(Transitions)
    BY <2>1, TransitionType, OneOrTwo DEF Returning
  <2> QED
    BY <2>2, <1>7 DEF GetTransitions
<1>8. CASE ~MustSplit(h, s) /\ st.op = "exit"
  <2>1. [s EXCEPT !.not_returning = TRUE, !.fromsplit = FALSE] \in States
    BY DEF States
  <2>2. NotReturning(s) \in Seq(Transitions)
    BY <2>1, TransitionType, OneOrTwo DEF NotReturning
  <2> QED
    BY <2>2, <1>8 DEF GetTransitions
<1>9. CASE /\ ~MustSplit(h, s)
           /\ st.op \in StraightOps \ {"newref", "callneg"}
  <2>1. <<Transition(s, Straight(h, s))>> \in Seq(Transitions)
    BY <1>9, StraightType, TransitionType, OneOrTwo
  <2> QED
    BY <2>1, <1>9 DEF GetTransitions, StraightOps
<1> QED
  BY <1>1, <1>2, <1>3, <1>4, <1>5, <1>6, <1>7, <1>8, <1>9 DEF Ops

-----------------------------------------------------------------------------
(***************************************************************************)
(* Type correctness.  The invariant is inductive together with what the    *)
(* interpreter's position implies: a call has one prefix, the loop and its *)
(* transitions a frame, and the trace kept outside the loop is empty.      *)
(***************************************************************************)

Positions ==
    /\ pc = "call" => Len(val) = 1
    /\ pc \in {"loop", "done"} => val = <<>>
    /\ pc = "loop" => stack # <<>>
    /\ pc # "done" => traces = <<>>

TypeInv == TypeOK /\ g \in Programs /\ Positions

\* The state a call of iter_traces continues from.
LEMMA CurStateType ==
    ASSUME g \in Programs, NEW t \in Traces
    PROVE  CurState(t) \in States
<1>1. g \in StmtGraphs
  BY ProgramsAssumption
<1>2. t.states \in Seq(States)
  BY DEF Traces
<1> QED
  BY <1>1, <1>2, InitStateType, PopProperties DEF CurState

\* Trace.add of a transition gives a trace.
LEMMA AddType ==
    ASSUME g \in Programs, NEW t \in Traces, NEW tr \in Transitions
    PROVE  Add(t, tr) \in Traces
<1> DEFINE src == g.bb[tr.src]
           dest == g.bb[tr.dest.node]
           paths == IF src # dest THEN Append(t.paths_taken, <<src, dest>>) ELSE t.paths_taken
<1>1. src \in Blocks /\ dest \in Blocks /\ tr.dest \in States
  BY ProgramsAssumption DEF StmtGraphs, Transitions, States
<1>2. Append(t.states, tr.dest) \in Seq(States)
  BY <1>1 DEF Traces
<1>3. paths \in Seq(BlockPairs)
  BY <1>1 DEF Traces, BlockPairs
<1>4. [t EXCEPT !.states = Append(t.states, tr.dest), !.tail = src, !.paths_taken = paths]
         \in Traces
  BY <1>1, <1>2, <1>3 DEF Traces
<1> QED
  BY <1>4 DEF Add

\* What the first action's guards read, for a call.
LEMMA CallType ==
    ASSUME TypeInv, pc = "call"
    PROVE  val[1] \in Traces /\ CurState(val[1]) \in States
<1>1. val \in Seq(Traces) /\ Len(val) = 1
  BY DEF TypeInv, TypeOK, Positions
<1>2. 1 \in 1..Len(val)
  BY <1>1
<1>3. val[1] \in Traces
  BY <1>1, <1>2, ElementOfSeq
<1> QED
  BY <1>3, CurStateType DEF TypeInv

\* The call that is running is one of the stack's.
LEMMA TopType ==
    ASSUME TypeInv, stack # <<>>
    PROVE  /\ Top \in Frames /\ Pop \in Seq(Frames)
           /\ Top.prefix \in Traces
           /\ Top.todo \in Seq(Transitions)
           /\ Top.result \in Seq(Traces)
<1>1. Top \in Frames /\ Pop \in Seq(Frames)
  BY PopProperties DEF TypeInv, TypeOK, Top, Pop
<1> QED
  BY <1>1 DEF Frames

\* A predicted error is one of those there are.
LEMMA ErrorType ==
    ASSUME NEW h, NEW s
    PROVE  ErrorAt(h, s) \in Errors
BY DEF ErrorAt, Errors, NoError

\* The search starts well typed.
LEMMA InitTypeInv == Init => TypeInv
<1> SUFFICES ASSUME Init PROVE TypeInv
  OBVIOUS
<1>1. EmptyTrace \in Traces
  BY ProgramsAssumption DEF Init, EmptyTrace, Traces, StmtGraphs, Errors, NoError
<1>2. <<EmptyTrace>> \in Seq(Traces) /\ Len(<<EmptyTrace>>) = 1
  BY <1>1
<1>3. limits \in [maxtrans : MaxTransOptions, trans_seen : Nat]
  BY DEF Init
<1>4. <<>> \in Seq(Traces) /\ <<>> \in Seq(Frames)
  OBVIOUS
<1>5. g \in StmtGraphs
  BY ProgramsAssumption DEF Init
<1> QED
  BY <1>2, <1>3, <1>4, <1>5 DEF Init, TypeInv, TypeOK, Positions

\* Every step of the search keeps it well typed.
LEMMA NextTypeInv == TypeInv /\ [Next]_vars => TypeInv'
<1> SUFFICES ASSUME TypeInv, [Next]_vars
             PROVE  TypeInv'
  OBVIOUS
<1> USE DEF TypeInv, TypeOK, Positions
<1>1. ASSUME CallTerminated PROVE TypeInv'
  BY <1>1 DEF CallTerminated, Return
<1>2. ASSUME CallLooped PROVE TypeInv'
  BY <1>2 DEF CallLooped, Return
<1>3. ASSUME CallPredictedError PROVE TypeInv'
  <2>1. [val[1] EXCEPT !.err = ErrorAt(g, CurState(val[1]))] \in Traces
    BY <1>3, CallType, ErrorType DEF CallPredictedError, Interprets, Traces
  <2> QED
    BY <2>1, <1>3 DEF CallPredictedError, Interprets, Return
<1>4. ASSUME CallExpand PROVE TypeInv'
  <2> DEFINE f == [prefix |-> val[1], todo |-> GetTransitions(g, CurState(val[1])),
                   result |-> <<>>]
  <2>1. f \in Frames
    BY <1>4, CallType, GetTransitionsType DEF CallExpand, Interprets, Frames
  <2>2. Append(stack, f) \in Seq(Frames) /\ Append(stack, f) # <<>>
    BY <2>1, AppendProperties
  <2>3. <<>> \in Seq(Traces)
    OBVIOUS
  <2> QED
    BY <2>2, <2>3, <1>4 DEF CallExpand, Interprets
<1>5. ASSUME CallNoTransitions PROVE TypeInv'
  BY <1>5 DEF CallNoTransitions, Interprets, Return
<1>6. ASSUME LoopRecurse PROVE TypeInv'
  <2> DEFINE f == [Top EXCEPT !.todo = Tail(Top.todo)]
  <2>1. /\ Head(Top.todo) \in Transitions
        /\ Tail(Top.todo) \in Seq(Transitions)
    BY <1>6, TopType, HeadTailProperties DEF LoopRecurse
  <2>2. f \in Frames
    BY <1>6, <2>1, TopType DEF LoopRecurse, Frames
  <2>3. Append(Pop, f) \in Seq(Frames)
    BY <1>6, <2>2, TopType, AppendProperties DEF LoopRecurse
  <2>4. Add(Top.prefix, Head(Top.todo)) \in Traces
    BY <1>6, <2>1, TopType, AddType DEF LoopRecurse
  <2>5. limits' \in [maxtrans : MaxTransOptions, trans_seen : Nat]
    BY <1>6 DEF LoopRecurse
  <2> QED
    BY <2>3, <2>4, <2>5, <1>6 DEF LoopRecurse
<1>7. ASSUME LoopTooComplicated PROVE TypeInv'
  <2>1. limits' \in [maxtrans : MaxTransOptions, trans_seen : Nat]
    BY <1>7 DEF LoopTooComplicated
  <2> QED
    BY <2>1, <1>7, TopType DEF LoopTooComplicated
<1>8. ASSUME LoopEnd PROVE TypeInv'
  BY <1>8, TopType DEF LoopEnd
<1>9. ASSUME Receive PROVE TypeInv'
  <2> DEFINE f == [Top EXCEPT !.result = Top.result \o val]
  <2>1. Top.result \o val \in Seq(Traces)
    BY <1>9, TopType, ConcatProperties DEF Receive
  <2>2. f \in Frames
    BY <1>9, <2>1, TopType DEF Receive, Frames
  <2>3. Append(Pop, f) \in Seq(Frames) /\ Append(Pop, f) # <<>>
    <3>1. Pop \in Seq(Frames)
      BY <1>9, TopType DEF Receive
    <3> HIDE DEF f
    <3> QED
      BY <2>2, <3>1, AppendProperties
  <2>4. <<>> \in Seq(Traces)
    OBVIOUS
  <2> QED
    BY <2>3, <2>4, <1>9 DEF Receive
<1>10. ASSUME Propagate PROVE TypeInv'
  <2>1. val \o Top.result \in Seq(Traces)
    BY <1>10, TopType, ConcatProperties DEF Propagate
  <2> QED
    BY <2>1, <1>10, TopType DEF Propagate
<1>11. ASSUME Deliver PROVE TypeInv'
  <2>1. <<>> \in Seq(Traces)
    OBVIOUS
  <2> QED
    BY <2>1, <1>11 DEF Deliver
<1>12. CASE UNCHANGED vars
  BY <1>12 DEF vars
<1> QED
  BY <1>1, <1>2, <1>3, <1>4, <1>5, <1>6, <1>7, <1>8, <1>9, <1>10, <1>11, <1>12 DEF Next

\* The search is well typed: in particular every list of transitions built by
\* the handlers, and every trace passed up the recursion, is what its receiver
\* expects (check_isinstance throughout absinterp.py).
THEOREM TypeCorrect == Spec => []TypeOK
<1>1. TypeInv => TypeOK
  BY DEF TypeInv
<1> QED
  BY <1>1, InitTypeInv, NextTypeInv, PTL DEF Spec

-----------------------------------------------------------------------------
(***************************************************************************)
(* The limits.  While the search goes on they are not exceeded; an         *)
(* exception is on its way up exactly if they were, by one.                *)
(***************************************************************************)
Budget ==
    /\ pc \in {"call", "loop", "return"} => limits.trans_seen <= limits.maxtrans
    /\ pc = "raise" => limits.trans_seen = limits.maxtrans + 1
    /\ pc = "done" /\ complicated => limits.trans_seen = limits.maxtrans + 1
    /\ pc = "done" /\ ~complicated => limits.trans_seen <= limits.maxtrans

\* The budget and the count of transitions are numbers.
LEMMA LimitsType ==
    ASSUME TypeInv
    PROVE  limits.trans_seen \in Nat /\ limits.maxtrans \in Nat
BY MaxTransAssumption DEF TypeInv, TypeOK

\* Every step keeps to the budget.
LEMMA NextBudget == TypeInv /\ Budget /\ [Next]_vars => Budget'
<1> SUFFICES ASSUME TypeInv, Budget, [Next]_vars
             PROVE  Budget'
  OBVIOUS
<1> USE DEF Budget
<1>1. ASSUME \/ CallTerminated \/ CallLooped \/ CallPredictedError
             \/ CallExpand \/ CallNoTransitions \/ LoopEnd \/ Receive
      PROVE  Budget'
  BY <1>1 DEF CallTerminated, CallLooped, CallPredictedError, CallExpand,
              CallNoTransitions, Interprets, LoopEnd, Receive, Return
<1>2. ASSUME LoopRecurse PROVE Budget'
  BY <1>2, LimitsType DEF LoopRecurse, TypeInv, TypeOK
<1>3. ASSUME LoopTooComplicated PROVE Budget'
  BY <1>3, LimitsType DEF LoopTooComplicated, TypeInv, TypeOK
<1>4. ASSUME Propagate PROVE Budget'
  BY <1>4 DEF Propagate
<1>5. ASSUME Deliver PROVE Budget'
  BY <1>5 DEF Deliver
<1>6. CASE UNCHANGED vars
  BY <1>6 DEF vars
<1> QED
  BY <1>1, <1>2, <1>3, <1>4, <1>5, <1>6 DEF Next

\* Whatever the budget, the search exceeds it by at most the transition that
\* trips it, explores nothing afterwards, and the caller hears that paths are
\* missing if and only if it was tripped (Limits.on_transition).
THEOREM Limited == Spec => []LimitsRespected
<1>1. Init => Budget
  BY MaxTransAssumption DEF Init, Budget
<1>2. TypeInv /\ Budget => LimitsRespected
  <2> SUFFICES ASSUME TypeInv, Budget PROVE LimitsRespected
    OBVIOUS
  <2>1. pc \in {"call", "loop", "return", "raise", "done"} /\ complicated \in BOOLEAN
    BY DEF TypeInv, TypeOK
  <2> QED
    BY <2>1, LimitsType DEF Budget, LimitsRespected
<1> QED
  BY <1>1, <1>2, InitTypeInv, NextTypeInv, NextBudget, PTL DEF Spec

-----------------------------------------------------------------------------
(***************************************************************************)
(* Progress: how many steps the search has left at the most.  A transition *)
(* is worth a call, the loop, the end of the loop and the receipt of what  *)
(* is returned.                                                            *)
(***************************************************************************)
StepsOf == [call |-> 4, return |-> 2, loop |-> 1, raise |-> 1, done |-> 0]

StepsLeft ==
    4 * (limits.maxtrans + 1 - limits.trans_seen) + 2 * Len(stack) + StepsOf[pc]

EndsInTime == [][StepsLeft' \in Nat /\ StepsLeft' < StepsLeft]_vars

\* What a step does to the budget, the stack and the position in the code.
LEMMA NextCounts ==
    ASSUME TypeInv, Next
    PROVE  /\ limits'.maxtrans = limits.maxtrans
           /\ \/ /\ limits' = limits /\ Len(stack') = Len(stack)
                 /\ <<pc, pc'>> \in {<<"call", "return">>, <<"return", "loop">>,
                                     <<"return", "done">>, <<"raise", "done">>}
              \/ /\ limits' = limits /\ Len(stack') = Len(stack) + 1
                 /\ pc = "call" /\ pc' = "loop"
              \/ /\ limits' = limits /\ Len(stack') = Len(stack) - 1
                 /\ <<pc, pc'>> \in {<<"loop", "return">>, <<"raise", "raise">>}
              \/ /\ limits'.trans_seen = limits.trans_seen + 1
                 /\ \/ Len(stack') = Len(stack) /\ pc = "loop" /\ pc' = "call"
                    \/ Len(stack') = Len(stack) - 1 /\ pc = "loop" /\ pc' = "raise"
<1>0. limits \in [maxtrans : MaxTransOptions, trans_seen : Nat] /\ stack \in Seq(Frames)
  BY DEF TypeInv, TypeOK
<1>1. \A fs \in Seq(Frames) : \A f : Len(Append(fs, f)) = Len(fs) + 1
  OBVIOUS
<1>2. ASSUME stack # <<>>
      PROVE  /\ Pop \in Seq(Frames) /\ Len(Pop) = Len(stack) - 1
             /\ \A f : Len(Append(Pop, f)) = Len(stack)
  <2>1. Pop \in Seq(Frames) /\ Len(Pop) = Len(stack) - 1 /\ Len(stack) \in Nat
    BY <1>0, <1>2, PopProperties DEF Pop
  <2> QED
    BY <2>1, <1>1
<1>3. CASE \/ CallTerminated \/ CallLooped \/ CallPredictedError \/ CallNoTransitions
  BY <1>3 DEF CallTerminated, CallLooped, CallPredictedError, CallNoTransitions, Interprets, Return
<1>4. CASE CallExpand
  BY <1>0, <1>1, <1>4 DEF CallExpand, Interprets
<1>5. CASE LoopRecurse
  <2>1. stack # <<>>
    BY <1>5 DEF LoopRecurse, TypeInv, Positions
  <2> QED
    BY <1>0, <1>2, <1>5, <2>1 DEF LoopRecurse
<1>6. CASE LoopTooComplicated
  <2>1. stack # <<>>
    BY <1>6 DEF LoopTooComplicated, TypeInv, Positions
  <2> QED
    BY <1>0, <1>2, <1>6, <2>1 DEF LoopTooComplicated
<1>7. CASE LoopEnd
  <2>1. stack # <<>>
    BY <1>7 DEF LoopEnd, TypeInv, Positions
  <2> QED
    BY <1>2, <1>7, <2>1 DEF LoopEnd
<1>8. CASE Receive
  BY <1>2, <1>8 DEF Receive
<1>9. CASE Propagate
  BY <1>2, <1>9 DEF Propagate
<1>10. CASE Deliver
  BY <1>10 DEF Deliver
<1> QED
  BY <1>3, <1>4, <1>5, <1>6, <1>7, <1>8, <1>9, <1>10 DEF Next

\* However many loops a function has, there is a bound to the steps that its
\* analysis can still take, four for each transition of the budget and what the
\* active calls need to return, and each step brings the end nearer by one at
\* least (Limits: "maxtrans").
THEOREM SearchEndsInTime == Spec => EndsInTime
<1>1. TypeInv /\ Budget /\ TypeInv' /\ Budget' /\ [Next]_vars
          => [StepsLeft' \in Nat /\ StepsLeft' < StepsLeft]_vars
  <2> SUFFICES ASSUME TypeInv, Budget, TypeInv', Budget', Next
               PROVE  StepsLeft' \in Nat /\ StepsLeft' < StepsLeft
    OBVIOUS
  <2> DEFINE max == limits.maxtrans
             seen == limits.trans_seen
             len == Len(stack)
  <2>1. max \in Nat /\ seen \in Nat /\ max' \in Nat /\ seen' \in Nat
    BY LimitsType, MaxTransAssumption DEF TypeInv, TypeOK
  <2>2. len \in Nat /\ len' \in Nat
    BY DEF TypeInv, TypeOK
  <2>3. seen <= max + 1 /\ seen' <= max' + 1
    <3>1. pc \in {"call", "loop", "return", "raise", "done"} /\ complicated \in BOOLEAN
      BY DEF TypeInv, TypeOK
    <3>2. pc' \in {"call", "loop", "return", "raise", "done"} /\ complicated' \in BOOLEAN
      BY DEF TypeInv, TypeOK
    <3> QED
      BY <2>1, <3>1, <3>2 DEF Budget
  <2>4. /\ max' = max
        /\ \/ /\ seen' = seen /\ len' = len
              /\ <<pc, pc'>> \in {<<"call", "return">>, <<"return", "loop">>,
                                  <<"return", "done">>, <<"raise", "done">>}
           \/ seen' = seen /\ len' = len + 1 /\ pc = "call" /\ pc' = "loop"
           \/ /\ seen' = seen /\ len' = len - 1
              /\ <<pc, pc'>> \in {<<"loop", "return">>, <<"raise", "raise">>}
           \/ /\ seen' = seen + 1
              /\ \/ len' = len /\ pc = "loop" /\ pc' = "call"
                 \/ len' = len - 1 /\ pc = "loop" /\ pc' = "raise"
    BY NextCounts
  <2>5. /\ StepsLeft = 4 * (max + 1 - seen) + 2 * len + StepsOf[pc]
        /\ StepsLeft' = 4 * (max' + 1 - seen') + 2 * len' + StepsOf[pc']
    BY DEF StepsLeft, StepsOf
  <2>6. /\ StepsOf["call"] = 4 /\ StepsOf["return"] = 2 /\ StepsOf["loop"] = 1
        /\ StepsOf["raise"] = 1 /\ StepsOf["done"] = 0
    BY DEF StepsOf
  <2> HIDE DEF max, seen, len
  <2> QED
    BY <2>1, <2>2, <2>3, <2>4, <2>5, <2>6
<1> QED
  <2>1. Init => Budget
    BY MaxTransAssumption DEF Init, Budget
  <2> QED
    BY <1>1, <2>1, InitTypeInv, NextTypeInv, NextBudget, PTL DEF Spec, EndsInTime

-----------------------------------------------------------------------------
(***************************************************************************)
(* The traces held.  A call that returns adds those it returns; every      *)
(* other step moves traces about and changes nothing.                      *)
(***************************************************************************)

\* A new call holds no results yet.
LEMMA ResultsPush ==
    ASSUME NEW fs \in Seq(Frames), NEW f \in Frames
    PROVE  ResultsOf(Append(fs, f)) = ResultsOf(fs) \cup Range(f.result)
<1>1. /\ Len(fs) \in Nat
      /\ Len(Append(fs, f)) = Len(fs) + 1
      /\ \A i \in 1..Len(fs) : Append(fs, f)[i] = fs[i]
      /\ Append(fs, f)[Len(fs) + 1] = f
  BY AppendProperties, LenProperties
<1>2. 1..(Len(fs) + 1) = 1..Len(fs) \cup {Len(fs) + 1}
  BY <1>1
<1> QED
  BY <1>1, <1>2 DEF ResultsOf

\* The results of the calls below the last one.
LEMMA ResultsPop ==
    ASSUME NEW fs \in Seq(Frames), fs # <<>>
    PROVE  ResultsOf(fs) = ResultsOf(Front(fs)) \cup Range(Last(fs).result)
<1>1. /\ Len(fs) \in Nat \ {0}
      /\ Len(Front(fs)) = Len(fs) - 1
      /\ \A i \in 1..(Len(fs) - 1) : Front(fs)[i] = fs[i]
  BY PopProperties
<1>2. 1..Len(fs) = 1..(Len(fs) - 1) \cup {Len(fs)}
  BY <1>1
<1> QED
  BY <1>1, <1>2 DEF ResultsOf, Last

\* An empty list has no elements.
LEMMA RangeEmpty == Range(<<>>) = {}
BY DEF Range

\* What the calls hold between them, when the last one goes on.
LEMMA HeldStep ==
    ASSUME TypeInv, Next
    PROVE  Held' = Held \cup (IF pc = "call" /\ pc' = "return" THEN Range(val') ELSE {})
<1> USE RangeEmpty DEF TypeInv, TypeOK, Positions
<1>1. ASSUME \/ CallTerminated \/ CallLooped \/ CallPredictedError \/ CallNoTransitions
      PROVE  Held' = Held \cup (IF pc = "call" /\ pc' = "return" THEN Range(val') ELSE {})
  BY <1>1 DEF CallTerminated, CallLooped, CallPredictedError, CallNoTransitions,
              Interprets, Return, Held
<1>2. ASSUME CallExpand PROVE Held' = Held /\ pc' # "return"
  <2> DEFINE f == [prefix |-> val[1], todo |-> GetTransitions(g, CurState(val[1])),
                   result |-> <<>>]
  <2>1. f \in Frames
    BY <1>2, CallType, GetTransitionsType DEF CallExpand, Interprets, Frames
  <2>2. f.result = <<>>
    OBVIOUS
  <2>3. ResultsOf(Append(stack, f)) = ResultsOf(stack)
    BY <2>1, <2>2, ResultsPush
  <2> QED
    BY <2>3, <1>2 DEF CallExpand, Interprets, Held
<1>3. ASSUME LoopRecurse PROVE Held' = Held /\ pc' # "return"
  <2> DEFINE f == [Top EXCEPT !.todo = Tail(Top.todo)]
  <2>1. f \in Frames /\ f.result = Top.result
    BY <1>3, TopType, HeadTailProperties DEF LoopRecurse, Frames
  <2>2. ResultsOf(Append(Pop, f)) = ResultsOf(stack)
    <3>1. ResultsOf(stack) = ResultsOf(Pop) \cup Range(Top.result) /\ Pop \in Seq(Frames)
      BY <1>3, TopType, ResultsPop DEF LoopRecurse, Top, Pop
    <3>2. ResultsOf(Append(Pop, f)) = ResultsOf(Pop) \cup Range(f.result)
      <4> HIDE DEF f
      <4> QED
        BY <2>1, <3>1, ResultsPush
    <3> QED
      BY <2>1, <3>1, <3>2
  <2> QED
    BY <2>2, <1>3 DEF LoopRecurse, Held
<1>4. ASSUME LoopTooComplicated \/ LoopEnd PROVE Held' = Held /\ pc # "call"
  <2>1. ResultsOf(stack) = ResultsOf(Pop) \cup Range(Top.result)
    BY <1>4, ResultsPop DEF LoopTooComplicated, LoopEnd, Top, Pop
  <2> QED
    BY <2>1, <1>4 DEF LoopTooComplicated, LoopEnd, Held
<1>5. ASSUME Receive PROVE Held' = Held /\ pc # "call"
  <2> DEFINE f == [Top EXCEPT !.result = Top.result \o val]
  <2>1. /\ Top.result \o val \in Seq(Traces)
        /\ Range(Top.result \o val) = Range(Top.result) \cup Range(val)
    BY <1>5, TopType, ConcatProperties, RangeConcatenation DEF Receive
  <2>2. f \in Frames /\ f.result = Top.result \o val
    BY <1>5, <2>1, TopType DEF Receive, Frames
  <2>3. ResultsOf(Append(Pop, f)) = ResultsOf(stack) \cup Range(val)
    <3>1. ResultsOf(stack) = ResultsOf(Pop) \cup Range(Top.result) /\ Pop \in Seq(Frames)
      BY <1>5, TopType, ResultsPop DEF Receive, Top, Pop
    <3>2. ResultsOf(Append(Pop, f)) = ResultsOf(Pop) \cup Range(f.result)
      <4> HIDE DEF f
      <4> QED
        BY <2>2, <3>1, ResultsPush
    <3> QED
      BY <2>1, <2>2, <3>1, <3>2
  <2> QED
    BY <2>3, <1>5 DEF Receive, Held
<1>6. ASSUME Propagate PROVE Held' = Held /\ pc # "call"
  <2>1. Range(val \o Top.result) = Range(val) \cup Range(Top.result)
    BY <1>6, TopType, RangeConcatenation DEF Propagate
  <2>2. ResultsOf(stack) = ResultsOf(Pop) \cup Range(Top.result)
    BY <1>6, ResultsPop DEF Propagate, Top, Pop
  <2> QED
    BY <2>1, <2>2, <1>6 DEF Propagate, Held
<1>7. ASSUME Deliver PROVE Held' = Held /\ pc # "call"
  BY <1>7 DEF Deliver, Held
<1> QED
  BY <1>1, <1>2, <1>3, <1>4, <1>5, <1>6, <1>7 DEF Next

\* The search never forgets a complete trace, neither on its way down and up
\* nor when TooComplicated unwinds it: what the user is shown of a function
\* that is too complicated is everything that had been found.
THEOREM NeverLost == Spec => NothingLost
<1>1. TypeInv /\ [Next]_vars => [Held \subseteq Held']_vars
  BY HeldStep
<1> QED
  BY <1>1, InitTypeInv, NextTypeInv, PTL DEF Spec, NothingLost

-----------------------------------------------------------------------------
(***************************************************************************)
(* Only complete traces are held.                                          *)
(***************************************************************************)

\* Marking a trace with an error, or returning a prefix that has nowhere to
\* go, returns only complete traces.
LEMMA ReturnsComplete ==
    ASSUME TypeInv, Next, pc = "call", pc' = "return"
    PROVE  \A t \in Range(val') : IsComplete(t)
<1>1. val \in Seq(Traces) /\ Len(val) = 1 /\ val[1] \in Traces
  BY CallType DEF TypeInv, TypeOK, Positions
<1>2. Range(val) = {val[1]}
  BY <1>1, RangeEquality
<1>3. CASE CallTerminated
  BY <1>2, <1>3 DEF CallTerminated, Return, IsComplete
<1>4. CASE CallLooped
  BY <1>4, RangeEmpty DEF CallLooped, Return
<1>5. CASE CallPredictedError
  <2> DEFINE t == [val[1] EXCEPT !.err = ErrorAt(g, CurState(val[1]))]
  <2>1. t.err = ErrorAt(g, CurState(val[1]))
    BY <1>1 DEF Traces
  <2>2. IsComplete(t)
    BY <2>1, <1>5 DEF CallPredictedError, IsComplete
  <2>3. Range(<<t>>) = {t}
    BY DEF Range
  <2> QED
    BY <2>2, <2>3, <1>5 DEF CallPredictedError, Return
<1>6. CASE CallNoTransitions
  BY <1>2, <1>6 DEF CallNoTransitions, Return, IsComplete
<1> QED
  BY <1>3, <1>4, <1>5, <1>6
     DEF Next, CallExpand, LoopRecurse, LoopTooComplicated, LoopEnd, Receive,
         Propagate, Deliver

\* Every step keeps incomplete traces out of the results.
LEMMA NextOnlyComplete == TypeInv /\ OnlyComplete /\ [Next]_vars => OnlyComplete'
<1> SUFFICES ASSUME TypeInv, OnlyComplete, [Next]_vars
             PROVE  OnlyComplete'
  OBVIOUS
<1>1. CASE UNCHANGED vars
  BY <1>1 DEF vars, OnlyComplete, Held, IsComplete, CurState
<1>2. CASE Next
  <2>1. g' = g
    BY <1>2 DEF Next, CallTerminated, CallLooped, CallPredictedError, CallExpand,
                CallNoTransitions, Return, LoopRecurse, LoopTooComplicated, LoopEnd,
                Receive, Propagate, Deliver
  <2>2. \A t : IsComplete(t)' <=> IsComplete(t)
    BY <2>1 DEF IsComplete, CurState
  <2>3. \A t \in Held' : IsComplete(t)
    BY <1>2, HeldStep, ReturnsComplete DEF OnlyComplete
  <2> QED
    BY <2>2, <2>3 DEF OnlyComplete
<1> QED
  BY <1>1, <1>2

\* Every trace in the hands of the search or of its caller captures a path of
\* the function to its end, also when the list as a whole is incomplete.
THEOREM AllComplete == Spec => []OnlyComplete
<1>1. Init => OnlyComplete
  <2> SUFFICES ASSUME Init PROVE Held = {}
    BY DEF OnlyComplete
  <2>1. ResultsOf(<<>>) = {}
    BY DEF ResultsOf
  <2> QED
    BY <2>1, RangeEmpty DEF Init, Held
<1> QED
  BY <1>1, InitTypeInv, NextTypeInv, NextOnlyComplete, PTL DEF Spec

\* For every function and budget: the limit stops the search once it is exceeded,
\* the caller knows, and each of the traces it then has is a whole path.
THEOREM StoppedCleanly == Spec => []StopsCleanly
BY Limited, AllComplete, PTL DEF StopsCleanly

-----------------------------------------------------------------------------
(***************************************************************************)
(* Runs along a sequence of states.                                        *)
(***************************************************************************)

\* Induction, for sets of numbers.
LEMMA NatSetInduction ==
    ASSUME NEW S, 0 \in S, \A n \in Nat : n \in S => n + 1 \in S
    PROVE  Nat \subseteq S
<1> DEFINE T == Nat \ S
           R == {ss \in Nat \X Nat : ss[1] < ss[2]}
<1>1. SUFFICES ASSUME T # {} PROVE FALSE
  OBVIOUS
<1>2. IsWellFoundedOn(R, Nat)
  BY NatLessThanWellFounded DEF OpToRel
<1>3. PICK x \in T : \A y \in T : ~ (<<y, x>> \in R)
  <2>1. T \subseteq Nat
    OBVIOUS
  <2> HIDE DEF T, R
  <2> QED
    BY <1>1, <1>2, <2>1, WFMin
<1>4. x # 0 /\ x - 1 \in Nat /\ x - 1 < x /\ (x - 1) + 1 = x
  BY <1>3
<1>5. x - 1 \notin T
  BY <1>3, <1>4
<1> QED
  BY <1>3, <1>4, <1>5

\* The runs along the states ss are found state by state.
LEMMA AlongDef ==
    ASSUME NEW ss, Len(ss) \in Nat \ {0}, NEW told
    PROVE  \E up :
             /\ up[1] = {c \in InitConfigs(g) : Agrees(ss[1], c, told[1])}
             /\ \A i \in 2..Len(ss) :
                  up[i] = {c \in UNION {Onward(ss[i - 1], ss[i], d) : d \in up[i - 1]} :
                             Agrees(ss[i], c, told[i])}
             /\ RunsAlong(ss, told) = up[Len(ss)]
<1> DEFINE E(f, i) == {c \in IF i = 1 THEN InitConfigs(g)
                             ELSE UNION {Onward(ss[i - 1], ss[i], d) : d \in f[i - 1]} :
                          Agrees(ss[i], c, told[i])}
           S == {k \in Nat : \E f : f = [i \in 1..k |-> E(f, i)]}
           up == CHOOSE f : f = [i \in 1..Len(ss) |-> E(f, i)]
<1>1. \A f, h, i : (i = 1 \/ f[i - 1] = h[i - 1]) => E(f, i) = E(h, i)
  OBVIOUS
<1>2. 0 \in S
  <2> DEFINE f == [i \in 1..0 |-> {}]
  <2>1. f = [i \in 1..0 |-> E(f, i)]
    OBVIOUS
  <2> QED
    BY <2>1
<1>3. ASSUME NEW k \in Nat, k \in S PROVE k + 1 \in S
  <2>1. PICK f : f = [i \in 1..k |-> E(f, i)]
    BY <1>3
  <2> DEFINE h == [i \in 1..(k + 1) |-> IF i = k + 1 THEN E(f, i) ELSE f[i]]
  <2>2. \A i \in 1..(k + 1) : i # 1 => h[i - 1] = f[i - 1]
    OBVIOUS
  <2>3. \A i \in 1..(k + 1) : h[i] = E(h, i)
    <3> TAKE i \in 1..(k + 1)
    <3>1. E(h, i) = E(f, i)
      <4> HIDE DEF h, E
      <4> QED
        BY <1>1, <2>2
    <3>2. CASE i = k + 1
      <4> HIDE DEF E
      <4> QED
        BY <3>1, <3>2
    <3>3. CASE i \in 1..k
      <4> HIDE DEF E
      <4>1. h[i] = f[i]
        BY <3>3
      <4>2. f[i] = E(f, i)
        BY <2>1, <3>3
      <4> QED
        BY <3>1, <4>1, <4>2
    <3>4. i = k + 1 \/ i \in 1..k
      OBVIOUS
    <3> HIDE DEF h, E
    <3> QED
      BY <3>2, <3>3, <3>4
  <2>4. h = [i \in 1..(k + 1) |-> E(h, i)]
    <3> HIDE DEF E
    <3> QED
      BY <2>3
  <2> HIDE DEF h, E
  <2> QED
    BY <2>4
<1>4. Len(ss) \in S
  <2> HIDE DEF S
  <2> QED
    BY <1>2, <1>3, NatSetInduction
<1>5. up = [i \in 1..Len(ss) |-> E(up, i)]
  <2> HIDE DEF E
  <2> QED
    BY <1>4
<1>6. RunsAlong(ss, told) = up[Len(ss)]
  BY DEF RunsAlong
<1>7. \A i \in 1..Len(ss) : up[i] = E(up, i)
  <2> HIDE DEF E, up
  <2> QED
    BY <1>5
<1>8. up[1] = {c \in InitConfigs(g) : Agrees(ss[1], c, told[1])}
  <2>1. up[1] = E(up, 1)
    <3> HIDE DEF E, up
    <3> QED
      BY <1>7
  <2> HIDE DEF up
  <2> QED
    BY <2>1
<1>9. \A i \in 2..Len(ss) :
         up[i] = {c \in UNION {Onward(ss[i - 1], ss[i], d) : d \in up[i - 1]} :
                    Agrees(ss[i], c, told[i])}
  <2> TAKE i \in 2..Len(ss)
  <2>1. up[i] = E(up, i)
    <3> HIDE DEF E, up
    <3> QED
      BY <1>7
  <2>2. i # 1
    OBVIOUS
  <2> HIDE DEF up
  <2> QED
    BY <2>1, <2>2
<1> HIDE DEF up
<1> QED
  BY <1>6, <1>8, <1>9

-----------------------------------------------------------------------------
(***************************************************************************)
(* What a transition does to the values: it stays at its node, and at most *)
(* takes a value for one of its alternatives; or it goes on, and at most   *)
(* sets one variable.                                                      *)
(***************************************************************************)

\* The store in which every copy of a value was replaced.
Told(store, x, kind) ==
    [v \in Vars |-> IF store[v] = x THEN [kind |-> kind, id |-> x.id, split |-> TRUE]
                    ELSE store[v]]

\* A value that the next call gives to v.
Fresh(s, v, x) == x.kind = "unknown" /\ x.id = <<v, s.calls + 1>> /\ ~x.split

Stays(h, s, d) ==
    LET st == h.stmt[s.node]
    IN  /\ d.node = s.node
        /\ \/ st.op \in {"return", "exit"} /\ d.store = s.store
           \/ /\ s.store[st.rhs].kind = "unknown"
              /\ \E kind \in Results(st.rhs) : d.store = Told(s.store, s.store[st.rhs], kind)

Sets(h, s, d) ==
    LET st == h.stmt[s.node]
    IN  \/ st.op \in {"none", "switch", "nop", "deref", "cond"} /\ d.store = s.store
        \/ /\ st.op \in {"null", "addr", "assign", "call", "pass", "newref"}
           /\ \E x \in Values :
                /\ d.store = [s.store EXCEPT ![st.lhs] = x]
                /\ st.op = "null" => x.kind = "null" /\ ~x.split
                /\ st.op = "addr" => x.kind = "nonnull" /\ ~x.split
                /\ st.op = "assign" => x = s.store[st.rhs]
                /\ st.op \in {"call", "pass"} => Fresh(s, st.lhs, x)
                /\ st.op = "newref" => x.kind \in {"null", "nonnull"} /\ ~x.split
        \/ /\ st.op = "callneg"
           /\ \E x \in Values, kind \in Results(st.lhs) :
                /\ Fresh(s, st.lhs, x)
                /\ d.store = Told([s.store EXCEPT ![st.lhs] = x], x, kind)

GoesOn(h, s, d) ==
    LET st == h.stmt[s.node]
        kind == s.store[st.rhs].kind
    IN  /\ st.op \notin {"return", "exit"}
        /\ ~(st.op = "deref" /\ kind = "unknown")
        /\ \E i \in 1..Len(h.succs[s.node]) :
             /\ d.node = h.succs[s.node][i] /\ d.node # s.node
             /\ st.op \in StraightOps => i = 1
             /\ st.op = "cond" => \/ kind \in {"null", "neg"} /\ i = 1
                                  \/ kind = "unknown" /\ ~SplitsAtCond(st.rhs)
                                  \/ kind \notin {"null", "neg", "unknown"} /\ i = 2
        /\ Sets(h, s, d)

Flags(h, s, d) ==
    /\ d.has_returned => h.stmt[s.node].op = "return" /\ d.node = s.node
    /\ d.not_returning => h.stmt[s.node].op = "exit" /\ d.node = s.node

\* Calls are counted.
Counts(h, s, d) ==
    d.calls = IF h.stmt[s.node].op \in {"call", "pass", "callneg"} /\ d.node # s.node
              THEN s.calls + 1 ELSE s.calls

\* Splitting replaces every copy.
LEMMA SplitTold ==
    ASSUME NEW s \in States, NEW v \in Vars, NEW i \in 1..Len(Split(s, v))
    PROVE  LET d == Split(s, v)[i].dest
           IN  /\ d.node = s.node
               /\ d.has_returned = s.has_returned /\ d.not_returning = s.not_returning
               /\ d.calls = s.calls
               /\ \E kind \in Results(v) : d.store = Told(s.store, s.store[v], kind)
<1> DEFINE alt(j) == IF v \in PtrVars THEN <<"nonnull", "null">>[j]
                                      ELSE <<"neg", "nonneg">>[j]
           d == SplitInto(s, s.store[v], alt(i))
<1>1. i \in 1..2 /\ Split(s, v)[i] = Transition(s, d)
  BY DEF Split
<1>2. Split(s, v)[i].dest = d
  BY <1>1 DEF Transition
<1>3. alt(i) \in Results(v)
  BY <1>1 DEF Results
<1> HIDE DEF alt
<1>4. /\ d.node = s.node
      /\ d.has_returned = s.has_returned /\ d.not_returning = s.not_returning
      /\ d.calls = s.calls
      /\ d.store = Told(s.store, s.store[v], alt(i))
  BY DEF SplitInto, States, Told
<1> QED
  BY <1>2, <1>3, <1>4

\* Going on keeps the values, and a state that goes on has not returned.
LEMMA GotoKeeps ==
    ASSUME NEW s \in States, NEW n
    PROVE  /\ Goto(s, n).node = n /\ Goto(s, n).store = s.store
           /\ Goto(s, n).has_returned = s.has_returned
           /\ Goto(s, n).not_returning = s.not_returning
           /\ Goto(s, n).calls = s.calls
BY DEF Goto, States

\* Setting a variable.
LEMMA AssignSets ==
    ASSUME NEW s \in States, NEW v \in Vars, NEW x
    PROVE  /\ Assign(s, v, x).store = [s.store EXCEPT ![v] = x]
           /\ Assign(s, v, x).node = s.node /\ Assign(s, v, x).calls = s.calls
           /\ Assign(s, v, x).has_returned = s.has_returned
           /\ Assign(s, v, x).not_returning = s.not_returning
BY DEF Assign, States

\* A call of which nothing is known gives a value of its own.
LEMMA UnknownSets ==
    ASSUME NEW h \in Programs, NEW s \in States, h.stmt[s.node].op \in StraightOps
    PROVE  LET v == h.stmt[s.node].lhs
               u == UnknownResult(h, s)
               x == Unknown(v, s.calls + 1)
           IN  /\ x \in Values /\ Fresh(s, v, x) /\ u.calls = s.calls + 1
               /\ u \in States /\ u.store = [s.store EXCEPT ![v] = x] /\ u.store[v] = x
               /\ u.node = h.succs[s.node][1]
               /\ u.has_returned = s.has_returned /\ u.not_returning = s.not_returning
<1> DEFINE v == h.stmt[s.node].lhs
           n == Next1(h, s)
           x == Unknown(v, s.calls + 1)
           a == Assign(n, v, x)
<1>1. v \in Vars /\ n \in States
  BY StmtType DEF Stmts
<1>2. x \in Values /\ Fresh(s, v, x)
  BY <1>1 DEF Unknown, Values, Ids, Kinds, States, Fresh
<1>3. /\ n.node = h.succs[s.node][1] /\ n.store = s.store /\ n.calls = s.calls
      /\ n.has_returned = s.has_returned /\ n.not_returning = s.not_returning
  BY GotoKeeps DEF Next1
<1>4. /\ a \in States /\ a.store = [s.store EXCEPT ![v] = x] /\ a.node = n.node
      /\ a.calls = s.calls
      /\ a.has_returned = s.has_returned /\ a.not_returning = s.not_returning
  BY <1>1, <1>2, <1>3, AssignSets, AssignType
<1>5. UnknownResult(h, s) = [a EXCEPT !.calls = a.calls + 1]
  BY DEF UnknownResult
<1>6. UnknownResult(h, s) \in States
  BY UnknownResultType
<1>7. s.store \in [Vars -> Values]
  BY DEF States
<1> HIDE DEF a, n, x, v
<1>8. /\ UnknownResult(h, s).store = a.store /\ UnknownResult(h, s).node = a.node
      /\ UnknownResult(h, s).has_returned = a.has_returned
      /\ UnknownResult(h, s).not_returning = a.not_returning
      /\ UnknownResult(h, s).calls = s.calls + 1
  BY <1>4, <1>5 DEF States
<1>9. a.store[v] = x
  BY <1>1, <1>4, <1>7
<1> QED
  BY <1>2, <1>3, <1>4, <1>6, <1>8, <1>9 DEF v, x

\* The nodes that a statement leads to are others.
LEMMA SuccsDiffer ==
    ASSUME NEW h \in Programs, NEW s \in States
    PROVE  /\ \A i \in 1..Len(h.succs[s.node]) : h.succs[s.node][i] # s.node
           /\ h.stmt[s.node].op \in StraightOps => Len(h.succs[s.node]) = 1
           /\ h.stmt[s.node].op = "cond" => Len(h.succs[s.node]) = 2
BY StmtType, ProgramsAssumption

\* Every transition stays at its node or goes on.
LEMMA StepCases ==
    ASSUME NEW h \in Programs, NEW s \in States, ~Terminated(s),
           NEW j \in 1..Len(GetTransitions(h, s))
    PROVE  LET d == GetTransitions(h, s)[j].dest
           IN  (Stays(h, s, d) \/ GoesOn(h, s, d)) /\ Flags(h, s, d)
<1> DEFINE st == h.stmt[s.node]
           ts == GetTransitions(h, s)
           d == ts[j].dest
           kind == s.store[st.rhs].kind
<1>1. /\ s.node \in Nodes /\ s.store \in [Vars -> Values]
      /\ st.op \in Ops /\ st.lhs \in Vars /\ st.rhs \in Vars
      /\ h.succs[s.node] \in Seq(Nodes)
      /\ s.has_returned = FALSE /\ s.not_returning = FALSE
  BY StmtType DEF Stmts, States, Terminated
<1>2. CASE MustSplit(h, s)
  <2>1. ts = Split(s, st.rhs)
    BY <1>2, SMTT(30) DEF GetTransitions
  <2>2. /\ d.node = s.node /\ ~d.has_returned /\ ~d.not_returning
        /\ \E k \in Results(st.rhs) : d.store = Told(s.store, s.store[st.rhs], k)
    <3>1. j \in 1..Len(Split(s, st.rhs)) /\ d = Split(s, st.rhs)[j].dest
      BY <2>1
    <3>2. st.rhs \in Vars
      BY <1>1
    <3> HIDE DEF d, ts, st
    <3>3. /\ d.node = s.node
          /\ d.has_returned = s.has_returned /\ d.not_returning = s.not_returning
          /\ \E k \in Results(st.rhs) : d.store = Told(s.store, s.store[st.rhs], k)
      BY <3>1, <3>2, SplitTold
    <3> QED
      BY <1>1, <3>3
  <2>3. kind = "unknown"
    BY <1>2 DEF MustSplit
  <2> QED
    BY <2>2, <2>3 DEF Stays, Flags
<1>3. CASE ~MustSplit(h, s) /\ st.op \in {"none", "switch"}
  <2>1. ts = ToAllSuccs(h, s)
    BY <1>3 DEF GetTransitions
  <2>2. j \in 1..Len(h.succs[s.node]) /\ ts[j] = Transition(s, Goto(s, h.succs[s.node][j]))
    BY <2>1, <1>1 DEF ToAllSuccs
  <2>3. d = Goto(s, h.succs[s.node][j])
    BY <2>2 DEF Transition
  <2>4. /\ d.node = h.succs[s.node][j] /\ d.store = s.store
        /\ ~d.has_returned /\ ~d.not_returning
    BY <2>3, <1>1, GotoKeeps
  <2>5. d.node # s.node
    BY <2>2, <2>4, SuccsDiffer
  <2> QED
    BY <2>2, <2>4, <2>5, <1>3, Zenon DEF GoesOn, Sets, Flags, StraightOps
<1>4. CASE ~MustSplit(h, s) /\ st.op = "cond"
  <2> DEFINE edge(i) == Transition(s, Goto(s, h.succs[s.node][i]))
  <2>1. ts = CondTransitions(h, s)
    BY <1>4 DEF GetTransitions
  <2>2. \A i \in 1..2 : /\ edge(i).dest.node = h.succs[s.node][i] /\ edge(i).dest.store = s.store
                        /\ ~edge(i).dest.has_returned /\ ~edge(i).dest.not_returning
    BY <1>1, GotoKeeps DEF Transition
  <2>3. ts = IF kind \in {"null", "neg"} THEN <<edge(1)>>
             ELSE IF kind = "unknown" THEN <<edge(1), edge(2)>> ELSE <<edge(2)>>
    BY <2>1 DEF CondTransitions
  <2>4. PICK i \in 1..2 : /\ d = edge(i).dest
                          /\ \/ kind \in {"null", "neg"} /\ i = 1
                             \/ kind = "unknown"
                             \/ kind \notin {"null", "neg", "unknown"} /\ i = 2
    <3> HIDE DEF edge, kind
    <3> QED
      BY <2>3, SMTT(30)
  <2>5. d.node = h.succs[s.node][i] /\ d.store = s.store /\ ~d.has_returned /\ ~d.not_returning
    BY <2>2, <2>4
  <2>6. d.node # s.node /\ i \in 1..Len(h.succs[s.node])
    BY <2>5, <1>4, SuccsDiffer, SMTT(40)
  <2>7. kind = "unknown" => ~SplitsAtCond(st.rhs)
    BY <1>4 DEF MustSplit
  <2> HIDE DEF d
  <2>8. Sets(h, s, d)
    BY <2>5, <1>4 DEF Sets
  <2>9. GoesOn(h, s, d)
    <3>1. /\ d.node = h.succs[s.node][i] /\ d.node # s.node
          /\ \/ kind \in {"null", "neg"} /\ i = 1
             \/ kind = "unknown" /\ ~SplitsAtCond(st.rhs)
             \/ kind \notin {"null", "neg", "unknown"} /\ i = 2
      BY <2>4, <2>5, <2>6, <2>7, ZenonT(40)
    <3>2. st.op \notin StraightOps /\ st.op \notin {"return", "exit", "deref"}
      BY <1>4 DEF StraightOps
    <3> QED
      BY <2>6, <2>8, <3>1, <3>2, Zenon DEF GoesOn
  <2> QED
    BY <2>5, <2>9 DEF Flags, d
<1>5. CASE ~MustSplit(h, s) /\ st.op = "return"
  <2>1. ts = <<Transition(s, [s EXCEPT !.has_returned = TRUE, !.fromsplit = FALSE])>>
    BY <1>5 DEF GetTransitions, Returning
  <2>2. d = [s EXCEPT !.has_returned = TRUE, !.fromsplit = FALSE]
    BY <2>1 DEF Transition
  <2>3. d.node = s.node /\ d.store = s.store /\ ~d.not_returning
    BY <2>2, <1>1 DEF States
  <2> QED
    BY <2>3, <1>5 DEF Stays, Flags
<1>6. CASE ~MustSplit(h, s) /\ st.op = "exit"
  <2>1. ts = <<Transition(s, [s EXCEPT !.not_returning = TRUE, !.fromsplit = FALSE])>>
    BY <1>6 DEF GetTransitions, NotReturning
  <2>2. d = [s EXCEPT !.not_returning = TRUE, !.fromsplit = FALSE]
    BY <2>1 DEF Transition
  <2>3. d.node = s.node /\ d.store = s.store /\ ~d.has_returned
    BY <2>2, <1>1 DEF States
  <2> QED
    BY <2>3, <1>6 DEF Stays, Flags
<1>7. ASSUME ~MustSplit(h, s), st.op \in StraightOps,
             d.node = h.succs[s.node][1], Sets(h, s, d), ~d.has_returned, ~d.not_returning
      PROVE  (Stays(h, s, d) \/ GoesOn(h, s, d)) /\ Flags(h, s, d)
  <2>1. d.node # s.node /\ 1 \in 1..Len(h.succs[s.node])
    BY <1>7, SuccsDiffer
  <2>2. ~(st.op = "deref" /\ kind = "unknown")
    BY <1>7 DEF MustSplit
  <2> HIDE DEF d
  <2> QED
    BY <1>7, <2>1, <2>2, Zenon DEF GoesOn, Flags, StraightOps
<1>8. CASE ~MustSplit(h, s) /\ st.op = "callneg"
  <2> DEFINE u == UnknownResult(h, s)
             x == Unknown(st.lhs, s.calls + 1)
  <2>1. ts = Split(u, st.lhs)
    BY <1>8 DEF GetTransitions, NegativeOrNot
  <2>2. /\ x \in Values /\ Fresh(s, st.lhs, x)
        /\ u \in States /\ u.store = [s.store EXCEPT ![st.lhs] = x] /\ u.store[st.lhs] = x
        /\ u.node = h.succs[s.node][1]
        /\ u.has_returned = FALSE /\ u.not_returning = FALSE
    BY <1>1, <1>8, UnknownSets, SMTT(30) DEF StraightOps
  <2> HIDE DEF u, x
  <2>3. /\ d.node = u.node /\ ~d.has_returned /\ ~d.not_returning
        /\ \E k \in Results(st.lhs) : d.store = Told(u.store, u.store[st.lhs], k)
    <3>1. j \in 1..Len(Split(u, st.lhs)) /\ d = Split(u, st.lhs)[j].dest
      BY <2>1
    <3>2. u \in States /\ st.lhs \in Vars
      BY <2>2, <1>1
    <3> HIDE DEF d, ts, st
    <3>3. /\ d.node = u.node
          /\ d.has_returned = u.has_returned /\ d.not_returning = u.not_returning
          /\ \E k \in Results(st.lhs) : d.store = Told(u.store, u.store[st.lhs], k)
      BY <3>1, <3>2, SplitTold
    <3> QED
      BY <2>2, <3>3
  <2>4. Sets(h, s, d)
    BY <2>2, <2>3, <1>8 DEF Sets
  <2> QED
    BY <2>2, <2>3, <2>4, <1>7, <1>8 DEF StraightOps
<1>9. CASE ~MustSplit(h, s) /\ st.op = "newref"
  <2> DEFINE n == Next1(h, s)
  <2>1. ts = <<Transition(s, Assign(n, st.lhs, Value("nonnull", st.lhs))),
               Transition(s, Assign(n, st.lhs, Value("null", st.lhs)))>>
    BY <1>9 DEF GetTransitions, NewRefOrFail
  <2>2. PICK k \in {"null", "nonnull"} : d = Assign(n, st.lhs, Value(k, st.lhs))
    BY <2>1 DEF Transition
  <2>3. n \in States
    BY <1>9, StmtType DEF StraightOps
  <2>4. /\ n.node = h.succs[s.node][1] /\ n.store = s.store
        /\ ~n.has_returned /\ ~n.not_returning
    BY <1>1, GotoKeeps DEF Next1
  <2> HIDE DEF n
  <2>5. /\ d.node = h.succs[s.node][1] /\ d.store = [s.store EXCEPT ![st.lhs] = Value(k, st.lhs)]
        /\ ~d.has_returned /\ ~d.not_returning
    BY <2>2, <2>3, <2>4, <1>1, AssignSets
  <2>6. /\ Value(k, st.lhs) \in Values
        /\ Value(k, st.lhs).kind \in {"null", "nonnull"} /\ ~Value(k, st.lhs).split
    BY <1>1, ValueType DEF Value, Kinds
  <2>7. Sets(h, s, d)
    BY <2>5, <2>6, <1>9 DEF Sets
  <2> QED
    BY <2>5, <2>7, <1>7, <1>9 DEF StraightOps
<1>10. CASE ~MustSplit(h, s) /\ st.op \in StraightOps \ {"newref", "callneg"}
  <2> DEFINE n == Next1(h, s)
  <2>1. d = Straight(h, s)
    BY <1>10 DEF GetTransitions, StraightOps, Transition
  <2>2. n \in States
    BY <1>10, StmtType
  <2>3. /\ n.node = h.succs[s.node][1] /\ n.store = s.store
        /\ ~n.has_returned /\ ~n.not_returning
    BY <1>1, GotoKeeps DEF Next1
  <2> HIDE DEF n, d
  <2>4. ASSUME NEW x \in Values, d = Assign(n, st.lhs, x)
        PROVE  /\ d.node = h.succs[s.node][1] /\ d.store = [s.store EXCEPT ![st.lhs] = x]
               /\ ~d.has_returned /\ ~d.not_returning
    BY <2>2, <2>3, <2>4, <1>1, AssignSets
  <2>5. CASE st.op \in {"nop", "deref"}
    <3>1. d = n
      BY <2>1, <2>5 DEF Straight, n
    <3>2. Sets(h, s, d)
      BY <3>1, <2>3, <2>5, SMTT(30) DEF Sets
    <3> QED
      BY <3>1, <3>2, <2>3, <1>7, <1>10 DEF d
  <2>6. CASE st.op = "null"
    <3>1. d = Assign(n, st.lhs, Value("null", st.lhs))
      BY <2>1, <2>6 DEF Straight, n
    <3>2. Value("null", st.lhs) \in Values
      BY <1>1, ValueType DEF Kinds
    <3>3. Value("null", st.lhs).kind = "null" /\ ~Value("null", st.lhs).split
      BY SMTT(30) DEF Value
    <3>4. Sets(h, s, d)
      BY <2>4, <2>6, <3>1, <3>2, <3>3 DEF Sets
    <3> QED
      BY <3>1, <3>2, <3>4, <2>4, <1>7, <1>10 DEF d
  <2>7. CASE st.op = "addr"
    <3>1. d = Assign(n, st.lhs, Value("nonnull", st.lhs))
      BY <2>1, <2>7 DEF Straight, n
    <3>2. Value("nonnull", st.lhs) \in Values
      BY <1>1, ValueType DEF Kinds
    <3>3. Value("nonnull", st.lhs).kind = "nonnull" /\ ~Value("nonnull", st.lhs).split
      BY SMTT(30) DEF Value
    <3>4. Sets(h, s, d)
      BY <2>4, <2>7, <3>1, <3>2, <3>3 DEF Sets
    <3> QED
      BY <3>1, <3>2, <3>4, <2>4, <1>7, <1>10, Zenon DEF d
  <2>8. CASE st.op = "assign"
    <3>1. d = Assign(n, st.lhs, s.store[st.rhs]) /\ s.store[st.rhs] \in Values
      BY <1>1, <2>1, <2>8 DEF Straight, n
    <3>2. Sets(h, s, d)
      BY <2>4, <2>8, <3>1, Zenon DEF Sets
    <3> QED
      BY <3>1, <3>2, <2>4, <1>7, <1>10, Zenon DEF d
  <2>9. CASE st.op \in {"call", "pass"}
    <3>1. d = UnknownResult(h, s)
      BY <2>1, <2>9 DEF Straight
    <3> DEFINE x == Unknown(st.lhs, s.calls + 1)
               u == UnknownResult(h, s)
    <3>2. /\ x \in Values /\ Fresh(s, st.lhs, x) /\ u.store = [s.store EXCEPT ![st.lhs] = x]
          /\ u.node = h.succs[s.node][1]
          /\ u.has_returned = s.has_returned /\ u.not_returning = s.not_returning
      BY <1>10, UnknownSets
    <3> HIDE DEF x, u
    <3>3. /\ d.store = [s.store EXCEPT ![st.lhs] = x]
          /\ d.node = h.succs[s.node][1] /\ ~d.has_returned /\ ~d.not_returning
      BY <3>1, <3>2, <1>1, SMTT(30) DEF u
    <3>4. Sets(h, s, d)
      BY <3>2, <3>3, <2>9 DEF Sets
    <3> QED
      BY <3>3, <3>4, <1>7, <1>10 DEF d
  <2> QED
    BY <1>10, <2>5, <2>6, <2>7, <2>8, <2>9 DEF StraightOps
<1> QED
  BY <1>1, <1>2, <1>3, <1>4, <1>5, <1>6, <1>8, <1>9, <1>10 DEF Ops

\* Only a call that goes on counts as one.
LEMMA StepCounts ==
    ASSUME NEW h \in Programs, NEW s \in States, NEW j \in 1..Len(GetTransitions(h, s))
    PROVE  Counts(h, s, GetTransitions(h, s)[j].dest)
<1> DEFINE st == h.stmt[s.node]
           ts == GetTransitions(h, s)
           d == ts[j].dest
<1>1. st.op \in Ops /\ st.lhs \in Vars /\ st.rhs \in Vars /\ h.succs[s.node] \in Seq(Nodes)
  BY StmtType DEF Stmts
<1>2. ASSUME d.calls = s.calls, st.op \notin {"call", "pass", "callneg"} \/ d.node = s.node
      PROVE  Counts(h, s, d)
  BY <1>2 DEF Counts
<1>3. CASE MustSplit(h, s)
  <2>1. ts = Split(s, st.rhs)
    BY <1>3 DEF GetTransitions
  <2>2. d.calls = s.calls /\ d.node = s.node
    BY <2>1, <1>1, SplitTold
  <2> QED
    BY <2>2, <1>2
<1>4. CASE ~MustSplit(h, s) /\ st.op \in {"none", "switch"}
  <2>1. ts = ToAllSuccs(h, s)
    BY <1>4 DEF GetTransitions
  <2>2. ts[j] = Transition(s, Goto(s, h.succs[s.node][j]))
    BY <2>1, <1>1 DEF ToAllSuccs
  <2>3. d.calls = s.calls
    BY <2>2, GotoKeeps DEF Transition
  <2> QED
    BY <2>3, <1>2, <1>4
<1>5. CASE ~MustSplit(h, s) /\ st.op = "cond"
  <2> DEFINE edge(i) == Transition(s, Goto(s, h.succs[s.node][i]))
             kind == s.store[st.rhs].kind
  <2>1. ts = CondTransitions(h, s)
    BY <1>5 DEF GetTransitions
  <2>2. \A i : edge(i).dest.calls = s.calls
    BY GotoKeeps DEF Transition
  <2>3. ts = IF kind \in {"null", "neg"} THEN <<edge(1)>>
             ELSE IF kind = "unknown" THEN <<edge(1), edge(2)>> ELSE <<edge(2)>>
    BY <2>1 DEF CondTransitions
  <2>4. d.calls = s.calls
    <3> HIDE DEF edge, kind
    <3> QED
      BY <2>2, <2>3
  <2> QED
    BY <2>4, <1>2, <1>5
<1>6. CASE ~MustSplit(h, s) /\ st.op \in {"return", "exit"}
  <2>1. \E f : /\ ts = <<Transition(s, f)>>
              /\ \/ f = [s EXCEPT !.has_returned = TRUE, !.fromsplit = FALSE]
                 \/ f = [s EXCEPT !.not_returning = TRUE, !.fromsplit = FALSE]
    BY <1>6 DEF GetTransitions, Returning, NotReturning
  <2>2. \/ d = [s EXCEPT !.has_returned = TRUE, !.fromsplit = FALSE]
        \/ d = [s EXCEPT !.not_returning = TRUE, !.fromsplit = FALSE]
    BY <2>1 DEF Transition
  <2>3. d.calls = s.calls
    BY <2>2 DEF States
  <2> QED
    BY <2>3, <1>2, <1>6, SMTT(30)
<1>7. CASE ~MustSplit(h, s) /\ st.op = "newref"
  <2> DEFINE n == Next1(h, s)
  <2>1. ts = <<Transition(s, Assign(n, st.lhs, Value("nonnull", st.lhs))),
               Transition(s, Assign(n, st.lhs, Value("null", st.lhs)))>>
    BY <1>7 DEF GetTransitions, NewRefOrFail
  <2>2. n \in States /\ n.calls = s.calls
    BY <1>7, StmtType, GotoKeeps DEF StraightOps, Next1
  <2> HIDE DEF n
  <2>3. \A x : Assign(n, st.lhs, x).calls = s.calls
    BY <2>2, <1>1, AssignSets, ZenonT(40)
  <2>4. d.calls = s.calls
    BY <2>1, <2>3 DEF Transition
  <2> QED
    BY <2>4, <1>2, <1>7
<1>8. CASE ~MustSplit(h, s) /\ st.op \in {"nop", "deref", "null", "addr", "assign"}
  <2> DEFINE n == Next1(h, s)
  <2>1. d = Straight(h, s)
    BY <1>8 DEF GetTransitions, Transition
  <2>2. n \in States /\ n.calls = s.calls
    BY <1>8, StmtType, GotoKeeps DEF StraightOps, Next1
  <2> HIDE DEF d
  <2>3. d = n \/ \E x : d = Assign(n, st.lhs, x)
    BY <2>1, <1>8 DEF Straight
  <2> HIDE DEF n
  <2>4. \A x : Assign(n, st.lhs, x).calls = s.calls
    BY <2>2, <1>1, AssignSets, ZenonT(40)
  <2>5. d.calls = s.calls
    BY <2>2, <2>3, <2>4
  <2> QED
    BY <2>5, <1>2, <1>8 DEF d
<1>9. CASE ~MustSplit(h, s) /\ st.op \in {"call", "pass", "callneg"}
  <2> DEFINE u == UnknownResult(h, s)
  <2>1. u \in States /\ u.calls = s.calls + 1 /\ u.node = h.succs[s.node][1]
    BY <1>9, UnknownSets DEF StraightOps
  <2>2. u.node # s.node
    BY <1>9, <2>1, SuccsDiffer DEF StraightOps
  <2> HIDE DEF u
  <2>3. CASE st.op \in {"call", "pass"}
    <3>1. d = u
      BY <1>9, <2>3 DEF GetTransitions, Transition, Straight, u
    <3> QED
      BY <3>1, <2>1, <2>2, <1>9 DEF Counts
  <2>4. CASE st.op = "callneg"
    <3>1. ts = Split(u, st.lhs)
      BY <1>9, <2>4 DEF GetTransitions, NegativeOrNot, u
    <3>2. d.calls = u.calls /\ d.node = u.node
      BY <3>1, <2>1, <1>1, SplitTold
    <3> QED
      BY <3>2, <2>1, <2>2, <1>9 DEF Counts
  <2> QED
    BY <1>9, <2>3, <2>4
<1> QED
  BY <1>1, <1>3, <1>4, <1>5, <1>6, <1>7, <1>8, <1>9 DEF Ops, StraightOps

-----------------------------------------------------------------------------
(***************************************************************************)
(* The traces are built from the transitions: each state follows from the  *)
(* one before, at which no error was predicted.                            *)
(***************************************************************************)
Linked(s, d) ==
    /\ ~Terminated(s) /\ ErrorAt(g, s) = NoError
    /\ \E k \in 1..Len(GetTransitions(g, s)) : GetTransitions(g, s)[k].dest = d

Built(t) == \A i \in 1..Len(t.states) : Linked(Path(t)[i], Path(t)[i + 1])

Building ==
    /\ pc = "call" => Built(val[1]) /\ val[1].err = NoError
    /\ \A i \in 1..Len(stack) :
         /\ Built(stack[i].prefix) /\ stack[i].prefix.err = NoError
         /\ \A k \in 1..Len(stack[i].todo) :
              Linked(CurState(stack[i].prefix), stack[i].todo[k].dest)
    /\ \A t \in Held : Built(t) /\ t.err \in {NoError, ErrorAt(g, CurState(t))}

\* The states a trace goes through, from the initial one to the current one.
LEMMA PathType ==
    ASSUME g \in Programs, NEW t \in Traces
    PROVE  /\ Path(t) \in Seq(States)
           /\ Len(t.states) \in Nat /\ Len(Path(t)) = Len(t.states) + 1
           /\ Path(t)[1] = InitState(g)
           /\ \A i \in 1..Len(t.states) : Path(t)[i + 1] = t.states[i]
           /\ Path(t)[Len(t.states) + 1] = CurState(t)
<1>1. InitState(g) \in States /\ <<InitState(g)>> \in Seq(States)
  BY InitStateType, ProgramsAssumption
<1>2. t.states \in Seq(States) /\ Len(t.states) \in Nat
  BY LenProperties DEF Traces
<1>3. /\ Path(t) \in Seq(States)
      /\ Len(Path(t)) = Len(t.states) + 1
      /\ \A i \in 1..(Len(t.states) + 1) :
            Path(t)[i] = IF i <= 1 THEN <<InitState(g)>>[i] ELSE t.states[i - 1]
  <2> DEFINE one == <<InitState(g)>>
  <2>1. Len(one) = 1 /\ one \in Seq(States)
    BY <1>1
  <2> HIDE DEF one
  <2>2. /\ one \o t.states \in Seq(States)
        /\ Len(one \o t.states) = 1 + Len(t.states)
        /\ \A i \in 1..(1 + Len(t.states)) :
             (one \o t.states)[i] = IF i <= 1 THEN one[i] ELSE t.states[i - 1]
    BY <2>1, <1>2, ConcatProperties
  <2> QED
    BY <2>2, <1>2 DEF Path, one
<1>4. Path(t)[1] = InitState(g)
  BY <1>2, <1>3
<1>5. \A i \in 1..Len(t.states) : Path(t)[i + 1] = t.states[i]
  <2> TAKE i \in 1..Len(t.states)
  <2>1. i + 1 \in 1..(Len(t.states) + 1) /\ ~(i + 1 <= 1) /\ (i + 1) - 1 = i
    BY <1>2
  <2> QED
    BY <2>1, <1>3
<1>6. Path(t)[Len(t.states) + 1] = CurState(t)
  <2>1. CASE t.states = <<>>
    BY <2>1, <1>4 DEF CurState
  <2>2. CASE t.states # <<>>
    <3>1. Len(t.states) \in 1..Len(t.states)
      BY <2>2, <1>2, EmptySeq
    <3> QED
      BY <2>2, <3>1, <1>5 DEF CurState, Last
  <2> QED
    BY <2>1, <2>2
<1> QED
  BY <1>2, <1>3, <1>4, <1>5, <1>6

\* Adding a transition adds its state.
LEMMA AddPath ==
    ASSUME g \in Programs, NEW t \in Traces, NEW tr \in Transitions
    PROVE  LET u == Add(t, tr)
           IN  /\ u.err = t.err
               /\ Len(u.states) = Len(t.states) + 1
               /\ \A i \in 1..(Len(t.states) + 1) : Path(u)[i] = Path(t)[i]
               /\ Path(u)[Len(t.states) + 2] = tr.dest
<1> DEFINE u == Add(t, tr)
<1>1. u \in Traces
  BY AddType
<1>2. u.states = Append(t.states, tr.dest) /\ u.err = t.err
  BY DEF Add, Traces
<1>3. t.states \in Seq(States) /\ tr.dest \in States /\ Len(t.states) \in Nat
  BY LenProperties DEF Traces, Transitions
<1>4. /\ Len(u.states) = Len(t.states) + 1
      /\ \A i \in 1..Len(t.states) : u.states[i] = t.states[i]
      /\ u.states[Len(t.states) + 1] = tr.dest
  BY <1>2, <1>3, AppendProperties
<1> HIDE DEF u
<1>5. /\ Path(u)[1] = InitState(g) /\ Path(t)[1] = InitState(g)
      /\ \A i \in 1..Len(u.states) : Path(u)[i + 1] = u.states[i]
      /\ \A i \in 1..Len(t.states) : Path(t)[i + 1] = t.states[i]
  BY <1>1, PathType
<1>6. \A i \in 1..(Len(t.states) + 1) : Path(u)[i] = Path(t)[i]
  <2> TAKE i \in 1..(Len(t.states) + 1)
  <2>1. CASE i = 1
    BY <2>1, <1>5
  <2>2. CASE i # 1
    <3>1. i - 1 \in 1..Len(t.states) /\ i - 1 \in 1..Len(u.states) /\ (i - 1) + 1 = i
      BY <2>2, <1>3, <1>4
    <3>2. Path(u)[(i - 1) + 1] = u.states[i - 1] /\ Path(t)[(i - 1) + 1] = t.states[i - 1]
      BY <3>1, <1>5
    <3> QED
      BY <3>1, <3>2, <1>4
  <2> QED
    BY <2>1, <2>2
<1>7. Path(u)[Len(t.states) + 2] = tr.dest
  <2>1. Len(t.states) + 1 \in 1..Len(u.states) /\ (Len(t.states) + 1) + 1 = Len(t.states) + 2
    BY <1>3, <1>4
  <2> QED
    BY <2>1, <1>4, <1>5
<1> QED
  BY <1>2, <1>4, <1>6, <1>7 DEF u

\* A transition that follows from the last state of a built trace adds to it.
LEMMA AddBuilt ==
    ASSUME g \in Programs, NEW t \in Traces, NEW tr \in Transitions,
           Built(t), Linked(CurState(t), tr.dest)
    PROVE  Built(Add(t, tr)) /\ Add(t, tr).err = t.err
<1> DEFINE u == Add(t, tr)
<1>1. /\ u.err = t.err
      /\ Len(u.states) = Len(t.states) + 1
      /\ \A i \in 1..(Len(t.states) + 1) : Path(u)[i] = Path(t)[i]
      /\ Path(u)[Len(t.states) + 2] = tr.dest
  BY AddPath
<1>2. Len(t.states) \in Nat /\ Path(t)[Len(t.states) + 1] = CurState(t)
  BY PathType
<1> HIDE DEF u
<1>3. ASSUME NEW i \in 1..(Len(t.states) + 1)
      PROVE  Linked(Path(u)[i], Path(u)[i + 1])
  <2>1. CASE i = Len(t.states) + 1
    <3>1. Path(u)[i] = CurState(t)
      BY <2>1, <1>1, <1>2
    <3>2. i + 1 = Len(t.states) + 2
      BY <2>1, <1>2
    <3> QED
      BY <3>1, <3>2, <1>1
  <2>2. CASE i # Len(t.states) + 1
    <3>1. i \in 1..Len(t.states) /\ i + 1 \in 1..(Len(t.states) + 1)
      BY <2>2, <1>2
    <3> QED
      BY <3>1, <1>1 DEF Built
  <2> QED
    BY <2>1, <2>2
<1> QED
  BY <1>1, <1>3 DEF Built, u

\* The trace with which the search starts has no steps.
LEMMA InitBuilding == Init => Building
<1> SUFFICES ASSUME Init PROVE Building
  OBVIOUS
<1>1. ResultsOf(<<>>) = {} /\ Held = {}
  BY RangeEmpty DEF Init, Held, ResultsOf
<1>2. Built(EmptyTrace) /\ EmptyTrace.err = NoError
  BY DEF EmptyTrace, Built
<1> QED
  BY <1>1, <1>2 DEF Init, Building

\* No step changes the function, and so what follows from what.
LEMMA SameFunction ==
    ASSUME [Next]_vars
    PROVE  /\ g' = g
           /\ \A s, d : Linked(s, d)' <=> Linked(s, d)
           /\ \A t : Built(t)' <=> Built(t)
           /\ \A t : CurState(t)' = CurState(t) /\ Path(t)' = Path(t)
<1>1. g' = g
  BY DEF vars, Next, CallTerminated, CallLooped, CallPredictedError, CallExpand,
         CallNoTransitions, Return, LoopRecurse, LoopTooComplicated, LoopEnd,
         Receive, Propagate, Deliver
<1>2. \A s, d : Linked(s, d)' <=> Linked(s, d)
  BY <1>1 DEF Linked
<1>3. \A t : CurState(t)' = CurState(t) /\ Path(t)' = Path(t)
  BY <1>1 DEF CurState, Path
<1>4. \A t : Built(t)' <=> Built(t)
  BY <1>1 DEF Built, Path, Linked
<1> QED
  BY <1>1, <1>2, <1>3, <1>4

\* What a call returns is built, and fails only where an error is predicted.
LEMMA ReturnsBuilt ==
    ASSUME TypeInv, Building, Next, pc = "call", pc' = "return"
    PROVE  \A t \in Range(val') : Built(t) /\ t.err \in {NoError, ErrorAt(g, CurState(t))}
<1>1. val \in Seq(Traces) /\ Len(val) = 1 /\ val[1] \in Traces
  BY CallType DEF TypeInv, TypeOK, Positions
<1>2. Range(val) = {val[1]}
  BY <1>1, RangeEquality
<1>3. Built(val[1]) /\ val[1].err = NoError
  BY DEF Building
<1>4. CASE val' = val
  BY <1>2, <1>3, <1>4
<1>5. CASE CallLooped
  BY <1>5, RangeEmpty DEF CallLooped, Return
<1>6. CASE CallPredictedError
  <2> DEFINE t == [val[1] EXCEPT !.err = ErrorAt(g, CurState(val[1]))]
  <2>1. t.err = ErrorAt(g, CurState(val[1])) /\ t.states = val[1].states
    BY <1>1 DEF Traces
  <2>2. Path(t) = Path(val[1]) /\ CurState(t) = CurState(val[1])
    BY <2>1 DEF Path, CurState
  <2>3. Built(t)
    BY <1>3, <2>1, <2>2 DEF Built
  <2>4. Range(<<t>>) = {t}
    BY DEF Range
  <2>5. val' = <<t>>
    BY <1>6 DEF CallPredictedError, Return
  <2> HIDE DEF t
  <2> QED
    BY <2>1, <2>2, <2>3, <2>4, <2>5
<1> QED
  BY <1>4, <1>5, <1>6
     DEF Next, CallTerminated, CallNoTransitions, CallExpand, LoopRecurse,
         LoopTooComplicated, LoopEnd, Receive, Propagate, Deliver, Return

\* What the frames say, of the frames below the last one and of the last one.
FrameBuilt(f) ==
    /\ Built(f.prefix) /\ f.prefix.err = NoError
    /\ \A k \in 1..Len(f.todo) : Linked(CurState(f.prefix), f.todo[k].dest)

\* A frame put on top of the rest.
LEMMA PushBuilt ==
    ASSUME NEW fs \in Seq(Frames), NEW f \in Frames, FrameBuilt(f),
           \A i \in 1..Len(fs) : FrameBuilt(fs[i])
    PROVE  \A i \in 1..Len(Append(fs, f)) : FrameBuilt(Append(fs, f)[i])
<1>1. /\ Len(fs) \in Nat
      /\ Len(Append(fs, f)) = Len(fs) + 1
      /\ \A i \in 1..Len(fs) : Append(fs, f)[i] = fs[i]
      /\ Append(fs, f)[Len(fs) + 1] = f
  BY AppendProperties, LenProperties
<1>2. 1..(Len(fs) + 1) = 1..Len(fs) \cup {Len(fs) + 1}
  BY <1>1
<1> QED
  BY <1>1, <1>2

\* The last frame, and those below it.
LEMMA PopBuilt ==
    ASSUME TypeInv, Building, stack # <<>>
    PROVE  FrameBuilt(Top) /\ \A i \in 1..Len(Pop) : FrameBuilt(Pop[i])
<1>1. /\ Len(stack) \in Nat \ {0}
      /\ Len(Pop) = Len(stack) - 1
      /\ \A i \in 1..(Len(stack) - 1) : Pop[i] = stack[i]
  BY PopProperties DEF TypeInv, TypeOK, Pop
<1>2. \A i \in 1..Len(stack) : FrameBuilt(stack[i])
  BY DEF Building, FrameBuilt
<1>3. Top = stack[Len(stack)] /\ Len(stack) \in 1..Len(stack)
  BY <1>1 DEF Top, Last
<1> QED
  BY <1>1, <1>2, <1>3

\* Every step builds traces from transitions.
LEMMA NextBuilding == TypeInv /\ Building /\ [Next]_vars => Building'
<1> SUFFICES ASSUME TypeInv, Building, [Next]_vars
             PROVE  Building'
  OBVIOUS
<1> DEFINE Calls == pc' = "call" => Built(val'[1]) /\ val'[1].err = NoError
           Stacked == \A i \in 1..Len(stack') : FrameBuilt(stack'[i])
<1>1. CASE UNCHANGED vars
  <2>1. Held' = Held
    BY <1>1 DEF vars, Held
  <2> QED
    BY <1>1, <2>1, SameFunction DEF Building, vars
<1>2. CASE Next
  <2>1. \A t \in Held' : Built(t) /\ t.err \in {NoError, ErrorAt(g, CurState(t))}
    BY <1>2, HeldStep, ReturnsBuilt DEF Building
  <2>2. \A i \in 1..Len(stack) : FrameBuilt(stack[i])
    BY DEF Building, FrameBuilt
  <2>3. ASSUME \/ CallTerminated \/ CallLooped \/ CallPredictedError \/ CallNoTransitions
               \/ Deliver
        PROVE  Calls /\ Stacked
    BY <2>2, <2>3 DEF CallTerminated, CallLooped, CallPredictedError, CallNoTransitions,
                      Deliver, Interprets, Return
  <2>4. ASSUME CallExpand PROVE Calls /\ Stacked
    <3> DEFINE f == [prefix |-> val[1], todo |-> GetTransitions(g, CurState(val[1])),
                     result |-> <<>>]
    <3>1. f \in Frames
      BY <2>4, CallType, GetTransitionsType DEF CallExpand, Interprets, Frames, TypeInv
    <3>2. FrameBuilt(f)
      BY <2>4 DEF CallExpand, Interprets, Building, FrameBuilt, Linked
    <3>3. stack' = Append(stack, f) /\ pc' = "loop" /\ stack \in Seq(Frames)
      BY <2>4 DEF CallExpand, TypeInv, TypeOK
    <3> HIDE DEF f
    <3> QED
      BY <2>2, <3>1, <3>2, <3>3, PushBuilt
  <2>5. ASSUME LoopRecurse PROVE Calls /\ Stacked
    <3> DEFINE f == [Top EXCEPT !.todo = Tail(Top.todo)]
    <3>1. stack # <<>> /\ Top \in Frames /\ Top.todo \in Seq(Transitions) /\ Top.todo # <<>>
          /\ Pop \in Seq(Frames) /\ Top.prefix \in Traces /\ g \in Programs
      BY <2>5, TopType DEF LoopRecurse, TypeInv, Positions
    <3>2. /\ Head(Top.todo) \in Transitions /\ Head(Top.todo) = Top.todo[1]
          /\ Tail(Top.todo) \in Seq(Transitions)
          /\ Len(Top.todo) \in Nat \ {0}
          /\ Len(Tail(Top.todo)) = Len(Top.todo) - 1
          /\ \A k \in 1..(Len(Top.todo) - 1) : Tail(Top.todo)[k] = Top.todo[k + 1]
      BY <3>1, HeadTailProperties, EmptySeq, LenProperties
    <3>3. FrameBuilt(Top) /\ \A i \in 1..Len(Pop) : FrameBuilt(Pop[i])
      BY <3>1, PopBuilt
    <3>4. f \in Frames /\ f.prefix = Top.prefix /\ f.todo = Tail(Top.todo)
      BY <3>1, <3>2 DEF Frames
    <3>5. FrameBuilt(f)
      <4>1. \A k \in 1..Len(Tail(Top.todo)) : k + 1 \in 1..Len(Top.todo)
        BY <3>2
      <4> HIDE DEF f
      <4> QED
        BY <3>2, <3>3, <3>4, <4>1 DEF FrameBuilt
    <3>6. Stacked
      <4>1. stack' = Append(Pop, f)
        BY <2>5 DEF LoopRecurse
      <4> HIDE DEF f
      <4> QED
        BY <3>1, <3>3, <3>4, <3>5, <4>1, PushBuilt
    <3>7. val' = <<Add(Top.prefix, Head(Top.todo))>>
      BY <2>5 DEF LoopRecurse
    <3>8. Linked(CurState(Top.prefix), Head(Top.todo).dest) /\ Built(Top.prefix)
          /\ Top.prefix.err = NoError
      BY <3>2, <3>3 DEF FrameBuilt
    <3> QED
      BY <3>1, <3>2, <3>6, <3>7, <3>8, AddBuilt
  <2>6. ASSUME LoopTooComplicated \/ LoopEnd \/ Propagate PROVE Calls /\ Stacked
    BY <2>6, PopBuilt DEF LoopTooComplicated, LoopEnd, Propagate, TypeInv, Positions
  <2>7. ASSUME Receive PROVE Calls /\ Stacked
    <3> DEFINE f == [Top EXCEPT !.result = Top.result \o val]
    <3>1. Top \in Frames /\ Pop \in Seq(Frames) /\ Top.result \o val \in Seq(Traces)
      BY <2>7, TopType, ConcatProperties DEF Receive, TypeInv, TypeOK
    <3>2. f \in Frames /\ f.prefix = Top.prefix /\ f.todo = Top.todo
      BY <3>1 DEF Frames
    <3>3. FrameBuilt(Top) /\ \A i \in 1..Len(Pop) : FrameBuilt(Pop[i])
      BY <2>7, PopBuilt DEF Receive
    <3>4. stack' = Append(Pop, f) /\ pc' = "loop"
      BY <2>7 DEF Receive
    <3> HIDE DEF f
    <3>5. FrameBuilt(f)
      BY <3>2, <3>3 DEF FrameBuilt
    <3> QED
      BY <3>1, <3>2, <3>3, <3>4, <3>5, PushBuilt
  <2>8. Calls /\ Stacked
    BY <1>2, <2>3, <2>4, <2>5, <2>6, <2>7 DEF Next
  <2> QED
    BY <2>1, <2>8, SameFunction DEF Building, FrameBuilt
<1> QED
  BY <1>1, <1>2

-----------------------------------------------------------------------------
(***************************************************************************)
(* The states that the traces go through are sound: an unknown value is of *)
(* the type of the variables that hold it, only known values were supposed *)
(* by a split, and only a return ends in a state that has returned.        *)
(***************************************************************************)
SameType(v, w) == v \in PtrVars <=> w \in PtrVars

SoundStore(store) ==
    \A v \in Vars : /\ store[v].kind = "unknown" => SameType(store[v].id[1], v)
                    /\ store[v].split => store[v].kind \notin {"uninit", "unknown"}

Sound(s) ==
    /\ s \in States
    /\ SoundStore(s.store)
    /\ \A v \in Vars : s.store[v].kind = "unknown" => s.store[v].id[2] <= s.calls
    /\ s.has_returned => g.stmt[s.node].op = "return"
    /\ s.not_returning => g.stmt[s.node].op = "exit"

\* What a test or a call may give is known.
LEMMA ResultsKnown ==
    ASSUME NEW v
    PROVE  /\ Results(v) \subseteq Kinds \ {"uninit", "unknown"}
           /\ \A w : SameType(v, w) => Results(w) = Results(v)
BY DEF Results, SameType, Kinds

\* Initially.
LEMMA InitSound == ASSUME g \in Programs PROVE Sound(InitState(g))
<1>1. InitState(g) \in States
  BY InitStateType, ProgramsAssumption
<1>2. \A v \in Vars : /\ Unknown(v, 0).id[1] = v /\ ~Unknown(v, 0).split
                      /\ Value("uninit", v).kind = "uninit" /\ ~Value("uninit", v).split
  BY DEF Unknown, Value
<1>3. SoundStore(InitState(g).store)
  BY <1>2 DEF SoundStore, InitState, SameType
<1>4. \A v \in Vars : InitState(g).store[v].kind = "unknown" =>
                       InitState(g).store[v].id[2] <= InitState(g).calls
  BY <1>2 DEF InitState, Unknown
<1> QED
  BY <1>1, <1>3, <1>4 DEF Sound, InitState

\* Replacing all copies of an unknown value.
LEMMA ToldSound ==
    ASSUME NEW store \in [Vars -> Values], SoundStore(store), NEW x \in Values,
           NEW kind \in Kinds \ {"uninit", "unknown"}
    PROVE  SoundStore(Told(store, x, kind))
BY DEF SoundStore, Told

\* Setting one variable.
LEMMA SetSound ==
    ASSUME NEW store \in [Vars -> Values], SoundStore(store),
           NEW v \in Vars, NEW x \in Values,
           x.kind = "unknown" => SameType(x.id[1], v),
           x.split => x.kind \notin {"uninit", "unknown"}
    PROVE  SoundStore([store EXCEPT ![v] = x]) /\ [store EXCEPT ![v] = x] \in [Vars -> Values]
BY DEF SoundStore

\* Every step keeps the states sound, and stays at its node or goes on.
LEMMA LinkedSound ==
    ASSUME g \in Programs, NEW s, NEW d, Sound(s), Linked(s, d)
    PROVE  Sound(d) /\ (Stays(g, s, d) \/ GoesOn(g, s, d))
<1> DEFINE st == g.stmt[s.node]
<1>1. PICK k \in 1..Len(GetTransitions(g, s)) : GetTransitions(g, s)[k].dest = d
  BY DEF Linked
<1>2. s \in States /\ ~Terminated(s)
  BY DEF Sound, Linked
<1>3. d \in States
  <2>1. GetTransitions(g, s)[k] \in Transitions
    BY <1>1, <1>2, GetTransitionsType, ElementOfSeq
  <2> QED
    BY <2>1, <1>1 DEF Transitions
<1>4. (Stays(g, s, d) \/ GoesOn(g, s, d)) /\ Flags(g, s, d)
  BY <1>1, <1>2, StepCases
<1>5. /\ s.store \in [Vars -> Values] /\ SoundStore(s.store)
      /\ st.lhs \in Vars /\ st.rhs \in Vars /\ st.op \in Ops /\ s.node \in Nodes
  BY <1>2, StmtType, SMTT(30) DEF States, Sound, Stmts
<1>6. SoundStore(d.store)
  <2>1. CASE Stays(g, s, d)
    <3>1. CASE d.store = s.store
      BY <3>1, <1>5
    <3>2. CASE \E kind \in Results(st.rhs) : d.store = Told(s.store, s.store[st.rhs], kind)
      <4>1. s.store[st.rhs] \in Values
        BY <1>5
      <4> QED
        BY <3>2, <4>1, <1>5, ResultsKnown, ToldSound
    <3> QED
      BY <2>1, <3>1, <3>2 DEF Stays
  <2>2. CASE GoesOn(g, s, d)
    <3>1. Sets(g, s, d)
      BY <2>2 DEF GoesOn
    <3>2. CASE d.store = s.store
      BY <3>2, <1>5
    <3>3. ASSUME NEW x \in Values, d.store = [s.store EXCEPT ![st.lhs] = x],
                 \/ x.kind # "unknown" /\ ~x.split
                 \/ Fresh(s, st.lhs, x)
                 \/ st.op = "assign" /\ x = s.store[st.rhs]
          PROVE  SoundStore(d.store)
      <4>1. CASE x.kind # "unknown" /\ ~x.split
        BY <3>3, <4>1, <1>5, SetSound
      <4>2. CASE Fresh(s, st.lhs, x)
        BY <3>3, <4>2, <1>5, SetSound DEF Fresh, SameType
      <4>3. CASE st.op = "assign" /\ x = s.store[st.rhs]
        <5>1. SameType(st.lhs, st.rhs)
          BY <4>3, <1>5, ProgramsAssumption DEF SameType
        <5>2. x.kind = "unknown" => SameType(x.id[1], st.lhs)
          BY <4>3, <5>1, <1>5 DEF SoundStore, SameType
        <5>3. x.split => x.kind \notin {"uninit", "unknown"}
          BY <4>3, <1>5 DEF SoundStore
        <5> QED
          BY <3>3, <5>2, <5>3, <1>5, SetSound
      <4> QED
        BY <3>3, <4>1, <4>2, <4>3
    <3>4. CASE st.op \in {"null", "addr", "assign", "call", "pass", "newref"}
      <4>1. PICK x \in Values :
                /\ d.store = [s.store EXCEPT ![st.lhs] = x]
                /\ st.op = "null" => x.kind = "null" /\ ~x.split
                /\ st.op = "addr" => x.kind = "nonnull" /\ ~x.split
                /\ st.op = "assign" => x = s.store[st.rhs]
                /\ st.op \in {"call", "pass"} => Fresh(s, st.lhs, x)
                /\ st.op = "newref" => x.kind \in {"null", "nonnull"} /\ ~x.split
        BY <3>1, <3>4, Zenon DEF Sets
      <4> QED
        BY <3>3, <3>4, <4>1
    <3>5. CASE st.op = "callneg"
      <4>1. PICK x \in Values, kind \in Results(st.lhs) :
                /\ Fresh(s, st.lhs, x)
                /\ d.store = Told([s.store EXCEPT ![st.lhs] = x], x, kind)
        BY <3>1, <3>5 DEF Sets
      <4>2. /\ SoundStore([s.store EXCEPT ![st.lhs] = x])
            /\ [s.store EXCEPT ![st.lhs] = x] \in [Vars -> Values]
        BY <4>1, <1>5, SetSound DEF Fresh, SameType
      <4> QED
        BY <4>1, <4>2, ResultsKnown, ToldSound
    <3> QED
      BY <3>1, <3>2, <3>4, <3>5, Zenon DEF Sets
  <2> QED
    BY <1>4, <2>1, <2>2
<1>7. /\ d.has_returned => g.stmt[d.node].op = "return"
      /\ d.not_returning => g.stmt[d.node].op = "exit"
  BY <1>4 DEF Flags
<1>8. Counts(g, s, d)
  BY <1>1, <1>2, StepCounts
<1>9. s.calls \in Nat /\ d.calls \in Nat /\ s.calls <= d.calls
  BY <1>2, <1>3, <1>8 DEF Counts, States
<1>10. \A v \in Vars : d.store[v].kind = "unknown" => d.store[v].id[2] <= d.calls
  <2>1. \A v \in Vars : /\ s.store[v].kind = "unknown" => s.store[v].id[2] <= s.calls
                        /\ s.store[v].id[2] \in Nat
    BY <1>5 DEF Sound, Values, Ids
  <2>2. ASSUME NEW v \in Vars, d.store[v] = s.store[v], d.store[v].kind = "unknown"
        PROVE  d.store[v].id[2] <= d.calls
    BY <2>1, <2>2, <1>9, SMTT(30)
  <2>3. CASE Stays(g, s, d)
    <3>1. ASSUME NEW v \in Vars, d.store[v].kind = "unknown" PROVE d.store[v] = s.store[v]
      <4>1. CASE d.store = s.store
        BY <4>1
      <4>2. CASE \E kind \in Results(st.rhs) : d.store = Told(s.store, s.store[st.rhs], kind)
        <5>1. PICK kind \in Results(st.rhs) : d.store = Told(s.store, s.store[st.rhs], kind)
          BY <4>2
        <5>2. kind # "unknown"
          BY ResultsKnown
        <5>3. d.store[v] = IF s.store[v] = s.store[st.rhs]
                           THEN [kind |-> kind, id |-> s.store[st.rhs].id, split |-> TRUE]
                           ELSE s.store[v]
          BY <5>1, Zenon DEF Told
        <5>4. s.store[v] # s.store[st.rhs]
          BY <3>1, <5>2, <5>3
        <5> QED
          BY <5>3, <5>4
      <4> QED
        BY <2>3, <4>1, <4>2 DEF Stays
    <3> QED
      BY <2>2, <3>1
  <2>4. CASE GoesOn(g, s, d)
    <3>1. Sets(g, s, d)
      BY <2>4 DEF GoesOn
    <3>2. CASE d.store = s.store
      BY <2>2, <3>2
    <3>3. ASSUME NEW x \in Values, d.store = [s.store EXCEPT ![st.lhs] = x],
                 x.kind = "unknown" => x.id[2] <= d.calls
          PROVE  \A v \in Vars : d.store[v].kind = "unknown" => d.store[v].id[2] <= d.calls
      <4> TAKE v \in Vars
      <4>1. CASE v = st.lhs
        BY <3>3, <4>1, <1>5
      <4>2. CASE v # st.lhs
        <5>1. d.store[v] = s.store[v]
          BY <3>3, <4>2, <1>5
        <5> QED
          BY <2>2, <5>1
      <4> QED
        BY <4>1, <4>2
    <3>4. ASSUME NEW x, Fresh(s, st.lhs, x), st.op \in {"call", "pass", "callneg"}
          PROVE  x.id[2] <= d.calls
      <4>1. d.node # s.node
        BY <2>4 DEF GoesOn
      <4> QED
        BY <3>4, <4>1, <1>8, <1>9 DEF Counts, Fresh
    <3>5. CASE st.op \in {"null", "addr", "assign", "call", "pass", "newref"}
      <4>1. PICK x \in Values :
                /\ d.store = [s.store EXCEPT ![st.lhs] = x]
                /\ st.op = "null" => x.kind = "null" /\ ~x.split
                /\ st.op = "addr" => x.kind = "nonnull" /\ ~x.split
                /\ st.op = "assign" => x = s.store[st.rhs]
                /\ st.op \in {"call", "pass"} => Fresh(s, st.lhs, x)
                /\ st.op = "newref" => x.kind \in {"null", "nonnull"} /\ ~x.split
        BY <3>1, <3>5, Zenon DEF Sets
      <4>2. CASE st.op = "assign"
        <5>1. s.store[st.rhs].kind = "unknown" => s.store[st.rhs].id[2] <= d.calls
          BY <2>1, <1>5, <1>9, SMTT(40)
        <5> QED
          BY <3>3, <4>1, <4>2, <5>1
      <4>3. CASE st.op \in {"call", "pass"}
        BY <3>3, <3>4, <4>1, <4>3
      <4>4. CASE st.op \in {"null", "addr", "newref"}
        BY <3>3, <4>1, <4>4
      <4> QED
        BY <3>5, <4>2, <4>3, <4>4
    <3>6. CASE st.op = "callneg"
      <4>1. PICK x \in Values, kind \in Results(st.lhs) :
                /\ Fresh(s, st.lhs, x)
                /\ d.store = Told([s.store EXCEPT ![st.lhs] = x], x, kind)
        BY <3>1, <3>6 DEF Sets
      <4>2. ASSUME NEW v \in Vars, d.store[v].kind = "unknown" PROVE d.store[v] = s.store[v]
        <5>1. kind # "unknown"
          BY ResultsKnown
        <5>2. [s.store EXCEPT ![st.lhs] = x][st.lhs] = x
              /\ (v # st.lhs => [s.store EXCEPT ![st.lhs] = x][v] = s.store[v])
          BY <1>5
        <5> QED
          BY <4>1, <4>2, <5>1, <5>2 DEF Told
      <4> QED
        BY <2>2, <4>2
    <3> QED
      BY <3>1, <3>2, <3>5, <3>6, Zenon DEF Sets
  <2> QED
    BY <1>4, <2>3, <2>4
<1> QED
  BY <1>3, <1>4, <1>6, <1>7, <1>10 DEF Sound

\* So is every state that a built trace goes through.
LEMMA PathSound ==
    ASSUME g \in Programs, NEW t \in Traces, Built(t)
    PROVE  \A i \in 1..(Len(t.states) + 1) : Sound(Path(t)[i])
<1> DEFINE S == {n \in Nat : n < Len(t.states) + 1 => Sound(Path(t)[n + 1])}
<1>1. Len(t.states) \in Nat /\ Path(t)[1] = InitState(g)
  BY PathType
<1>2. 0 \in S
  BY <1>1, InitSound
<1>3. ASSUME NEW n \in Nat, n \in S PROVE n + 1 \in S
  <2>1. CASE n + 1 < Len(t.states) + 1
    <3>1. n + 1 \in 1..Len(t.states) /\ n < Len(t.states) + 1
      BY <2>1, <1>1
    <3>2. Linked(Path(t)[n + 1], Path(t)[(n + 1) + 1]) /\ Sound(Path(t)[n + 1])
      BY <1>3, <3>1 DEF Built
    <3> QED
      BY <3>2, LinkedSound
  <2> QED
    BY <2>1
<1>4. Nat \subseteq S
  <2> HIDE DEF S
  <2> QED
    BY <1>2, <1>3, NatSetInduction
<1> TAKE i \in 1..(Len(t.states) + 1)
<1>5. i - 1 \in Nat /\ i - 1 < Len(t.states) + 1 /\ (i - 1) + 1 = i
  BY <1>1
<1>6. i - 1 \in S
  <2> HIDE DEF S
  <2> QED
    BY <1>4, <1>5
<1> QED
  BY <1>5, <1>6

-----------------------------------------------------------------------------
(***************************************************************************)
(* Runs that fit.  A configuration fits a state if it has the values that  *)
(* the state knows, values of the right type for those it does not, and    *)
(* the same for all copies of one.  Every configuration that fits a state  *)
(* of a trace is reached by a run that fits the states before.             *)
(***************************************************************************)
Configs == [node : Nodes, env : [Vars -> Kinds \ {"unknown"}]]

Fits(store, env, vs) ==
    /\ \A v \in vs : IF store[v].kind = "unknown" THEN env[v] \in Results(v)
                                                  ELSE env[v] = store[v].kind
    /\ \A v, w \in vs : store[v].kind = "unknown" /\ store[v] = store[w] => env[v] = env[w]

Described(s, c) == c \in Configs /\ c.node = s.node /\ Fits(s.store, c.env, Vars)

\* Two variables that hold the same unknown value have the same type.
LEMMA CopiesAlike ==
    ASSUME NEW store, SoundStore(store), NEW v \in Vars, NEW w \in Vars,
           store[v].kind = "unknown", store[w] = store[v]
    PROVE  Results(w) = Results(v)
BY DEF SoundStore, SameType, Results

\* The value of a variable that is about to be set can be supplied.
LEMMA Refit ==
    ASSUME NEW store \in [Vars -> Values], SoundStore(store),
           NEW env \in [Vars -> Kinds \ {"unknown"}], NEW v \in Vars,
           Fits(store, env, Vars \ {v})
    PROVE  \E e \in Kinds \ {"unknown"} : Fits(store, [env EXCEPT ![v] = e], Vars)
<1>1. ASSUME NEW e \in Kinds \ {"unknown"},
             IF store[v].kind = "unknown" THEN e \in Results(v) ELSE e = store[v].kind,
             \A w \in Vars \ {v} :
                 store[v].kind = "unknown" /\ store[w] = store[v] => env[w] = e
      PROVE  Fits(store, [env EXCEPT ![v] = e], Vars)
  BY <1>1 DEF Fits
<1>2. CASE store[v].kind # "unknown"
  <2>1. store[v].kind \in Kinds \ {"unknown"}
    BY <1>2 DEF Values
  <2> QED
    BY <1>1, <1>2, <2>1
<1>3. CASE store[v].kind = "unknown" /\ \E w \in Vars \ {v} : store[w] = store[v]
  <2>1. PICK w \in Vars \ {v} : store[w] = store[v]
    BY <1>3
  <2>2. env[w] \in Results(v)
    BY <1>3, <2>1, CopiesAlike DEF Fits
  <2>3. \A u \in Vars \ {v} : store[u] = store[v] => env[u] = env[w]
    BY <1>3, <2>1 DEF Fits
  <2> QED
    BY <1>1, <1>3, <2>2, <2>3, ResultsKnown
<1>4. CASE store[v].kind = "unknown" /\ ~ \E w \in Vars \ {v} : store[w] = store[v]
  <2>1. PICK e \in Results(v) : TRUE
    BY DEF Results
  <2> QED
    BY <1>1, <1>4, <2>1, ResultsKnown
<1> QED
  BY <1>2, <1>3, <1>4

\* What fits after all copies of a value were replaced fitted before.
LEMMA FitsTold ==
    ASSUME NEW store \in [Vars -> Values], SoundStore(store), NEW v \in Vars,
           store[v].kind = "unknown", NEW kind \in Results(v), NEW env,
           NEW vs \in SUBSET Vars, Fits(Told(store, store[v], kind), env, vs)
    PROVE  Fits(store, env, vs)
<1> DEFINE after == Told(store, store[v], kind)
<1>1. \A w \in Vars : IF store[w] = store[v] THEN after[w].kind = kind ELSE after[w] = store[w]
  BY DEF Told
<1>2. kind # "unknown"
  BY ResultsKnown
<1> HIDE DEF after
<1>3. \A w \in vs : store[w] = store[v] => env[w] = kind /\ env[w] \in Results(w)
  BY <1>1, <1>2, CopiesAlike DEF Fits, after
<1>4. \A w \in vs : IF store[w].kind = "unknown" THEN env[w] \in Results(w)
                                                ELSE env[w] = store[w].kind
  <2> TAKE w \in vs
  <2>1. CASE store[w] = store[v]
    BY <2>1, <1>3
  <2>2. CASE store[w] # store[v]
    BY <2>2, <1>1 DEF Fits, after
  <2> QED
    BY <2>1, <2>2
<1>5. \A w, u \in vs : store[w].kind = "unknown" /\ store[w] = store[u] => env[w] = env[u]
  <2> TAKE w, u \in vs
  <2>1. CASE store[w] = store[v]
    BY <2>1, <1>3
  <2>2. CASE store[w] # store[v]
    BY <2>2, <1>1 DEF Fits, after
  <2> QED
    BY <2>1, <2>2
<1> QED
  BY <1>4, <1>5 DEF Fits

\* A run that fits a state at which no error is predicted does not stop there.
LEMMA FitsGoesOn ==
    ASSUME g \in Programs, NEW s, NEW d, Sound(s), Linked(s, d), GoesOn(g, s, d),
           NEW c, Described(s, c)
    PROVE  StopAt(g, c) = "none"
<1> DEFINE st == g.stmt[s.node]
           k == s.store[st.rhs].kind
<1>1. st.rhs \in Vars
  BY StmtType DEF Sound, Stmts
<1>2. st.op \in {"deref", "cond", "pass"} => k # "uninit"
  BY DEF Linked, ErrorAt, NoError
<1>3. st.op = "deref" => k # "null"
  BY DEF Linked, ErrorAt, NoError
<1>4. st.op \notin {"return", "exit"} /\ ~(st.op = "deref" /\ k = "unknown")
  BY DEF GoesOn
<1>5. g.succs[s.node] # <<>>
  BY DEF GoesOn
<1>6. IF k = "unknown" THEN c.env[st.rhs] \in Results(st.rhs) ELSE c.env[st.rhs] = k
  BY <1>1 DEF Described, Fits
<1>7. st.op \in {"deref", "cond", "pass"} => c.env[st.rhs] # "uninit"
  BY <1>2, <1>6, ResultsKnown
<1>8. st.op = "deref" => c.env[st.rhs] # "null"
  BY <1>3, <1>4, <1>6
<1>9. c.node = s.node
  BY DEF Described
<1> QED
  BY <1>4, <1>5, <1>7, <1>8, <1>9, SMTT(30) DEF StopAt

\* A configuration that fits the next state is where one that fits this state
\* may go.
LEMMA FitsBefore ==
    ASSUME g \in Programs, NEW s, NEW d, Sound(s), Linked(s, d), ~Blind(s),
           NEW e, Described(d, e)
    PROVE  \E c : Described(s, c) /\ e \in Onward(s, d, c)
<1> DEFINE st == g.stmt[s.node]
           kind == s.store[st.rhs].kind
<1>1. /\ s.store \in [Vars -> Values] /\ SoundStore(s.store)
      /\ st.lhs \in Vars /\ st.rhs \in Vars /\ st.op \in Ops /\ s.node \in Nodes
  BY StmtType DEF States, Sound, Stmts
<1>2. e \in Configs /\ e.node = d.node /\ Fits(d.store, e.env, Vars)
  BY DEF Described
<1>3. e.env \in [Vars -> Kinds \ {"unknown"}] /\ e = [node |-> e.node, env |-> e.env]
  BY <1>2 DEF Configs
<1>4. CASE Stays(g, s, d)
  <2>1. d.node = s.node
    BY <1>4 DEF Stays
  <2>2. Fits(s.store, e.env, Vars)
    BY <1>1, <1>2, <1>4, FitsTold DEF Stays
  <2> QED
    BY <1>2, <2>1, <2>2 DEF Described, Onward
<1>5. CASE GoesOn(g, s, d)
  <2>1. PICK i \in 1..Len(g.succs[s.node]) :
            /\ d.node = g.succs[s.node][i] /\ d.node # s.node
            /\ st.op \in StraightOps => i = 1
            /\ st.op = "cond" => \/ kind \in {"null", "neg"} /\ i = 1
                                 \/ kind = "unknown" /\ ~SplitsAtCond(st.rhs)
                                 \/ kind \notin {"null", "neg", "unknown"} /\ i = 2
    BY <1>5, Zenon DEF GoesOn
  <2>2. ASSUME NEW env \in [Vars -> Kinds \ {"unknown"}], Fits(s.store, env, Vars),
               e \in Follow(g, [node |-> s.node, env |-> env])
        PROVE  \E c : Described(s, c) /\ e \in Onward(s, d, c)
    <3> DEFINE c == [node |-> s.node, env |-> env]
    <3>1. Described(s, c)
      BY <1>1, <2>2 DEF Described, Configs
    <3>2. StopAt(g, c) = "none"
      BY <1>5, <3>1, FitsGoesOn
    <3> QED
      BY <2>1, <2>2, <3>1, <3>2 DEF Onward
  <2>3. Sets(g, s, d)
    BY <1>5 DEF GoesOn
  <2>4. CASE st.op \in {"none", "switch", "nop", "deref", "cond"}
    <3>1. d.store = s.store
      BY <2>3, <2>4, Zenon DEF Sets
    <3>2. Fits(s.store, e.env, Vars)
      BY <1>2, <3>1, SMTT(30)
    <3> DEFINE c == [node |-> s.node, env |-> e.env]
    <3>3. [c EXCEPT !.node = g.succs[s.node][i]] = e
      BY <1>2, <1>3, <2>1, SMTT(40)
    <3>4. e \in Follow(g, c)
      <4>1. CASE st.op \in {"none", "switch"}
        BY <4>1, <3>3, Zenon DEF Follow
      <4>2. CASE st.op \in {"nop", "deref"}
        BY <4>2, <3>3, <2>1, Zenon DEF Follow, StraightOps
      <4>3. CASE st.op = "cond"
        <5>1. Follow(g, c) = {IF CondTrue(c.env[st.rhs])
                              THEN [c EXCEPT !.node = g.succs[s.node][1]]
                              ELSE [c EXCEPT !.node = g.succs[s.node][2]]}
          BY <4>3, Zenon DEF Follow
        <5>2. kind # "unknown"
          BY <2>1, <4>3 DEF Blind
        <5>3. c.env[st.rhs] = kind
          BY <1>1, <3>2, <5>2, SMTT(30) DEF Fits
        <5>4. IF CondTrue(c.env[st.rhs]) THEN i = 1 ELSE i = 2
          BY <2>1, <4>3, <5>2, <5>3 DEF CondTrue
        <5> HIDE DEF c
        <5> QED
          BY <3>3, <5>1, <5>4
      <4> QED
        BY <2>4, <4>1, <4>2, <4>3
    <3> QED
      BY <1>3, <2>2, <3>2, <3>4
  <2>5. ASSUME Fits(s.store, e.env, Vars \ {st.lhs}), st.op \in StraightOps,
               st.op \notin {"nop", "deref", "assign"},
               e.env[st.lhs] \in CASE st.op = "null" -> {"null"}
                                   [] st.op = "addr" -> {"nonnull"}
                                   [] OTHER -> Results(st.lhs)
        PROVE  \E c : Described(s, c) /\ e \in Onward(s, d, c)
    <3>1. PICK x \in Kinds \ {"unknown"} : Fits(s.store, [e.env EXCEPT ![st.lhs] = x], Vars)
      BY <1>1, <1>3, <2>5, Refit
    <3> DEFINE env == [e.env EXCEPT ![st.lhs] = x]
    <3>2. env \in [Vars -> Kinds \ {"unknown"}]
      BY <1>3
    <3>3. [env EXCEPT ![st.lhs] = e.env[st.lhs]] = e.env
      BY <1>1, <1>3
    <3> HIDE DEF env
    <3>4. [node |-> g.succs[s.node][1], env |-> [env EXCEPT ![st.lhs] = e.env[st.lhs]]] = e
      BY <1>2, <1>3, <2>1, <2>5, <3>3, Zenon
    <3> DEFINE y == e.env[st.lhs]
               r == [node |-> g.succs[s.node][1], env |-> [env EXCEPT ![st.lhs] = y]]
    <3>5. r \in Follow(g, [node |-> s.node, env |-> env])
      <4> HIDE DEF y
      <4>1. CASE st.op = "null"
        BY <2>5, <4>1, Zenon DEF Follow, y
      <4>2. CASE st.op = "addr"
        BY <2>5, <4>2, Zenon DEF Follow, y
      <4>3. CASE st.op \in {"newref", "call", "pass", "callneg"}
        BY <2>5, <4>3, Zenon DEF Follow, y
      <4> QED
        BY <2>5, <4>1, <4>2, <4>3 DEF StraightOps
    <3> QED
      BY <2>2, <3>1, <3>2, <3>4, <3>5 DEF env
  <2>6. ASSUME NEW x \in Values, d.store = [s.store EXCEPT ![st.lhs] = x]
        PROVE  /\ Fits(s.store, e.env, Vars \ {st.lhs})
               /\ IF x.kind = "unknown" THEN e.env[st.lhs] \in Results(st.lhs)
                                        ELSE e.env[st.lhs] = x.kind
    <3>1. /\ \A v \in Vars \ {st.lhs} : d.store[v] = s.store[v]
          /\ d.store[st.lhs] = x
      BY <1>1, <2>6
    <3> QED
      BY <1>1, <1>2, <3>1 DEF Fits
  <2>7. CASE st.op \in {"null", "addr", "call", "pass", "newref"}
    <3>1. PICK x \in Values :
              /\ d.store = [s.store EXCEPT ![st.lhs] = x]
              /\ st.op = "null" => x.kind = "null" /\ ~x.split
              /\ st.op = "addr" => x.kind = "nonnull" /\ ~x.split
              /\ st.op \in {"call", "pass"} => Fresh(s, st.lhs, x)
              /\ st.op = "newref" => x.kind \in {"null", "nonnull"} /\ ~x.split
      BY <2>3, <2>7, Zenon DEF Sets
    <3>2. st.op = "newref" => Results(st.lhs) = {"null", "nonnull"}
      BY <1>1, ProgramsAssumption DEF Results
    <3>3. e.env[st.lhs] \in CASE st.op = "null" -> {"null"}
                              [] st.op = "addr" -> {"nonnull"}
                              [] OTHER -> Results(st.lhs)
      BY <2>6, <2>7, <3>1, <3>2 DEF Fresh
    <3> QED
      BY <2>5, <2>6, <2>7, <3>1, <3>3, Zenon DEF StraightOps
  <2>8. CASE st.op = "callneg"
    <3>1. PICK x \in Values, k \in Results(st.lhs) :
              /\ Fresh(s, st.lhs, x)
              /\ d.store = Told([s.store EXCEPT ![st.lhs] = x], x, k)
      BY <2>3, <2>8 DEF Sets
    <3> DEFINE store == [s.store EXCEPT ![st.lhs] = x]
    <3>2. /\ store \in [Vars -> Values] /\ SoundStore(store) /\ store[st.lhs] = x
      BY <1>1, <3>1, SetSound DEF Fresh, SameType
    <3>3. /\ \A v \in Vars \ {st.lhs} : store[v] = s.store[v]
      BY <1>1
    <3> HIDE DEF store
    <3>4. Fits(store, e.env, Vars)
      BY <1>1, <1>2, <3>1, <3>2, FitsTold DEF Fresh, store
    <3>5. Fits(s.store, e.env, Vars \ {st.lhs})
      BY <1>1, <3>3, <3>4 DEF Fits
    <3>6. e.env[st.lhs] \in Results(st.lhs)
      BY <1>1, <3>1, <3>2, <3>4 DEF Fits, Fresh
    <3> QED
      BY <2>5, <2>8, <3>5, <3>6 DEF StraightOps
  <2>9. CASE st.op = "assign"
    <3>1. s.store[st.rhs] \in Values /\ d.store = [s.store EXCEPT ![st.lhs] = s.store[st.rhs]]
      BY <1>1, <2>3, <2>9, Zenon DEF Sets
    <3>2. Follow(g, [node |-> s.node, env |-> e.env]) =
             {[node |-> g.succs[s.node][1], env |-> [e.env EXCEPT ![st.lhs] = e.env[st.rhs]]]}
      BY <2>9, Zenon DEF Follow
    <3>3. i = 1
      BY <2>1, <2>9 DEF StraightOps
    <3>4. CASE st.lhs = st.rhs
      <4>1. d.store = s.store
        BY <1>1, <3>1, <3>4
      <4>2. [e.env EXCEPT ![st.lhs] = e.env[st.rhs]] = e.env
        BY <1>1, <1>3, <3>4, SMTT(30)
      <4>3. e \in Follow(g, [node |-> s.node, env |-> e.env])
        BY <1>2, <1>3, <2>1, <3>2, <3>3, <4>2
      <4> QED
        BY <1>2, <1>3, <2>2, <4>1, <4>3
    <3>5. CASE st.lhs # st.rhs
      <4>1. Fits(s.store, e.env, Vars \ {st.lhs})
        BY <2>6, <3>1
      <4>2. PICK x \in Kinds \ {"unknown"} : Fits(s.store, [e.env EXCEPT ![st.lhs] = x], Vars)
        BY <1>1, <1>3, <4>1, Refit
      <4> DEFINE env == [e.env EXCEPT ![st.lhs] = x]
      <4>3. env \in [Vars -> Kinds \ {"unknown"}] /\ env[st.rhs] = e.env[st.rhs]
        BY <1>1, <1>3, <3>5
      <4>4. e.env[st.lhs] = e.env[st.rhs]
        <5>1. d.store[st.lhs] = d.store[st.rhs]
          BY <1>1, <3>1, <3>5
        <5> QED
          BY <1>1, <1>2, <5>1 DEF Fits
      <4>5. [env EXCEPT ![st.lhs] = env[st.rhs]] = e.env
        BY <1>1, <1>3, <4>3, <4>4
      <4> HIDE DEF env
      <4>6. e \in Follow(g, [node |-> s.node, env |-> env])
        <5>1. Follow(g, [node |-> s.node, env |-> env]) =
                 {[node |-> g.succs[s.node][1], env |-> [env EXCEPT ![st.lhs] = env[st.rhs]]]}
          BY <2>9, Zenon DEF Follow
        <5> QED
          BY <1>2, <1>3, <2>1, <3>3, <4>5, <5>1, ZenonT(40)
      <4> QED
        BY <2>2, <4>2, <4>3, <4>6 DEF env
    <3> QED
      BY <3>4, <3>5
  <2> QED
    BY <2>3, <2>4, <2>7, <2>8, <2>9, Zenon DEF Sets
<1> QED
  BY <1>4, <1>5, LinkedSound

\* Initially, what fits is an initial configuration.
LEMMA FitsInit ==
    ASSUME g \in Programs, NEW c, Described(InitState(g), c)
    PROVE  c \in InitConfigs(g)
<1> DEFINE store == InitState(g).store
<1>1. store = [v \in Vars |-> IF v \in Parms THEN Unknown(v, 0) ELSE Value("uninit", v)]
  BY DEF InitState
<1>2. \A v \in Vars : c.env[v] \in IF v \in Parms THEN Results(v) ELSE {"uninit"}
  <2> TAKE v \in Vars
  <2>1. store[v].kind = IF v \in Parms THEN "unknown" ELSE "uninit"
    BY <1>1 DEF Unknown, Value
  <2> QED
    BY <2>1 DEF Described, Fits
<1>3. c.node = g.entry /\ c = [node |-> c.node, env |-> c.env]
      /\ c.env \in [Vars -> Kinds \ {"unknown"}]
  BY DEF Described, Configs, InitState
<1> QED
  BY <1>2, <1>3 DEF InitConfigs

\* What fits agrees.
LEMMA FitsAgrees ==
    ASSUME NEW s, NEW c, Described(s, c)
    PROVE  Agrees(s, c, Vars)
BY DEF Described, Fits, Agrees

\* Every configuration that fits the last state of a trace without blind tests
\* is the end of a run along the whole trace.
LEMMA FitsAlong ==
    ASSUME g \in Programs, NEW t \in Traces, Built(t),
           \A i \in 1..Len(Path(t)) : ~Blind(Path(t)[i]),
           NEW c, Described(CurState(t), c)
    PROVE  c \in RunsAlong(Path(t), [i \in 1..Len(Path(t)) |-> Vars])
<1> DEFINE N == Len(Path(t))
           told == [i \in 1..N |-> Vars]
<1>1. /\ N \in Nat \ {0} /\ N = Len(t.states) + 1 /\ Len(t.states) \in Nat
      /\ Path(t)[1] = InitState(g) /\ Path(t)[N] = CurState(t)
  BY PathType
<1>2. PICK up :
        /\ up[1] = {e \in InitConfigs(g) : Agrees(Path(t)[1], e, told[1])}
        /\ \A i \in 2..N :
             up[i] = {e \in UNION {Onward(Path(t)[i - 1], Path(t)[i], d) : d \in up[i - 1]} :
                        Agrees(Path(t)[i], e, told[i])}
        /\ RunsAlong(Path(t), told) = up[N]
  <2> HIDE DEF told
  <2> QED
    BY <1>1, AlongDef
<1> DEFINE S == {n \in Nat : n < N => \A e : Described(Path(t)[n + 1], e) => e \in up[n + 1]}
<1>3. 0 \in S
  <2>1. told[1] = Vars
    BY <1>1
  <2> HIDE DEF N, told
  <2> QED
    BY <1>1, <1>2, <2>1, FitsInit, FitsAgrees
<1>4. ASSUME NEW n \in Nat, n \in S PROVE n + 1 \in S
  <2>1. SUFFICES ASSUME n + 1 < N, NEW e, Described(Path(t)[(n + 1) + 1], e)
                 PROVE  e \in up[(n + 1) + 1]
    OBVIOUS
  <2>2. /\ n + 1 \in 1..Len(t.states) /\ n + 1 \in 1..(Len(t.states) + 1) /\ n + 1 \in 1..N
        /\ (n + 1) + 1 \in 2..N /\ (n + 1) + 1 \in 1..N /\ ((n + 1) + 1) - 1 = n + 1 /\ n < N
    BY <2>1, <1>1
  <2>3. Linked(Path(t)[n + 1], Path(t)[(n + 1) + 1])
    BY <2>2 DEF Built
  <2>4. Sound(Path(t)[n + 1]) /\ ~Blind(Path(t)[n + 1])
    BY <2>2, PathSound
  <2>5. PICK b : /\ Described(Path(t)[n + 1], b)
                 /\ e \in Onward(Path(t)[n + 1], Path(t)[(n + 1) + 1], b)
    BY <2>1, <2>3, <2>4, FitsBefore
  <2>6. b \in up[n + 1]
    BY <1>4, <2>2, <2>5
  <2>7. Agrees(Path(t)[(n + 1) + 1], e, told[(n + 1) + 1])
    BY <2>1, <2>2, FitsAgrees
  <2>8. up[(n + 1) + 1] =
           {f \in UNION {Onward(Path(t)[n + 1], Path(t)[(n + 1) + 1], d) : d \in up[n + 1]} :
              Agrees(Path(t)[(n + 1) + 1], f, told[(n + 1) + 1])}
    <3>1. up[(n + 1) + 1] =
            {f \in UNION {Onward(Path(t)[((n + 1) + 1) - 1], Path(t)[(n + 1) + 1], d) :
                            d \in up[((n + 1) + 1) - 1]} :
              Agrees(Path(t)[(n + 1) + 1], f, told[(n + 1) + 1])}
      <4> HIDE DEF told
      <4> QED
        BY <1>2, <2>2
    <3> HIDE DEF told
    <3> QED
      BY <2>2, <3>1
  <2> HIDE DEF told
  <2> QED
    BY <2>5, <2>6, <2>7, <2>8
<1>5. Nat \subseteq S
  <2> HIDE DEF S
  <2> QED
    BY <1>3, <1>4, NatSetInduction
<1>6. N - 1 \in Nat /\ N - 1 < N /\ (N - 1) + 1 = N
  BY <1>1
<1>7. N - 1 \in S
  <2> HIDE DEF S, N
  <2> QED
    BY <1>5, <1>6
<1>8. \A e : Described(Path(t)[N], e) => e \in up[N]
  <2> HIDE DEF N
  <2> QED
    BY <1>6, <1>7
<1> QED
  BY <1>1, <1>2, <1>8

\* Only at an empty node or a switch without successors is there nowhere to go.
LEMMA NowhereToGo ==
    ASSUME NEW h \in Programs, NEW s \in States, GetTransitions(h, s) = <<>>
    PROVE  h.stmt[s.node].op \in {"none", "switch"} /\ h.succs[s.node] = <<>>
<1> DEFINE st == h.stmt[s.node]
<1>1. st.op \in Ops /\ h.succs[s.node] \in Seq(Nodes)
  BY StmtType DEF Stmts
<1>2. \A x, v : Split(x, v) # <<>>
  <2> SUFFICES ASSUME NEW x, NEW v PROVE Split(x, v) # <<>>
    OBVIOUS
  <2>1. DOMAIN Split(x, v) = 1..2
    BY DEF Split
  <2>2. DOMAIN Split(x, v) # {}
    BY <2>1
  <2> HIDE DEF Split
  <2> QED
    BY <2>2
<1>3. ~MustSplit(h, s)
  BY <1>2 DEF GetTransitions
<1>4. st.op # "callneg"
  BY <1>2, <1>3 DEF GetTransitions, NegativeOrNot
<1>5. st.op # "newref"
  BY <1>3 DEF GetTransitions, NewRefOrFail
<1>6. st.op # "cond"
  BY <1>3 DEF GetTransitions, CondTransitions
<1>7. st.op \notin {"return", "exit"}
  BY <1>3 DEF GetTransitions, Returning, NotReturning
<1>8. st.op \in {"none", "switch"}
  BY <1>1, <1>3, <1>4, <1>5, <1>6, <1>7 DEF GetTransitions, Ops
<1>9. ToAllSuccs(h, s) = <<>>
  BY <1>3, <1>8 DEF GetTransitions
<1>10. DOMAIN ToAllSuccs(h, s) = 1..Len(h.succs[s.node])
  BY DEF ToAllSuccs
<1>11. 1..Len(h.succs[s.node]) = {}
  <2> HIDE DEF ToAllSuccs
  <2> QED
    BY <1>9, <1>10
<1>12. Len(h.succs[s.node]) = 0
  <2>1. Len(h.succs[s.node]) \in Nat
    BY <1>1, LenProperties
  <2>2. \A n \in Nat : 1..n = {} => n = 0
    <3> SUFFICES ASSUME NEW n \in Nat, n # 0 PROVE 1 \in 1..n
      OBVIOUS
    <3> QED
      OBVIOUS
  <2> QED
    BY <1>11, <2>1, <2>2
<1> QED
  BY <1>1, <1>8, <1>12, EmptySeq

\* A run that fits the last state of a complete trace ends as the trace says.
LEMMA FitsOutcome ==
    ASSUME g \in Programs, NEW t \in Traces, Sound(CurState(t)), IsComplete(t),
           t.err \in {NoError, ErrorAt(g, CurState(t))},
           NEW c, Described(CurState(t), c)
    PROVE  StopAt(g, c) = Outcome(t)
<1> DEFINE s == CurState(t)
           st == g.stmt[s.node]
           k == s.store[st.rhs].kind
<1>1. s \in States /\ st.rhs \in Vars
  BY StmtType DEF Sound, Stmts
<1>2. c.node = s.node /\ (k # "unknown" => c.env[st.rhs] = k)
  BY <1>1 DEF Described, Fits
<1>3. CASE t.err # NoError
  <2>1. t.err = ErrorAt(g, s) /\ Outcome(t) = t.err.kind
    BY <1>3 DEF Outcome
  <2>2. CASE st.op \in {"deref", "cond", "pass"} /\ k = "uninit"
    BY <1>2, <2>1, <2>2 DEF ErrorAt, StopAt
  <2>3. CASE st.op = "deref" /\ k = "null"
    BY <1>2, <2>1, <2>3 DEF ErrorAt, StopAt
  <2> QED
    BY <1>3, <2>1, <2>2, <2>3, Zenon DEF ErrorAt
<1>4. CASE t.err = NoError /\ s.has_returned
  BY <1>2, <1>4 DEF Outcome, StopAt, Sound
<1>5. CASE t.err = NoError /\ ~s.has_returned /\ s.not_returning
  BY <1>2, <1>5 DEF Outcome, StopAt, Sound
<1>6. CASE t.err = NoError /\ ~s.has_returned /\ ~s.not_returning
  <2>1. st.op \in {"none", "switch"} /\ g.succs[s.node] = <<>>
    BY <1>1, <1>6, NowhereToGo DEF IsComplete, Terminated
  <2> QED
    BY <1>2, <1>6, <2>1 DEF Outcome, StopAt
<1> QED
  BY <1>3, <1>4, <1>5, <1>6

\* Some configuration fits a sound state.
LEMMA SomethingFits ==
    ASSUME NEW s, Sound(s)
    PROVE  \E c : Described(s, c)
<1> DEFINE guess(v) == IF v \in PtrVars THEN "null" ELSE "neg"
           env == [v \in Vars |-> IF s.store[v].kind = "unknown" THEN guess(v)
                                  ELSE s.store[v].kind]
           c == [node |-> s.node, env |-> env]
<1>1. s.node \in Nodes /\ s.store \in [Vars -> Values] /\ SoundStore(s.store)
  BY DEF Sound, States
<1>2. \A v \in Vars : guess(v) \in Results(v) /\ guess(v) \in Kinds \ {"unknown"}
  BY DEF Results, Kinds
<1>3. \A v, w \in Vars : s.store[v].kind = "unknown" /\ s.store[v] = s.store[w] =>
                            guess(v) = guess(w)
  BY <1>1 DEF SoundStore, SameType
<1> HIDE DEF guess
<1>4. env \in [Vars -> Kinds \ {"unknown"}]
  BY <1>1, <1>2 DEF Values
<1>5. Fits(s.store, env, Vars)
  <2>1. \A v \in Vars : IF s.store[v].kind = "unknown" THEN env[v] \in Results(v)
                                                       ELSE env[v] = s.store[v].kind
    BY <1>2
  <2>2. \A v, w \in Vars : s.store[v].kind = "unknown" /\ s.store[v] = s.store[w] =>
                              env[v] = env[w]
    BY <1>3
  <2> HIDE DEF env
  <2> QED
    BY <2>1, <2>2 DEF Fits
<1>6. Described(s, c)
  <2>1. c \in Configs /\ c.node = s.node /\ c.env = env
    BY <1>1, <1>4 DEF Configs
  <2> HIDE DEF c, env
  <2> QED
    BY <1>5, <2>1 DEF Described
<1> QED
  BY <1>6

\* Once the search is done its traces are all that is held.
LEMMA HeldDone ==
    ASSUME NEW t \in Range(traces)
    PROVE  t \in Held
BY DEF Held

\* Every complete trace that was built from transitions is feasible.
LEMMA DoneFeasible == TypeInv /\ Building /\ OnlyComplete => Feasible
<1> SUFFICES ASSUME TypeInv, Building, OnlyComplete, NEW t \in Range(traces),
                    \A i \in 1..Len(Path(t)) : ~Blind(Path(t)[i])
             PROVE  \E c \in RunsAlong(Path(t), [i \in 1..Len(Path(t)) |-> Vars]) :
                        StopAt(g, c) = Outcome(t)
  BY DEF Feasible
<1>1. t \in Traces /\ g \in Programs
  <2>1. traces \in Seq(Traces)
    BY DEF TypeInv, TypeOK
  <2> QED
    BY <2>1, ElementOfSeq DEF Range, TypeInv
<1>2. Built(t) /\ t.err \in {NoError, ErrorAt(g, CurState(t))} /\ IsComplete(t)
  BY HeldDone DEF Building, OnlyComplete
<1>3. Sound(CurState(t))
  <2>1. Len(t.states) + 1 \in 1..(Len(t.states) + 1)
        /\ Path(t)[Len(t.states) + 1] = CurState(t)
    BY <1>1, PathType
  <2> QED
    BY <1>1, <1>2, <2>1, PathSound
<1>4. PICK c : Described(CurState(t), c)
  BY <1>3, SomethingFits
<1>5. c \in RunsAlong(Path(t), [i \in 1..Len(Path(t)) |-> Vars])
  BY <1>1, <1>2, <1>4, FitsAlong
<1>6. StopAt(g, c) = Outcome(t)
  BY <1>1, <1>2, <1>3, <1>4, FitsOutcome
<1> QED
  BY <1>5, <1>6

\* Whatever the function and the budget, every trace reported is one that the
\* function can take to the same end, unless it passes a test that teaches the
\* search nothing: SplitValue tells all copies of a value apart the same way, and
\* no transition supposes what a run could not meet.
THEOREM TracesFeasible == Spec => []Feasible
<1>1. TypeInv /\ Building /\ [Next]_vars => Building'
  BY NextBuilding
<1> QED
  BY <1>1, InitTypeInv, NextTypeInv, InitBuilding, DoneFeasible, AllComplete, PTL DEF Spec

-----------------------------------------------------------------------------
(***************************************************************************)
(* Definite errors.  What a state knows, other than by a split, is so in   *)
(* every run that has come the same way with the same allocations failing. *)
(***************************************************************************)
Tells(s, c) ==
    /\ c \in Configs /\ c.node = s.node
    /\ \A v \in Vars : s.store[v].kind # "unknown" /\ ~s.store[v].split =>
                          c.env[v] = s.store[v].kind

\* Initially nothing is known but what is not initialized.
LEMMA InitTells ==
    ASSUME g \in Programs, NEW c \in InitConfigs(g)
    PROVE  Tells(InitState(g), c)
<1>1. c \in Configs /\ c.node = InitState(g).node
  BY ProgramsAssumption DEF InitConfigs, Configs, InitState, StmtGraphs
<1>2. \A v \in Vars : c.env[v] \in IF v \in Parms THEN Results(v) ELSE {"uninit"}
  BY DEF InitConfigs
<1>3. \A v \in Vars : InitState(g).store[v].kind = IF v \in Parms THEN "unknown" ELSE "uninit"
  BY DEF InitState, Unknown, Value
<1> QED
  BY <1>1, <1>2, <1>3 DEF Tells

\* What a run that goes on does to the values: as the statement says.
Keeps(st, c, e) ==
    /\ e = [node |-> e.node, env |-> e.env]
    /\ st.op \in {"none", "switch", "nop", "deref", "cond"} => e.env = c.env
    /\ st.op \in {"null", "addr", "assign", "newref", "call", "pass", "callneg"} =>
         \E k \in Kinds \ {"unknown"} :
            /\ e.env = [c.env EXCEPT ![st.lhs] = k]
            /\ st.op = "null" => k = "null"
            /\ st.op = "addr" => k = "nonnull"
            /\ st.op = "assign" => k = c.env[st.rhs]
            /\ st.op \in {"newref", "call", "pass", "callneg"} => k \in Results(st.lhs)

\* Setting a variable in a run.
LEMMA FollowSets ==
    ASSUME g \in Programs, NEW c \in Configs, NEW e \in Follow(g, c),
           NEW st, st = g.stmt[c.node], st.op \notin {"return", "exit"}
    PROVE  Keeps(st, c, e)
<1> DEFINE to(i) == g.succs[c.node][i]
           set(ks) == {[node |-> to(1), env |-> [c.env EXCEPT ![st.lhs] = k]] : k \in ks}
           goto(i) == [c EXCEPT !.node = to(i)]
<1>1. c.env \in [Vars -> Kinds \ {"unknown"}] /\ c.node \in Nodes
  BY DEF Configs
<1>2. st.lhs \in Vars /\ st.rhs \in Vars
  BY <1>1, ProgramsAssumption DEF StmtGraphs, Stmts
<1>3. \A i : goto(i).env = c.env /\ goto(i) = [node |-> goto(i).node, env |-> goto(i).env]
  BY DEF Configs
<1>4. CASE st.op \in {"none", "switch"}
  <2>1. Follow(g, c) = {goto(i) : i \in 1..Len(g.succs[c.node])}
    BY <1>4, Zenon DEF Follow
  <2> HIDE DEF goto
  <2> QED
    BY <1>3, <1>4, <2>1 DEF Keeps
<1>5. CASE st.op \in {"nop", "deref"}
  <2>1. Follow(g, c) = {goto(1)}
    BY <1>5, Zenon DEF Follow
  <2> HIDE DEF goto
  <2> QED
    BY <1>3, <1>5, <2>1 DEF Keeps
<1>6. CASE st.op = "cond"
  <2>1. Follow(g, c) = {IF CondTrue(c.env[st.rhs]) THEN goto(1) ELSE goto(2)}
    BY <1>6 DEF Follow
  <2> HIDE DEF goto
  <2> QED
    BY <1>3, <1>6, <2>1 DEF Keeps
<1>7. ASSUME NEW ks \in SUBSET (Kinds \ {"unknown"}), Follow(g, c) = set(ks),
             st.op \notin {"none", "switch", "nop", "deref", "cond"},
             \A k \in ks : /\ st.op = "null" => k = "null"
                           /\ st.op = "addr" => k = "nonnull"
                           /\ st.op = "assign" => k = c.env[st.rhs]
                           /\ st.op \in {"newref", "call", "pass", "callneg"} =>
                                k \in Results(st.lhs)
      PROVE  Keeps(st, c, e)
  <2>1. PICK k \in ks : e = [node |-> to(1), env |-> [c.env EXCEPT ![st.lhs] = k]]
    BY <1>7
  <2>2. e.env = [c.env EXCEPT ![st.lhs] = k] /\ e = [node |-> e.node, env |-> e.env]
    BY <2>1
  <2> QED
    BY <1>7, <2>2 DEF Keeps
<1>8. CASE st.op = "null"
  <2>1. Follow(g, c) = set({"null"}) /\ {"null"} \in SUBSET (Kinds \ {"unknown"})
    BY <1>8 DEF Follow, Kinds
  <2> HIDE DEF set
  <2> QED
    BY <1>7, <1>8, <2>1
<1>9. CASE st.op = "addr"
  <2>1. Follow(g, c) = set({"nonnull"}) /\ {"nonnull"} \in SUBSET (Kinds \ {"unknown"})
    BY <1>9, SMTT(30) DEF Follow, Kinds
  <2> HIDE DEF set
  <2> QED
    BY <1>7, <1>9, <2>1
<1>10. CASE st.op = "assign"
  <2>1. Follow(g, c) = set({c.env[st.rhs]})
    BY <1>10 DEF Follow
  <2>2. {c.env[st.rhs]} \in SUBSET (Kinds \ {"unknown"})
    BY <1>1, <1>2
  <2> HIDE DEF set
  <2> QED
    BY <1>7, <1>10, <2>1, <2>2
<1>11. CASE st.op \in {"newref", "call", "pass", "callneg"}
  <2>1. Follow(g, c) = set(Results(st.lhs)) /\ Results(st.lhs) \in SUBSET (Kinds \ {"unknown"})
    BY <1>11, ResultsKnown DEF Follow
  <2> HIDE DEF set
  <2> QED
    BY <1>7, <1>11, <2>1
<1>12. st.op \in Ops
  BY <1>1, ProgramsAssumption DEF StmtGraphs, Stmts
<1> QED
  BY <1>4, <1>5, <1>6, <1>8, <1>9, <1>10, <1>11, <1>12 DEF Ops, StraightOps

\* What a split replaces is marked.
LEMMA ToldSplits ==
    ASSUME NEW store, NEW x, NEW kind, NEW v \in Vars
    PROVE  LET after == Told(store, x, kind)
           IN  IF store[v] = x THEN after[v].split ELSE after[v] = store[v]
BY DEF Told

\* What a state tells of a run, the next state tells of the run that goes on.
LEMMA TellsOn ==
    ASSUME g \in Programs, NEW s, NEW d, Sound(s), Linked(s, d),
           NEW c, Tells(s, c), NEW e \in Onward(s, d, c),
           Agrees(d, e, IF g.stmt[s.node].op = "newref" THEN {g.stmt[s.node].lhs} ELSE {})
    PROVE  Tells(d, e)
<1> DEFINE st == g.stmt[s.node]
<1>1. /\ s.store \in [Vars -> Values] /\ st.lhs \in Vars /\ st.rhs \in Vars /\ st.op \in Ops
  BY StmtType DEF States, Sound, Stmts
<1>2. c \in Configs /\ c.node = s.node /\ c.env \in [Vars -> Kinds \ {"unknown"}]
  BY DEF Tells, Configs
<1>3. e.node = d.node
  BY DEF Agrees
<1>4. Sound(d) /\ d.store \in [Vars -> Values] /\ d.node \in Nodes
  BY LinkedSound DEF Sound, States
<1>5. CASE Stays(g, s, d)
  <2>1. e = c
    BY <1>5 DEF Stays, Onward
  <2>2. CASE d.store = s.store
    BY <1>2, <1>3, <2>1, <2>2 DEF Tells
  <2>3. CASE \E kind \in Results(st.rhs) : d.store = Told(s.store, s.store[st.rhs], kind)
    <3>1. \A v \in Vars : ~d.store[v].split => d.store[v] = s.store[v]
      BY <2>3, ToldSplits, SMTT(40)
    <3> QED
      BY <1>2, <1>3, <2>1, <3>1, SMTT(30) DEF Tells
  <2> QED
    BY <1>5, <2>2, <2>3, Zenon DEF Stays
<1>6. CASE GoesOn(g, s, d)
  <2>1. d.node # s.node /\ Sets(g, s, d)
    BY <1>6 DEF GoesOn
  <2>2. e \in Follow(g, c)
    BY <2>1 DEF Onward
  <2>3. Keeps(st, c, e)
    <3>1. g.stmt[c.node] = st /\ st.op \notin {"return", "exit"}
      BY <1>2, <1>6 DEF GoesOn
    <3> HIDE DEF st
    <3> QED
      BY <1>2, <2>2, <3>1, FollowSets, SMTT(30)
  <2>4. ASSUME e.env \in [Vars -> Kinds \ {"unknown"}],
               \A v \in Vars : d.store[v].kind # "unknown" /\ ~d.store[v].split =>
                                  e.env[v] = d.store[v].kind
        PROVE  Tells(d, e)
    <3>1. e \in Configs
      BY <1>3, <1>4, <2>3, <2>4 DEF Configs, Keeps
    <3> QED
      BY <1>3, <2>4, <3>1 DEF Tells
  <2>5. CASE st.op \in {"none", "switch", "nop", "deref", "cond"}
    <3>1. d.store = s.store
      BY <2>1, <2>5, Zenon DEF Sets
    <3> QED
      BY <1>2, <2>3, <2>4, <2>5, <3>1 DEF Tells, Keeps
  <2>6. CASE st.op \in {"null", "addr", "assign", "newref", "call", "pass", "callneg"}
    <3>1. PICK k \in Kinds \ {"unknown"} :
                /\ e.env = [c.env EXCEPT ![st.lhs] = k]
                /\ st.op = "null" => k = "null"
                /\ st.op = "addr" => k = "nonnull"
                /\ st.op = "assign" => k = c.env[st.rhs]
      BY <2>3, <2>6 DEF Keeps
    <3>2. /\ e.env \in [Vars -> Kinds \ {"unknown"}] /\ e.env[st.lhs] = k
          /\ \A v \in Vars \ {st.lhs} : e.env[v] = c.env[v]
      BY <1>1, <1>2, <3>1
    <3>3. CASE st.op \in {"null", "addr", "assign", "newref", "call", "pass"}
      <4>1. PICK x \in Values :
                /\ d.store = [s.store EXCEPT ![st.lhs] = x]
                /\ st.op = "null" => x.kind = "null" /\ ~x.split
                /\ st.op = "addr" => x.kind = "nonnull" /\ ~x.split
                /\ st.op = "assign" => x = s.store[st.rhs]
                /\ st.op \in {"call", "pass"} => Fresh(s, st.lhs, x)
                /\ st.op = "newref" => x.kind \in {"null", "nonnull"} /\ ~x.split
        BY <2>1, <3>3, Zenon DEF Sets
      <4>2. d.store[st.lhs] = x /\ \A v \in Vars \ {st.lhs} : d.store[v] = s.store[v]
        BY <1>1, <4>1
      <4>3. x.kind # "unknown" /\ ~x.split => k = x.kind
        <5>1. CASE st.op \in {"null", "addr", "call", "pass"}
          BY <3>1, <4>1, <5>1 DEF Fresh
        <5>2. CASE st.op = "assign"
          BY <1>1, <3>1, <4>1, <5>2 DEF Tells
        <5>3. CASE st.op = "newref"
          BY <3>2, <4>1, <4>2, <5>3 DEF Agrees
        <5> QED
          BY <3>3, <5>1, <5>2, <5>3
      <4> QED
        BY <2>4, <3>2, <4>2, <4>3 DEF Tells
    <3>4. CASE st.op = "callneg"
      <4>1. PICK x \in Values, kind \in Results(st.lhs) :
                d.store = Told([s.store EXCEPT ![st.lhs] = x], x, kind)
        BY <2>1, <3>4 DEF Sets
      <4>2. \A v \in Vars : ~d.store[v].split => v # st.lhs /\ d.store[v] = s.store[v]
        <5> DEFINE store == [s.store EXCEPT ![st.lhs] = x]
        <5>1. store[st.lhs] = x /\ \A v \in Vars \ {st.lhs} : store[v] = s.store[v]
          BY <1>1
        <5> HIDE DEF store
        <5> QED
          BY <1>1, <4>1, <5>1, ToldSplits DEF store
      <4> QED
        BY <2>4, <3>2, <4>2 DEF Tells
    <3> QED
      BY <2>6, <3>3, <3>4, SMTT(30)
  <2> QED
    BY <2>1, <2>5, <2>6, Zenon DEF Sets
<1> QED
  BY <1>5, <1>6, LinkedSound

\* What the last state of a trace tells is so in every run that comes the same way.
LEMMA TellsAlong ==
    ASSUME g \in Programs, NEW t \in Traces, Built(t),
           NEW c \in RunsAlong(Path(t), [i \in 1..Len(Path(t)) |-> Allocated(Path(t), i)])
    PROVE  Tells(CurState(t), c)
<1> DEFINE N == Len(Path(t))
           told == [i \in 1..N |-> Allocated(Path(t), i)]
<1>1. /\ N \in Nat \ {0} /\ N = Len(t.states) + 1 /\ Len(t.states) \in Nat
      /\ Path(t)[1] = InitState(g) /\ Path(t)[N] = CurState(t)
  BY PathType
<1>2. PICK up :
        /\ up[1] = {e \in InitConfigs(g) : Agrees(Path(t)[1], e, told[1])}
        /\ \A i \in 2..N :
             up[i] = {e \in UNION {Onward(Path(t)[i - 1], Path(t)[i], d) : d \in up[i - 1]} :
                        Agrees(Path(t)[i], e, told[i])}
        /\ RunsAlong(Path(t), told) = up[N]
  <2> HIDE DEF told
  <2> QED
    BY <1>1, AlongDef
<1> DEFINE S == {n \in Nat : n < N => \A e \in up[n + 1] : Tells(Path(t)[n + 1], e)}
<1>3. 0 \in S
  <2> HIDE DEF N, told
  <2> QED
    BY <1>1, <1>2, InitTells
<1>4. ASSUME NEW n \in Nat, n \in S PROVE n + 1 \in S
  <2>1. SUFFICES ASSUME n + 1 < N, NEW e \in up[(n + 1) + 1]
                 PROVE  Tells(Path(t)[(n + 1) + 1], e)
    OBVIOUS
  <2>2. /\ n + 1 \in 1..Len(t.states) /\ n + 1 \in 1..(Len(t.states) + 1)
        /\ (n + 1) + 1 \in 2..N /\ (n + 1) + 1 \in 1..N /\ ((n + 1) + 1) - 1 = n + 1 /\ n < N
        /\ (n + 1) + 1 > 1
    BY <2>1, <1>1
  <2> DEFINE s == Path(t)[n + 1]
             d == Path(t)[(n + 1) + 1]
  <2>3. Linked(s, d) /\ Sound(s)
    BY <2>2, PathSound DEF Built
  <2>4. e \in UNION {Onward(s, d, b) : b \in up[n + 1]} /\ Agrees(d, e, told[(n + 1) + 1])
    <3>1. up[(n + 1) + 1] =
            {f \in UNION {Onward(Path(t)[((n + 1) + 1) - 1], Path(t)[(n + 1) + 1], b) :
                            b \in up[((n + 1) + 1) - 1]} :
              Agrees(Path(t)[(n + 1) + 1], f, told[(n + 1) + 1])}
      <4> HIDE DEF told
      <4> QED
        BY <1>2, <2>2
    <3> HIDE DEF told
    <3> QED
      BY <2>1, <2>2, <3>1
  <2>5. told[(n + 1) + 1] = IF g.stmt[s.node].op = "newref" THEN {g.stmt[s.node].lhs} ELSE {}
    <3>1. told[(n + 1) + 1] = Allocated(Path(t), (n + 1) + 1)
      BY <2>2
    <3> HIDE DEF told
    <3> QED
      BY <2>2, <3>1 DEF Allocated
  <2>6. PICK b \in up[n + 1] : e \in Onward(s, d, b)
    BY <2>4
  <2>7. Tells(s, b)
    BY <1>4, <2>2, <2>6
  <2> HIDE DEF s, d, told
  <2>8. Tells(d, e)
    BY <2>3, <2>4, <2>5, <2>6, <2>7, TellsOn
  <2> QED
    BY <2>8 DEF d
<1>5. Nat \subseteq S
  <2> HIDE DEF S
  <2> QED
    BY <1>3, <1>4, NatSetInduction
<1>6. N - 1 \in Nat /\ N - 1 < N /\ (N - 1) + 1 = N
  BY <1>1
<1>7. N - 1 \in S
  <2> HIDE DEF S, N
  <2> QED
    BY <1>5, <1>6
<1>8. \A e \in up[N] : Tells(Path(t)[N], e)
  <2> HIDE DEF N
  <2> QED
    BY <1>6, <1>7
<1> QED
  BY <1>1, <1>2, <1>8

\* Where a definite error is predicted, every run that the state tells of stops.
LEMMA DefiniteStops ==
    ASSUME g \in Programs, NEW s, Sound(s), ErrorAt(g, s) # NoError, ErrorAt(g, s).isdefinite,
           NEW c, Tells(s, c)
    PROVE  StopAt(g, c) = ErrorAt(g, s).kind
<1> DEFINE st == g.stmt[s.node]
           x == s.store[st.rhs]
<1>1. st.rhs \in Vars /\ (x.split => x.kind \notin {"uninit", "unknown"})
  BY StmtType DEF Sound, SoundStore, Stmts
<1>2. c.node = s.node /\ (x.kind # "unknown" /\ ~x.split => c.env[st.rhs] = x.kind)
  BY <1>1, SMTT(30) DEF Tells
<1>3. CASE st.op \in {"deref", "cond", "pass"} /\ x.kind = "uninit"
  BY <1>1, <1>2, <1>3 DEF ErrorAt, StopAt
<1>4. CASE st.op = "deref" /\ x.kind = "null"
  <2>1. ~x.split /\ ErrorAt(g, s).kind = "null"
    BY <1>4, Zenon DEF ErrorAt
  <2> QED
    BY <1>2, <1>4, <2>1 DEF StopAt
<1> QED
  BY <1>3, <1>4, Zenon DEF ErrorAt

\* Every definite error of a trace built from transitions is inevitable.
LEMMA DoneDefinite == TypeInv /\ Building => DefiniteIsInevitable
<1> SUFFICES ASSUME TypeInv, Building, NEW t \in Range(traces), Definite(t),
                    NEW c \in RunsAlong(Path(t),
                                        [i \in 1..Len(Path(t)) |-> Allocated(Path(t), i)])
             PROVE  StopAt(g, c) = t.err.kind
  BY DEF DefiniteIsInevitable
<1>1. t \in Traces /\ g \in Programs
  <2>1. traces \in Seq(Traces)
    BY DEF TypeInv, TypeOK
  <2> QED
    BY <2>1, ElementOfSeq DEF Range, TypeInv
<1>2. Built(t) /\ t.err = ErrorAt(g, CurState(t)) /\ t.err # NoError /\ t.err.isdefinite
  BY HeldDone DEF Building, Definite
<1>3. Sound(CurState(t))
  <2>1. Len(t.states) + 1 \in 1..(Len(t.states) + 1)
        /\ Path(t)[Len(t.states) + 1] = CurState(t)
    BY <1>1, PathType
  <2> QED
    BY <1>1, <1>2, <2>1, PathSound
<1>4. Tells(CurState(t), c)
  BY <1>1, <1>2, TellsAlong
<1> QED
  BY <1>1, <1>2, <1>3, <1>4, DefiniteStops

\* Whatever the function and the budget: an error that impl_check_refcounts
\* reports by default happens in every run that comes the same way with the same
\* allocations failing; what a split only supposed is never reported as certain.
THEOREM DefiniteInevitable == Spec => []DefiniteIsInevitable
<1>1. TypeInv /\ Building /\ [Next]_vars => Building'
  BY NextBuilding
<1> QED
  BY <1>1, InitTypeInv, NextTypeInv, InitBuilding, DoneDefinite, PTL DEF Spec

-----------------------------------------------------------------------------
(***************************************************************************)
(* Completeness.  A run is followed by the traces that agree with it as    *)
(* far as they go.  First, how a trace that is extended follows a run.     *)
(***************************************************************************)

\* A run of the function: it stops at its end and nowhere else.
IsRun(r) ==
    /\ Len(r) \in Nat \ {0}
    /\ r[1] \in InitConfigs(g)
    /\ \A i \in 1..(Len(r) - 1) : StopAt(g, r[i]) = "none" /\ r[i + 1] \in Follow(g, r[i])
    /\ StopAt(g, r[Len(r)]) # "none"
    /\ LoopFree(r)

\* The visit the last state of a trace belongs to.
LastVisit(t) == Visit(Path(t), Len(Path(t)))

Follows(t, r) ==
    /\ LastVisit(t) <= Len(r)
    /\ \A i \in 1..Len(Path(t)) : Agrees(Path(t)[i], r[Visit(Path(t), i)], Vars)

\* The state d, reached from s in the m-th visit, agrees with the run.
Matches(s, d, m, r) ==
    IF d.node = s.node THEN Agrees(d, r[m], Vars)
                       ELSE m + 1 <= Len(r) /\ Agrees(d, r[m + 1], Vars)

\* Visits are counted from the first state on.
LEMMA VisitSteps ==
    ASSUME NEW ss
    PROVE  /\ Visit(ss, 1) = 1
           /\ \A i \in Nat \ {0} :
                /\ Visit(ss, i) \in Nat \ {0}
                /\ Visit(ss, i + 1) = IF ss[i].node # ss[i + 1].node THEN Visit(ss, i) + 1
                                                                      ELSE Visit(ss, i)
<1> DEFINE S(i) == {j \in 1..(i - 1) : ss[j].node # ss[j + 1].node}
<1>1. ASSUME NEW i \in Nat \ {0} PROVE IsFiniteSet(S(i)) /\ Cardinality(S(i)) \in Nat
  <2>1. IsFiniteSet(1..(i - 1))
    BY FS_Interval
  <2> QED
    BY <2>1, FS_Subset, FS_CardinalityType
<1>2. S(1) = {}
  OBVIOUS
<1>3. \A i : Visit(ss, i) = 1 + Cardinality(S(i))
  BY DEF Visit
<1>4. ASSUME NEW i \in Nat \ {0}
      PROVE  Visit(ss, i + 1) = IF ss[i].node # ss[i + 1].node THEN Visit(ss, i) + 1
                                                                ELSE Visit(ss, i)
  <2>1. \A j : j \in 1..((i + 1) - 1) <=> j \in 1..(i - 1) \/ j = i
    OBVIOUS
  <2>2. S(i + 1) = IF ss[i].node # ss[i + 1].node THEN S(i) \cup {i} ELSE S(i)
    BY <2>1
  <2>3. i \notin S(i)
    OBVIOUS
  <2> HIDE DEF S
  <2>4. Cardinality(S(i) \cup {i}) = Cardinality(S(i)) + 1
    BY <1>1, <2>3, FS_AddElement
  <2> QED
    BY <1>1, <1>3, <2>2, <2>4
<1> HIDE DEF S
<1>5. Visit(ss, 1) = 1
  BY <1>2, <1>3, FS_EmptySet
<1>6. \A i \in Nat \ {0} : Visit(ss, i) \in Nat \ {0}
  BY <1>1, <1>3
<1> QED
  BY <1>4, <1>5, <1>6

\* They depend on the states up to the one in question only.
LEMMA VisitSame ==
    ASSUME NEW ss, NEW uu, NEW n \in Nat, \A j \in 1..n : ss[j] = uu[j]
    PROVE  \A i \in 1..n : Visit(ss, i) = Visit(uu, i)
<1> SUFFICES ASSUME NEW i \in 1..n PROVE Visit(ss, i) = Visit(uu, i)
  OBVIOUS
<1>1. \A j \in 1..(i - 1) : ss[j] = uu[j] /\ ss[j + 1] = uu[j + 1]
  OBVIOUS
<1>2. {j \in 1..(i - 1) : ss[j].node # ss[j + 1].node}
         = {j \in 1..(i - 1) : uu[j].node # uu[j + 1].node}
  BY <1>1
<1> QED
  BY <1>2 DEF Visit

\* They never go down.
LEMMA VisitGrows ==
    ASSUME NEW ss, NEW i \in Nat \ {0}, NEW j \in Nat \ {0}, i <= j
    PROVE  Visit(ss, i) <= Visit(ss, j)
<1> DEFINE S(n) == {k \in 1..(n - 1) : ss[k].node # ss[k + 1].node}
<1>1. IsFiniteSet(1..(j - 1))
  BY FS_Interval
<1>2. S(j) \in SUBSET (1..(j - 1)) /\ S(i) \in SUBSET S(j)
  OBVIOUS
<1>3. /\ IsFiniteSet(S(j)) /\ IsFiniteSet(S(i))
      /\ Cardinality(S(i)) <= Cardinality(S(j))
  <2> HIDE DEF S
  <2>1. IsFiniteSet(S(j))
    BY <1>1, <1>2, FS_Subset
  <2> QED
    BY <1>2, <2>1, FS_Subset
<1>4. Cardinality(S(i)) \in Nat /\ Cardinality(S(j)) \in Nat
  <2> HIDE DEF S
  <2> QED
    BY <1>3, FS_CardinalityType
<1>5. \A n : Visit(ss, n) = 1 + Cardinality(S(n))
  BY DEF Visit
<1> HIDE DEF S
<1> QED
  BY <1>3, <1>4, <1>5

\* A trace that is extended follows the run if it did so before and the state
\* added agrees with it.
LEMMA AddFollows ==
    ASSUME g \in Programs, NEW t \in Traces, NEW tr \in Transitions, NEW r, Len(r) \in Nat
    PROVE  /\ Follows(Add(t, tr), r) <=>
                  Follows(t, r) /\ Matches(CurState(t), tr.dest, LastVisit(t), r)
           /\ LastVisit(t) \in Nat \ {0}
<1> DEFINE u == Add(t, tr)
           n == Len(t.states) + 1
           m == LastVisit(t)
<1>1. /\ n \in Nat \ {0} /\ Len(Path(t)) = n /\ Path(t)[n] = CurState(t)
      /\ Len(Path(u)) = n + 1
      /\ \A i \in 1..n : Path(u)[i] = Path(t)[i]
      /\ Path(u)[n + 1] = tr.dest
  <2>1. u \in Traces /\ Len(t.states) \in Nat
    BY AddType, PathType
  <2>2. /\ Len(Path(t)) = n /\ Path(t)[n] = CurState(t) /\ Len(Path(u)) = Len(u.states) + 1
    BY <2>1, PathType
  <2>3. /\ Len(u.states) = Len(t.states) + 1
        /\ \A i \in 1..n : Path(u)[i] = Path(t)[i]
        /\ Path(u)[Len(t.states) + 2] = tr.dest
    BY AddPath
  <2> HIDE DEF u
  <2> QED
    BY <2>1, <2>2, <2>3
<1> HIDE DEF u, n
<1>2. \A i \in 1..n : Visit(Path(u), i) = Visit(Path(t), i)
  BY <1>1, VisitSame
<1>3. m \in Nat \ {0} /\ Visit(Path(t), n) = m /\ Visit(Path(u), n) = m
  <2>1. Visit(Path(t), n) \in Nat \ {0}
    BY <1>1, VisitSteps
  <2>2. Visit(Path(t), n) = m
    BY <1>1 DEF LastVisit
  <2>3. n \in 1..n
    BY <1>1
  <2> QED
    BY <1>2, <2>1, <2>2, <2>3
<1>4. LastVisit(u) = IF tr.dest.node = CurState(t).node THEN m ELSE m + 1
  <2>1. LastVisit(u) = Visit(Path(u), n + 1) /\ Path(u)[n] = Path(t)[n]
    BY <1>1 DEF LastVisit
  <2>2. Visit(Path(u), n + 1) = IF Path(u)[n].node # Path(u)[n + 1].node
                                THEN Visit(Path(u), n) + 1 ELSE Visit(Path(u), n)
    BY <1>1, VisitSteps
  <2> HIDE DEF m
  <2> QED
    BY <1>1, <1>3, <2>1, <2>2
<1> HIDE DEF m
<1>5. (\A i \in 1..(n + 1) : Agrees(Path(u)[i], r[Visit(Path(u), i)], Vars)) <=>
         /\ \A i \in 1..n : Agrees(Path(t)[i], r[Visit(Path(t), i)], Vars)
         /\ Agrees(tr.dest, r[LastVisit(u)], Vars)
  <2>1. 1..(n + 1) = 1..n \cup {n + 1}
    BY <1>1
  <2>2. Path(u)[n + 1] = tr.dest /\ Visit(Path(u), n + 1) = LastVisit(u)
    BY <1>1 DEF LastVisit
  <2>3. \A i \in 1..n : Path(u)[i] = Path(t)[i] /\ Visit(Path(u), i) = Visit(Path(t), i)
    BY <1>1, <1>2
  <2> QED
    BY <2>1, <2>2, <2>3
<1>6. Follows(u, r) <=> /\ LastVisit(u) <= Len(r)
                        /\ \A i \in 1..n : Agrees(Path(t)[i], r[Visit(Path(t), i)], Vars)
                        /\ Agrees(tr.dest, r[LastVisit(u)], Vars)
  BY <1>1, <1>5 DEF Follows
<1>7. Follows(t, r) <=> /\ m <= Len(r)
                        /\ \A i \in 1..n : Agrees(Path(t)[i], r[Visit(Path(t), i)], Vars)
  BY <1>1 DEF Follows, m
<1>8. Follows(u, r) <=> Follows(t, r) /\ Matches(CurState(t), tr.dest, m, r)
  <2>1. CASE tr.dest.node = CurState(t).node
    BY <1>4, <1>6, <1>7, <2>1 DEF Matches
  <2>2. CASE tr.dest.node # CurState(t).node
    <3>1. LastVisit(u) = m + 1
      BY <1>4, <2>2
    <3>2. m + 1 <= Len(r) => m <= Len(r)
      BY <1>3
    <3> QED
      BY <1>6, <1>7, <2>2, <3>1, <3>2 DEF Matches
  <2> QED
    BY <2>1, <2>2
<1> QED
  BY <1>3, <1>8 DEF u, m

\* What a run starts with fits the initial state.
LEMMA InitDescribed ==
    ASSUME g \in Programs, NEW c \in InitConfigs(g)
    PROVE  Described(InitState(g), c)
<1> DEFINE store == InitState(g).store
<1>1. c \in Configs /\ c.node = InitState(g).node
  BY InitTells DEF Tells
<1>2. \A v \in Vars : c.env[v] \in IF v \in Parms THEN Results(v) ELSE {"uninit"}
  BY DEF InitConfigs
<1>3. \A v \in Vars : store[v] = IF v \in Parms THEN Unknown(v, 0) ELSE Value("uninit", v)
  BY DEF InitState
<1> HIDE DEF store
<1>4. \A v : /\ Unknown(v, 0).kind = "unknown" /\ Unknown(v, 0).id[1] = v
             /\ Value("uninit", v).kind = "uninit"
  BY DEF Unknown, Value
<1>5. \A v \in Vars : store[v].kind = IF v \in Parms THEN "unknown" ELSE "uninit"
  BY <1>3, <1>4
<1>6. \A v \in Vars : v \in Parms => store[v].id[1] = v
  BY <1>3, <1>4
<1>7. \A v, w \in Vars : store[v].kind = "unknown" /\ store[v] = store[w] => v = w
  BY <1>5, <1>6
<1>8. \A v \in Vars : IF store[v].kind = "unknown" THEN c.env[v] \in Results(v)
                                                   ELSE c.env[v] = store[v].kind
  BY <1>2, <1>5
<1>9. Fits(store, c.env, Vars)
  BY <1>7, <1>8 DEF Fits
<1> QED
  BY <1>1, <1>9 DEF Described, store

\* Setting a variable, in the state and in the run.
LEMMA FitsSet ==
    ASSUME NEW store \in [Vars -> Values], NEW env \in [Vars -> Kinds \ {"unknown"}],
           Fits(store, env, Vars), NEW v \in Vars, NEW x, NEW k,
           IF x.kind = "unknown" THEN k \in Results(v) ELSE k = x.kind,
           \A w \in Vars \ {v} : x.kind = "unknown" /\ store[w] = x => env[w] = k
    PROVE  Fits([store EXCEPT ![v] = x], [env EXCEPT ![v] = k], Vars)
BY DEF Fits

\* What fits a state, and agrees with what a split has chosen, fits that.
LEMMA ToldFits ==
    ASSUME NEW store, NEW env, NEW x, NEW kind, kind # "unknown",
           Fits(store, env, Vars),
           \A v \in Vars : store[v] = x => env[v] = kind
    PROVE  Fits(Told(store, x, kind), env, Vars)
<1> DEFINE after == Told(store, x, kind)
<1>1. \A v \in Vars : IF store[v] = x THEN after[v].kind = kind ELSE after[v] = store[v]
  BY DEF Told
<1> HIDE DEF after
<1>2. \A v \in Vars : IF after[v].kind = "unknown" THEN env[v] \in Results(v)
                                                   ELSE env[v] = after[v].kind
  BY <1>1 DEF Fits
<1>3. \A v, w \in Vars : after[v].kind = "unknown" /\ after[v] = after[w] => env[v] = env[w]
  BY <1>1 DEF Fits
<1> QED
  BY <1>2, <1>3 DEF Fits, after

\* A value that the next call gives is none of those there are.
LEMMA FreshNew ==
    ASSUME NEW s, Sound(s), NEW v, NEW x, Fresh(s, v, x)
    PROVE  \A w \in Vars : s.store[w] # x
<1> SUFFICES ASSUME NEW w \in Vars, s.store[w] = x PROVE FALSE
  OBVIOUS
<1>1. x.kind = "unknown" /\ x.id[2] = s.calls + 1 /\ s.calls \in Nat
  BY DEF Fresh, Sound, States
<1>2. x.id[2] <= s.calls
  BY <1>1 DEF Sound
<1> QED
  BY <1>1, <1>2

\* What fits a state and agrees with the next, fits the next.
LEMMA DescribedOn ==
    ASSUME g \in Programs, NEW s, NEW d, Sound(s), Linked(s, d), NEW c, Described(s, c)
    PROVE  /\ d.node = s.node /\ Agrees(d, c, Vars) => Described(d, c)
           /\ \A e \in Follow(g, c) :
                 d.node # s.node /\ Agrees(d, e, Vars) => Described(d, e)
<1> DEFINE st == g.stmt[s.node]
<1>1. /\ s.store \in [Vars -> Values] /\ SoundStore(s.store)
      /\ st.lhs \in Vars /\ st.rhs \in Vars /\ st.op \in Ops /\ s.node \in Nodes
      /\ d.node \in Nodes
  BY LinkedSound, StmtType DEF States, Sound, Stmts
<1>2. /\ c \in Configs /\ c.node = s.node /\ Fits(s.store, c.env, Vars)
      /\ c.env \in [Vars -> Kinds \ {"unknown"}]
  BY DEF Described, Configs
<1>3. CASE Stays(g, s, d)
  <2>1. d.node = s.node
    BY <1>3, SMTT(30) DEF Stays
  <2>2. ASSUME Agrees(d, c, Vars) PROVE Fits(d.store, c.env, Vars)
    <3>1. CASE d.store = s.store
      BY <1>2, <3>1
    <3>2. CASE \E kind \in Results(st.rhs) : d.store = Told(s.store, s.store[st.rhs], kind)
      <4>1. PICK kind \in Results(st.rhs) : d.store = Told(s.store, s.store[st.rhs], kind)
        BY <3>2
      <4>2. kind # "unknown"
        BY ResultsKnown
      <4>3. ASSUME NEW v \in Vars, s.store[v] = s.store[st.rhs] PROVE c.env[v] = kind
        <5>1. Told(s.store, s.store[st.rhs], kind)[v].kind = kind
          BY <4>3 DEF Told
        <5>2. d.store[v].kind = kind
          BY <4>1, <5>1
        <5> QED
          BY <2>2, <4>2, <5>2 DEF Agrees
      <4> QED
        BY <1>2, <4>1, <4>2, <4>3, ToldFits
    <3> QED
      BY <1>3, <3>1, <3>2 DEF Stays
  <2> QED
    BY <1>2, <2>1, <2>2 DEF Described
<1>4. CASE GoesOn(g, s, d)
  <2>1. d.node # s.node /\ st.op \notin {"return", "exit"} /\ Sets(g, s, d)
    BY <1>4 DEF GoesOn
  <2> SUFFICES ASSUME NEW e \in Follow(g, c), Agrees(d, e, Vars)
               PROVE  Described(d, e)
    BY <2>1
  <2>2. Keeps(st, c, e)
    BY <1>2, <2>1, FollowSets
  <2>3. e = [node |-> e.node, env |-> e.env] /\ e.node = d.node
    BY <2>2 DEF Keeps, Agrees
  <2>4. SUFFICES e.env \in [Vars -> Kinds \ {"unknown"}] /\ Fits(d.store, e.env, Vars)
    BY <1>1, <2>3 DEF Described, Configs
  <2>5. CASE st.op \in {"none", "switch", "nop", "deref", "cond"}
    BY <1>2, <2>1, <2>2, <2>5, Zenon DEF Keeps, Sets
  <2>6. ASSUME st.op \in {"null", "addr", "assign", "newref", "call", "pass", "callneg"}
        PROVE  \E k \in Kinds \ {"unknown"} :
                  /\ e.env = [c.env EXCEPT ![st.lhs] = k] /\ e.env[st.lhs] = k
                  /\ st.op = "assign" => k = c.env[st.rhs]
                  /\ st.op \in {"newref", "call", "pass", "callneg"} => k \in Results(st.lhs)
    BY <1>1, <1>2, <2>2, <2>6 DEF Keeps
  <2>7. CASE st.op \in {"null", "addr", "assign", "call", "pass", "newref"}
    <3>1. PICK x \in Values :
              /\ d.store = [s.store EXCEPT ![st.lhs] = x]
              /\ st.op = "null" => x.kind = "null" /\ ~x.split
              /\ st.op = "addr" => x.kind = "nonnull" /\ ~x.split
              /\ st.op = "assign" => x = s.store[st.rhs]
              /\ st.op \in {"call", "pass"} => Fresh(s, st.lhs, x)
              /\ st.op = "newref" => x.kind \in {"null", "nonnull"} /\ ~x.split
      BY <2>1, <2>7, Zenon DEF Sets
    <3>2. PICK k \in Kinds \ {"unknown"} :
              /\ e.env = [c.env EXCEPT ![st.lhs] = k] /\ e.env[st.lhs] = k
              /\ st.op = "assign" => k = c.env[st.rhs]
              /\ st.op \in {"newref", "call", "pass", "callneg"} => k \in Results(st.lhs)
      BY <2>6, <2>7
    <3>3. x.kind # "unknown" => k = x.kind
      <4>1. d.store[st.lhs] = x
        BY <1>1, <3>1
      <4> QED
        BY <1>1, <3>2, <4>1 DEF Agrees
    <3>4. x.kind = "unknown" => k \in Results(st.lhs)
      <4>1. CASE st.op = "assign"
        <5>1. SameType(st.lhs, st.rhs)
          BY <4>1, <1>1, ProgramsAssumption DEF SameType
        <5>2. Results(st.lhs) = Results(st.rhs)
          BY <5>1 DEF SameType, Results
        <5> QED
          BY <1>1, <1>2, <3>1, <3>2, <4>1, <5>2 DEF Fits
      <4>2. CASE st.op \in {"call", "pass", "newref"}
        BY <3>2, <4>2
      <4> QED
        BY <2>7, <3>1, <4>1, <4>2
    <3>5. \A w \in Vars \ {st.lhs} : x.kind = "unknown" /\ s.store[w] = x => c.env[w] = k
      <4>1. CASE st.op = "assign"
        BY <1>1, <1>2, <3>1, <3>2, <4>1 DEF Fits
      <4>2. CASE st.op \in {"call", "pass"}
        BY <3>1, <4>2, FreshNew
      <4> QED
        BY <2>7, <3>1, <4>1, <4>2
    <3>6. Fits([s.store EXCEPT ![st.lhs] = x], [c.env EXCEPT ![st.lhs] = k], Vars)
      BY <1>1, <1>2, <3>3, <3>4, <3>5, FitsSet
    <3> QED
      BY <1>2, <3>1, <3>2, <3>6, Zenon
  <2>8. CASE st.op = "callneg"
    <3>1. PICK x \in Values, kind \in Results(st.lhs) :
              /\ Fresh(s, st.lhs, x)
              /\ d.store = Told([s.store EXCEPT ![st.lhs] = x], x, kind)
      BY <2>1, <2>8 DEF Sets
    <3>2. PICK k \in Kinds \ {"unknown"} :
              e.env = [c.env EXCEPT ![st.lhs] = k] /\ e.env[st.lhs] = k /\ k \in Results(st.lhs)
      BY <2>6, <2>8
    <3> DEFINE store == [s.store EXCEPT ![st.lhs] = x]
    <3>3. store[st.lhs] = x /\ \A w \in Vars \ {st.lhs} : store[w] = s.store[w]
      BY <1>1
    <3>4. \A w \in Vars : s.store[w] # x
      BY <3>1, FreshNew
    <3>5. x.kind = "unknown" /\ kind # "unknown"
      BY <3>1, ResultsKnown DEF Fresh
    <3>6. Fits(store, e.env, Vars)
      <4>1. IF x.kind = "unknown" THEN k \in Results(st.lhs) ELSE k = x.kind
        BY <3>2, <3>5
      <4>2. \A w \in Vars \ {st.lhs} : x.kind = "unknown" /\ s.store[w] = x => c.env[w] = k
        BY <3>4
      <4>3. Fits(store, [c.env EXCEPT ![st.lhs] = k], Vars)
        BY <1>1, <1>2, <4>1, <4>2, FitsSet
      <4> QED
        BY <3>2, <4>3
    <3> HIDE DEF store
    <3>7. \A w \in Vars : store[w] = x => e.env[w] = kind
      <4>1. d.store[st.lhs].kind = kind
        BY <1>1, <3>1, <3>3 DEF Told, store
      <4>2. e.env[st.lhs] = kind
        BY <1>1, <3>5, <4>1 DEF Agrees
      <4> QED
        BY <3>3, <3>4, <4>2
    <3>8. Fits(Told(store, x, kind), e.env, Vars)
      BY <3>5, <3>6, <3>7, ToldFits
    <3> QED
      BY <1>2, <3>1, <3>2, <3>8 DEF store
  <2> QED
    BY <1>1, <2>1, <2>5, <2>7, <2>8 DEF Ops, StraightOps
<1> QED
  BY <1>3, <1>4, LinkedSound

\* A run followed by a trace fits all the states of the trace.
LEMMA FollowsDescribed ==
    ASSUME g \in Programs, NEW t \in Traces, Built(t), NEW r, IsRun(r), Follows(t, r)
    PROVE  /\ LastVisit(t) \in 1..Len(r)
           /\ Sound(CurState(t)) /\ Described(CurState(t), r[LastVisit(t)])
<1> DEFINE N == Len(t.states) + 1
           vis(i) == Visit(Path(t), i)
           S == {n \in Nat : n < N => Described(Path(t)[n + 1], r[vis(n + 1)])}
<1>1. /\ N \in Nat \ {0} /\ Len(t.states) \in Nat /\ Len(Path(t)) = N
      /\ Path(t)[1] = InitState(g) /\ Path(t)[N] = CurState(t)
  BY PathType
<1>2. Len(r) \in Nat \ {0} /\ LastVisit(t) = vis(N) /\ vis(N) <= Len(r)
  BY <1>1 DEF IsRun, Follows, LastVisit
<1>3. \A i \in 1..N : vis(i) \in Nat \ {0} /\ vis(i) <= Len(r)
  <2> TAKE i \in 1..N
  <2>1. i \in Nat \ {0} /\ i <= N
    BY <1>1
  <2>2. vis(i) <= vis(N) /\ vis(i) \in Nat \ {0} /\ vis(N) \in Nat \ {0}
    <3> HIDE DEF N
    <3> QED
      BY <1>1, <2>1, VisitGrows, VisitSteps
  <2> HIDE DEF vis, N
  <2> QED
    BY <1>2, <2>2
<1>4. \A i \in 1..N : Agrees(Path(t)[i], r[vis(i)], Vars)
  BY <1>1 DEF Follows
<1>5. 0 \in S
  <2>1. vis(1) = 1
    BY VisitSteps
  <2>2. Described(Path(t)[1], r[vis(1)])
    <3> HIDE DEF vis
    <3> QED
      BY <1>1, <2>1, InitDescribed DEF IsRun
  <2> QED
    BY <2>2
<1>6. ASSUME NEW n \in Nat, n \in S PROVE n + 1 \in S
  <2> DEFINE i == n + 1
             s == Path(t)[i]
             d == Path(t)[i + 1]
  <2> SUFFICES ASSUME i < N PROVE Described(d, r[vis(i + 1)])
    OBVIOUS
  <2>1. i \in 1..Len(t.states) /\ i \in 1..N /\ i + 1 \in 1..N /\ n < N /\ i \in Nat \ {0}
    BY <1>1
  <2>2. Linked(s, d) /\ Sound(s)
    BY <1>1, <2>1, PathSound DEF Built
  <2>3. Described(s, r[vis(i)])
    BY <1>6, <2>1
  <2>4. Agrees(d, r[vis(i + 1)], Vars)
    BY <1>4, <2>1
  <2>5. vis(i + 1) = IF s.node # d.node THEN vis(i) + 1 ELSE vis(i)
    BY <2>1, VisitSteps
  <2>6. /\ vis(i) \in Nat \ {0} /\ vis(i + 1) <= Len(r)
    BY <1>3, <2>1
  <2> HIDE DEF vis, s, d, i, N
  <2>7. CASE d.node = s.node
    BY <2>2, <2>3, <2>4, <2>5, <2>7, DescribedOn
  <2>8. CASE d.node # s.node
    <3>1. vis(i + 1) = vis(i) + 1 /\ vis(i) \in 1..(Len(r) - 1)
      BY <1>2, <2>5, <2>6, <2>8
    <3>2. r[vis(i) + 1] \in Follow(g, r[vis(i)])
      BY <3>1 DEF IsRun
    <3> QED
      BY <2>2, <2>3, <2>4, <2>8, <3>1, <3>2, DescribedOn
  <2> QED
    BY <2>7, <2>8
<1>7. Nat \subseteq S
  <2> HIDE DEF S
  <2> QED
    BY <1>5, <1>6, NatSetInduction
<1>8. N - 1 \in Nat /\ N - 1 < N /\ (N - 1) + 1 = N
  BY <1>1
<1>9. N - 1 \in S
  <2> HIDE DEF S, N
  <2> QED
    BY <1>7, <1>8
<1>10. Described(Path(t)[N], r[vis(N)])
  <2> HIDE DEF N, vis
  <2> QED
    BY <1>8, <1>9
<1>11. Sound(Path(t)[N])
  <2>1. N \in 1..(Len(t.states) + 1)
    BY <1>1
  <2> QED
    BY <2>1, PathSound
<1>12. LastVisit(t) \in 1..Len(r)
  <2>1. N \in 1..N
    BY <1>1
  <2> HIDE DEF vis, N
  <2> QED
    BY <1>2, <1>3, <2>1
<1> QED
  BY <1>1, <1>2, <1>10, <1>11, <1>12

-----------------------------------------------------------------------------
(***************************************************************************)
(* The transitions of a state are told apart by the runs: exactly one      *)
(* agrees with the way a run takes.                                        *)
(***************************************************************************)

\* Where a run goes.
LEMMA FollowNode ==
    ASSUME g \in Programs, NEW c \in Configs, NEW e \in Follow(g, c),
           NEW st, st = g.stmt[c.node]
    PROVE  /\ st.op \in StraightOps => e.node = g.succs[c.node][1]
           /\ st.op \in {"none", "switch"} =>
                \E i \in 1..Len(g.succs[c.node]) : e.node = g.succs[c.node][i]
           /\ st.op = "cond" =>
                e.node = g.succs[c.node][IF CondTrue(c.env[st.rhs]) THEN 1 ELSE 2]
<1> DEFINE to(i) == g.succs[c.node][i]
           set(ks) == {[node |-> to(1), env |-> [c.env EXCEPT ![st.lhs] = k]] : k \in ks}
           goto(i) == [c EXCEPT !.node = to(i)]
<1>1. \A i : goto(i).node = to(i)
  BY DEF Configs
<1>2. \A ks : e \in set(ks) => e.node = to(1)
  OBVIOUS
<1> HIDE DEF goto, set
<1>3. CASE st.op \in {"none", "switch"}
  <2>1. Follow(g, c) = {goto(i) : i \in 1..Len(g.succs[c.node])}
    BY <1>3, Zenon DEF Follow, goto
  <2> QED
    BY <1>1, <1>3, <2>1 DEF StraightOps
<1>4. CASE st.op \in {"nop", "deref"}
  <2>1. Follow(g, c) = {goto(1)}
    BY <1>4, Zenon DEF Follow, goto
  <2> QED
    BY <1>1, <1>4, <2>1
<1>5. CASE st.op = "cond"
  <2>1. Follow(g, c) = {IF CondTrue(c.env[st.rhs]) THEN goto(1) ELSE goto(2)}
    BY <1>5 DEF Follow, goto
  <2> QED
    BY <1>1, <1>5, <2>1 DEF StraightOps
<1>6. CASE st.op = "null"
  <2>1. Follow(g, c) = set({"null"})
    BY <1>6 DEF Follow, set
  <2> QED
    BY <1>2, <1>6, <2>1
<1>7. CASE st.op = "addr"
  <2>1. Follow(g, c) = set({"nonnull"})
    BY <1>7 DEF Follow, set
  <2> QED
    BY <1>2, <1>7, <2>1
<1>8. CASE st.op = "assign"
  <2>1. Follow(g, c) = set({c.env[st.rhs]})
    BY <1>8 DEF Follow, set
  <2> QED
    BY <1>2, <1>8, <2>1
<1>9. CASE st.op \in {"newref", "call", "pass", "callneg"}
  <2>1. Follow(g, c) = set(Results(st.lhs))
    BY <1>9 DEF Follow, set
  <2> QED
    BY <1>2, <1>9, <2>1
<1> QED
  BY <1>3, <1>4, <1>5, <1>6, <1>7, <1>8, <1>9, Zenon DEF StraightOps

\* The two worlds of a split.
LEMMA SplitParts ==
    ASSUME NEW s \in States, NEW v \in Vars
    PROVE  /\ Len(Split(s, v)) = 2
           /\ \E alt : /\ Results(v) = {alt[1], alt[2]} /\ alt[1] # alt[2]
                       /\ \A j \in 1..2 :
                            /\ Split(s, v)[j].dest.node = s.node
                            /\ Split(s, v)[j].dest.store = Told(s.store, s.store[v], alt[j])
<1> DEFINE alt == IF v \in PtrVars THEN <<"nonnull", "null">> ELSE <<"neg", "nonneg">>
           val2 == s.store[v]
<1>1. Split(s, v) = [i \in 1..2 |-> Transition(s, SplitInto(s, val2, alt[i]))]
  BY DEF Split
<1>2. Len(Split(s, v)) = 2
  BY DEF Split
<1>3. Results(v) = {alt[1], alt[2]} /\ alt[1] # alt[2]
  BY DEF Results
<1> HIDE DEF alt
<1>4. ASSUME NEW j \in 1..2
      PROVE  /\ Split(s, v)[j].dest.node = s.node
             /\ Split(s, v)[j].dest.store = Told(s.store, s.store[v], alt[j])
  <2>1. Split(s, v)[j].dest = SplitInto(s, val2, alt[j])
    BY <1>1 DEF Transition
  <2>2. /\ SplitInto(s, val2, alt[j]).node = s.node
        /\ SplitInto(s, val2, alt[j]).store = Told(s.store, val2, alt[j])
    BY DEF SplitInto, States, Told
  <2> QED
    BY <2>1, <2>2
<1> QED
  BY <1>2, <1>3, <1>4

\* The values known are those of the run.
Suits(store, env) == \A w \in Vars : store[w].kind \in {"unknown", env[w]}

\* A run agrees with the world in which the value is what it is in the run.
LEMMA SplitAgrees ==
    ASSUME NEW store, NEW env, Fits(store, env, Vars), NEW v \in Vars,
           store[v].kind = "unknown", NEW kind \in Results(v)
    PROVE  Suits(Told(store, store[v], kind), env) <=> env[v] = kind
<1> DEFINE after == Told(store, store[v], kind)
<1>1. \A w \in Vars : IF store[w] = store[v] THEN after[w].kind = kind ELSE after[w] = store[w]
  BY DEF Told
<1>2. kind # "unknown"
  BY ResultsKnown
<1> HIDE DEF after
<1>3. \A w \in Vars : store[w] = store[v] => env[w] = env[v]
  BY DEF Fits
<1>4. \A w \in Vars : store[w].kind \in {"unknown", env[w]}
  BY DEF Fits
<1> QED
  BY <1>1, <1>2, <1>3, <1>4 DEF after, Suits

\* The same, of a state made by a split.
LEMMA WorldAgrees ==
    ASSUME NEW store, NEW env, Fits(store, env, Vars), NEW v \in Vars,
           store[v].kind = "unknown", NEW kind, kind \in Results(v),
           NEW after, after = Told(store, store[v], kind)
    PROVE  Suits(after, env) <=> env[v] = kind
BY SplitAgrees

\* Of the transitions of a state that a run fits, one agrees with the run.
LEMMA OneMatches ==
    ASSUME g \in Programs, NEW s, Sound(s), ~Terminated(s), ErrorAt(g, s) = NoError,
           GetTransitions(g, s) # <<>>,
           NEW r, IsRun(r), NEW m \in 1..Len(r), Described(s, r[m])
    PROVE  \E k \in 1..Len(GetTransitions(g, s)) :
              \A j \in 1..Len(GetTransitions(g, s)) :
                  Matches(s, GetTransitions(g, s)[j].dest, m, r) <=> j = k
<1> DEFINE st == g.stmt[s.node]
           ts == GetTransitions(g, s)
           dest(j) == ts[j].dest
           c == r[m]
           e == r[m + 1]
           kind == s.store[st.rhs].kind
           Goal == \E k \in 1..Len(ts) : \A j \in 1..Len(ts) : Matches(s, dest(j), m, r) <=> j = k
<1> SUFFICES Goal
  OBVIOUS
<1>1. /\ s \in States /\ s.store \in [Vars -> Values] /\ SoundStore(s.store)
      /\ st.lhs \in Vars /\ st.rhs \in Vars /\ st.op \in Ops /\ s.node \in Nodes
      /\ g.succs[s.node] \in Seq(Nodes) /\ Len(g.succs[s.node]) \in Nat
  BY StmtType, LenProperties DEF States, Sound, Stmts
<1>2. /\ c \in Configs /\ c.node = s.node /\ Fits(s.store, c.env, Vars)
      /\ c.env \in [Vars -> Kinds \ {"unknown"}]
  BY DEF Described, Configs
<1>3. ts \in Seq(Transitions) /\ Len(ts) \in Nat \ {0}
  <2>1. ts \in Seq(Transitions)
    BY <1>1, GetTransitionsType
  <2> HIDE DEF ts
  <2> QED
    BY <2>1, EmptySeq, LenProperties DEF ts
<1>4. \A j \in 1..Len(ts) : Linked(s, dest(j)) /\ (Stays(g, s, dest(j)) \/ GoesOn(g, s, dest(j)))
  <2> TAKE j \in 1..Len(ts)
  <2>1. Linked(s, dest(j))
    BY DEF Linked
  <2> QED
    BY <2>1, LinkedSound
<1> HIDE DEF ts
<1>5. ASSUME NEW j \in 1..Len(ts), dest(j).node # s.node
      PROVE  /\ GoesOn(g, s, dest(j))
             /\ m + 1 <= Len(r) /\ e \in Follow(g, c)
             /\ Keeps(st, c, e) /\ st.op \notin {"return", "exit"}
             /\ Matches(s, dest(j), m, r) <=> dest(j).node = e.node /\ Suits(dest(j).store, e.env)
  <2>1. GoesOn(g, s, dest(j))
    BY <1>4, <1>5 DEF Stays
  <2>2. StopAt(g, c) = "none"
    BY <1>4, <2>1, FitsGoesOn
  <2>3. m # Len(r) /\ Len(r) \in Nat
    BY <2>2 DEF IsRun
  <2>4. m \in 1..(Len(r) - 1) /\ m + 1 <= Len(r)
    BY <2>3
  <2>5. e \in Follow(g, c)
    BY <2>4 DEF IsRun
  <2>6. st.op \notin {"return", "exit"}
    BY <2>1 DEF GoesOn
  <2>7. Keeps(st, c, e)
    BY <1>2, <2>5, <2>6, FollowSets
  <2>8. Matches(s, dest(j), m, r) <=> dest(j).node = e.node /\ Suits(dest(j).store, e.env)
    BY <1>5, <2>4 DEF Matches, Agrees, Suits
  <2> QED
    BY <2>1, <2>4, <2>5, <2>6, <2>7, <2>8
<1>6. ASSUME NEW n \in Nat, Len(ts) = n, NEW k \in 1..n,
             \A j \in 1..n : Matches(s, dest(j), m, r) <=> j = k
      PROVE  Goal
  BY <1>6
<1> HIDE DEF dest
<1>7. CASE MustSplit(g, s)
  <2>1. ts = Split(s, st.rhs) /\ kind = "unknown"
    BY <1>7 DEF GetTransitions, MustSplit, ts
  <2>2. Len(ts) = 2
    BY <1>1, <2>1, SplitParts
  <2>3. PICK alt : /\ Results(st.rhs) = {alt[1], alt[2]} /\ alt[1] # alt[2]
                   /\ \A j \in 1..2 :
                        /\ dest(j).node = s.node
                        /\ dest(j).store = Told(s.store, s.store[st.rhs], alt[j])
    <3>1. PICK alt : /\ Results(st.rhs) = {alt[1], alt[2]} /\ alt[1] # alt[2]
                     /\ \A j \in 1..2 :
                          /\ Split(s, st.rhs)[j].dest.node = s.node
                          /\ Split(s, st.rhs)[j].dest.store =
                                Told(s.store, s.store[st.rhs], alt[j])
      BY <1>1, SplitParts, Zenon
    <3> QED
      BY <2>1, <3>1, Zenon DEF dest
  <2>4. c.env[st.rhs] \in Results(st.rhs)
    BY <1>1, <1>2, <2>1 DEF Fits
  <2>5. PICK k \in 1..2 : c.env[st.rhs] = alt[k]
    BY <2>3, <2>4
  <2>6. ASSUME NEW j \in 1..2 PROVE Matches(s, dest(j), m, r) <=> j = k
    <3>1. alt[j] \in Results(st.rhs)
      BY <2>3
    <3>2. Suits(dest(j).store, c.env) <=> c.env[st.rhs] = alt[j]
      <4>1. dest(j).store = Told(s.store, s.store[st.rhs], alt[j])
        BY <2>3
      <4>2. s.store[st.rhs].kind = "unknown"
        BY <2>1, SMTT(30)
      <4> HIDE DEF st, c, kind
      <4> QED
        BY <1>1, <1>2, <3>1, <4>1, <4>2, WorldAgrees
    <3>3. Matches(s, dest(j), m, r) <=> Suits(dest(j).store, c.env)
      BY <1>2, <2>3 DEF Matches, Agrees, Suits
    <3> QED
      BY <2>3, <2>5, <3>2, <3>3
  <2> QED
    BY <1>6, <2>2, <2>6
<1>8. ASSUME Len(ts) = Len(g.succs[s.node]), st.op \in {"none", "switch", "cond"},
             \A j \in 1..Len(ts) : dest(j).node = g.succs[s.node][j] /\ dest(j).store = s.store
      PROVE  Goal
  <2>1. \A j \in 1..Len(ts) : dest(j).node # s.node
    BY <1>1, <1>8, SuccsDiffer
  <2>2. 1 \in 1..Len(ts)
    BY <1>3
  <2>3. e \in Follow(g, c) /\ Keeps(st, c, e)
    BY <1>5, <2>1, <2>2
  <2>4. PICK k \in 1..Len(ts) : e.node = g.succs[s.node][k]
    <3>1. CASE st.op \in {"none", "switch"}
      BY <1>2, <1>8, <2>3, <3>1, FollowNode, SMTT(40)
    <3>2. CASE st.op = "cond"
      <4>1. Len(ts) = 2
        BY <1>1, <1>8, <3>2, SuccsDiffer
      <4> QED
        BY <1>2, <2>3, <3>2, <4>1, FollowNode
    <3> QED
      BY <1>8, <3>1, <3>2
  <2>5. e.env = c.env
    BY <1>8, <2>3 DEF Keeps
  <2>6. \A j \in 1..Len(ts) : g.succs[s.node][j] = g.succs[s.node][k] => j = k
    BY <1>1, <1>8, ProgramsAssumption
  <2>7. ASSUME NEW j \in 1..Len(ts) PROVE Matches(s, dest(j), m, r) <=> j = k
    <3>1. Suits(dest(j).store, e.env)
      BY <1>2, <1>8, <2>5 DEF Fits, Suits
    <3>2. Matches(s, dest(j), m, r) <=> dest(j).node = e.node
      <4> QED
        BY <1>5, <2>1, <3>1
    <3> QED
      BY <1>8, <2>4, <2>6, <3>2
  <2> QED
    BY <1>3, <1>6, <2>7
<1>9. CASE ~MustSplit(g, s) /\ st.op \in {"none", "switch"}
  <2>1. ts = ToAllSuccs(g, s)
    BY <1>9 DEF GetTransitions, ts
  <2>2. Len(ts) = Len(g.succs[s.node])
    BY <1>1, <2>1 DEF ToAllSuccs
  <2>3. ASSUME NEW j \in 1..Len(ts)
        PROVE  dest(j).node = g.succs[s.node][j] /\ dest(j).store = s.store
    <3>1. dest(j) = Goto(s, g.succs[s.node][j])
      BY <2>1, <2>2, <2>3 DEF ToAllSuccs, Transition, dest
    <3> QED
      BY <1>1, <3>1, GotoKeeps
  <2> HIDE DEF Goal
  <2> QED
    BY <1>8, <1>9, <2>2, <2>3
<1>10. ASSUME Len(ts) = 1, dest(1).node # s.node, e.node = dest(1).node, Suits(dest(1).store, e.env)
       PROVE  Goal
  <2>1. 1 \in 1..Len(ts)
    BY <1>10
  <2>2. Matches(s, dest(1), m, r)
    <3> QED
      BY <1>5, <1>10, <2>1
  <2> QED
    BY <1>6, <1>10, <2>2
<1>11. CASE ~MustSplit(g, s) /\ st.op = "cond"
  <2> DEFINE edge(i) == Transition(s, Goto(s, g.succs[s.node][i]))
  <2>1. ts = CondTransitions(g, s)
    BY <1>11 DEF GetTransitions, ts
  <2>2. \A i : edge(i).dest.node = g.succs[s.node][i] /\ edge(i).dest.store = s.store
    BY <1>1, GotoKeeps DEF Transition
  <2>3. ts = IF kind \in {"null", "neg"} THEN <<edge(1)>>
             ELSE IF kind = "unknown" THEN <<edge(1), edge(2)>> ELSE <<edge(2)>>
    BY <2>1 DEF CondTransitions
  <2> HIDE DEF edge
  <2>4. CASE kind = "unknown"
    <3>1. Len(ts) = 2 /\ \A j \in 1..2 : dest(j) = edge(j).dest
      BY <2>3, <2>4 DEF dest
    <3>2. Len(g.succs[s.node]) = 2
      BY <1>1, <1>11, SuccsDiffer
    <3>3. \A j \in 1..Len(ts) : dest(j).node = g.succs[s.node][j] /\ dest(j).store = s.store
      BY <2>2, <3>1
    <3> HIDE DEF Goal
    <3> QED
      BY <1>8, <1>11, <3>1, <3>2, <3>3
  <2>5. CASE kind # "unknown"
    <3> DEFINE i == IF kind \in {"null", "neg"} THEN 1 ELSE 2
    <3>1. Len(ts) = 1 /\ dest(1) = edge(i).dest
      BY <2>3, <2>5 DEF dest
    <3>2. i \in 1..Len(g.succs[s.node])
      <4>1. Len(g.succs[s.node]) = 2
        BY <1>1, <1>11, SuccsDiffer
      <4>2. i \in 1..2
        OBVIOUS
      <4> QED
        BY <4>1, <4>2
    <3>3. dest(1).node = g.succs[s.node][i] /\ dest(1).store = s.store
      BY <2>2, <3>1, Zenon
    <3>4. dest(1).node # s.node
      BY <1>1, <3>2, <3>3, SuccsDiffer, Zenon
    <3>5. e \in Follow(g, c) /\ Keeps(st, c, e)
      BY <1>5, <3>1, <3>4
    <3>6. c.env[st.rhs] = kind
      BY <1>1, <1>2, <2>5, SMTT(30) DEF Fits
    <3>7. e.node = g.succs[s.node][i]
      <4>1. e.node = g.succs[c.node][IF CondTrue(c.env[st.rhs]) THEN 1 ELSE 2]
        BY <1>2, <1>11, <3>5, FollowNode
      <4>2. CondTrue(c.env[st.rhs]) <=> kind \in {"null", "neg"}
        BY <3>6 DEF CondTrue
      <4> QED
        BY <1>2, <4>1, <4>2, Zenon
    <3>8. e.env = c.env
      BY <1>11, <3>5 DEF Keeps
    <3>9. Suits(dest(1).store, e.env)
      BY <1>2, <3>3, <3>8, Zenon DEF Fits, Suits
    <3> HIDE DEF Goal
    <3> QED
      BY <1>10, <3>1, <3>3, <3>4, <3>7, <3>9, Zenon
  <2> QED
    BY <2>4, <2>5
<1>12. CASE ~MustSplit(g, s) /\ st.op \in {"return", "exit"}
  <2>1. \E f : /\ ts = <<Transition(s, f)>>
               /\ \/ f = [s EXCEPT !.has_returned = TRUE, !.fromsplit = FALSE]
                  \/ f = [s EXCEPT !.not_returning = TRUE, !.fromsplit = FALSE]
    BY <1>12, Zenon DEF GetTransitions, Returning, NotReturning, ts
  <2>2. /\ Len(ts) = 1
        /\ \/ dest(1) = [s EXCEPT !.has_returned = TRUE, !.fromsplit = FALSE]
           \/ dest(1) = [s EXCEPT !.not_returning = TRUE, !.fromsplit = FALSE]
    BY <2>1 DEF Transition, dest
  <2>3. dest(1).node = s.node /\ dest(1).store = s.store
    BY <1>1, <2>2 DEF States
  <2>4. Matches(s, dest(1), m, r)
    BY <1>2, <2>3 DEF Matches, Agrees, Fits, Suits
  <2> QED
    BY <1>6, <2>2, <2>4
<1>13. CASE ~MustSplit(g, s) /\ st.op = "callneg"
  <2> DEFINE u == UnknownResult(g, s)
             x == Unknown(st.lhs, s.calls + 1)
  <2>1. ts = Split(u, st.lhs)
    BY <1>13 DEF GetTransitions, NegativeOrNot, ts
  <2>2. /\ x \in Values /\ Fresh(s, st.lhs, x)
        /\ u \in States /\ u.store = [s.store EXCEPT ![st.lhs] = x] /\ u.store[st.lhs] = x
        /\ u.node = g.succs[s.node][1]
    BY <1>1, <1>13, UnknownSets DEF StraightOps
  <2> HIDE DEF u, x
  <2>3. Len(ts) = 2
    BY <1>1, <2>1, <2>2, SplitParts
  <2>4. PICK alt : /\ Results(st.lhs) = {alt[1], alt[2]} /\ alt[1] # alt[2]
                   /\ \A j \in 1..2 :
                        /\ dest(j).node = u.node
                        /\ dest(j).store = Told(u.store, u.store[st.lhs], alt[j])
    <3>1. PICK alt : /\ Results(st.lhs) = {alt[1], alt[2]} /\ alt[1] # alt[2]
                     /\ \A j \in 1..2 :
                          /\ Split(u, st.lhs)[j].dest.node = u.node
                          /\ Split(u, st.lhs)[j].dest.store =
                                Told(u.store, u.store[st.lhs], alt[j])
      BY <1>1, <2>2, SplitParts, Zenon
    <3> QED
      BY <2>1, <3>1, Zenon DEF dest
  <2>5. u.node # s.node
    BY <1>1, <1>13, <2>2, SuccsDiffer DEF StraightOps
  <2>6. e \in Follow(g, c) /\ Keeps(st, c, e)
    BY <1>5, <2>3, <2>4, <2>5
  <2>7. e.node = u.node
    BY <1>2, <1>13, <2>2, <2>6, FollowNode DEF StraightOps
  <2>8. PICK b \in Results(st.lhs) : e.env = [c.env EXCEPT ![st.lhs] = b] /\ e.env[st.lhs] = b
    BY <1>1, <1>2, <1>13, <2>6 DEF Keeps
  <2>9. Fits(u.store, e.env, Vars)
    <3>1. IF x.kind = "unknown" THEN b \in Results(st.lhs) ELSE b = x.kind
      BY <2>2 DEF Fresh
    <3>2. \A w \in Vars \ {st.lhs} : x.kind = "unknown" /\ s.store[w] = x => c.env[w] = b
      BY <2>2, FreshNew
    <3>3. Fits([s.store EXCEPT ![st.lhs] = x], [c.env EXCEPT ![st.lhs] = b], Vars)
      BY <1>1, <1>2, <3>1, <3>2, FitsSet
    <3> QED
      BY <2>2, <2>8, <3>3
  <2>10. PICK k \in 1..2 : b = alt[k]
    BY <2>4
  <2>11. ASSUME NEW j \in 1..2 PROVE Matches(s, dest(j), m, r) <=> j = k
    <3>1. alt[j] \in Results(st.lhs) /\ u.store[st.lhs].kind = "unknown"
      BY <2>2, <2>4 DEF Fresh
    <3>2. Suits(dest(j).store, e.env) <=> e.env[st.lhs] = alt[j]
      <4>1. dest(j).store = Told(u.store, u.store[st.lhs], alt[j])
        BY <2>4
      <4> HIDE DEF st, e
      <4> QED
        BY <1>1, <2>9, <3>1, <4>1, WorldAgrees
    <3>3. Matches(s, dest(j), m, r) <=> Suits(dest(j).store, e.env)
      <4> QED
        BY <1>5, <2>3, <2>4, <2>5, <2>7
    <3> QED
      BY <2>4, <2>8, <2>10, <3>2, <3>3
  <2> QED
    BY <1>6, <2>3, <2>11
<1>14. CASE ~MustSplit(g, s) /\ st.op = "newref"
  <2> DEFINE n == Next1(g, s)
             alt == <<"nonnull", "null">>
  <2>1. ts = <<Transition(s, Assign(n, st.lhs, Value("nonnull", st.lhs))),
               Transition(s, Assign(n, st.lhs, Value("null", st.lhs)))>>
    BY <1>14 DEF GetTransitions, NewRefOrFail, ts
  <2>2. Len(ts) = 2 /\ \A j \in 1..2 : dest(j) = Assign(n, st.lhs, Value(alt[j], st.lhs))
    BY <2>1 DEF Transition, dest
  <2>3. n \in States /\ n.node = g.succs[s.node][1] /\ n.store = s.store
    BY <1>1, <1>14, StmtType, GotoKeeps DEF StraightOps, Next1
  <2> HIDE DEF n
  <2>4. \A j \in 1..2 : /\ dest(j).node = n.node
                        /\ dest(j).store = [s.store EXCEPT ![st.lhs] = Value(alt[j], st.lhs)]
    BY <1>1, <2>2, <2>3, AssignSets
  <2>5. n.node # s.node
    BY <1>1, <1>14, <2>3, SuccsDiffer DEF StraightOps
  <2>6. e \in Follow(g, c) /\ Keeps(st, c, e)
    BY <1>5, <2>2, <2>4, <2>5
  <2>7. e.node = n.node
    BY <1>2, <1>14, <2>3, <2>6, FollowNode DEF StraightOps
  <2>8. PICK b \in Results(st.lhs) : e.env = [c.env EXCEPT ![st.lhs] = b] /\ e.env[st.lhs] = b
    BY <1>1, <1>2, <1>14, <2>6 DEF Keeps
  <2>9. Results(st.lhs) = {"null", "nonnull"}
    BY <1>1, <1>14, ProgramsAssumption DEF Results
  <2>10. PICK k \in 1..2 : b = alt[k]
    BY <2>8, <2>9
  <2>11. ASSUME NEW j \in 1..2 PROVE Matches(s, dest(j), m, r) <=> j = k
    <3>1. /\ dest(j).store[st.lhs].kind = alt[j] /\ alt[j] # "unknown"
          /\ \A w \in Vars \ {st.lhs} : dest(j).store[w] = s.store[w] /\ e.env[w] = c.env[w]
      BY <1>1, <1>2, <2>4, <2>8 DEF Value
    <3>2. \A w \in Vars : s.store[w].kind \in {"unknown", c.env[w]}
      BY <1>2 DEF Fits
    <3> HIDE DEF alt
    <3>3. Suits(dest(j).store, e.env) <=> b = alt[j]
      BY <1>1, <2>8, <3>1, <3>2, Zenon DEF Suits
    <3>4. Matches(s, dest(j), m, r) <=> Suits(dest(j).store, e.env)
      <4> QED
        BY <1>5, <2>2, <2>4, <2>5, <2>7
    <3>5. alt[1] # alt[2]
      BY DEF alt
    <3> QED
      BY <2>10, <3>3, <3>4, <3>5
  <2> QED
    BY <1>6, <2>2, <2>11
<1>15. CASE ~MustSplit(g, s) /\ st.op \in StraightOps \ {"newref", "callneg"}
  <2>1. ts = <<Transition(s, Straight(g, s))>>
    BY <1>15 DEF GetTransitions, StraightOps, ts
  <2>2. Len(ts) = 1
    BY <2>1
  <2>3. GoesOn(g, s, dest(1))
    <3>1. Stays(g, s, dest(1)) \/ GoesOn(g, s, dest(1))
      BY <1>4, <2>2
    <3>2. dest(1).node = g.succs[s.node][1]
      <4>1. dest(1) = Straight(g, s)
        BY <2>1 DEF Transition, dest
      <4> DEFINE n == Next1(g, s)
      <4>2. n \in States /\ n.node = g.succs[s.node][1]
        BY <1>1, <1>15, StmtType, GotoKeeps DEF Next1
      <4>3. UnknownResult(g, s).node = g.succs[s.node][1]
        BY <1>1, <1>15, UnknownSets
      <4> HIDE DEF n
      <4>4. \A x : Assign(n, st.lhs, x).node = n.node
        BY <1>1, <4>2, AssignSets, ZenonT(40)
      <4> QED
        BY <1>15, <4>1, <4>2, <4>3, <4>4 DEF Straight, StraightOps, n
    <3>3. g.succs[s.node][1] # s.node
      BY <1>1, <1>15, SuccsDiffer
    <3> QED
      BY <3>1, <3>2, <3>3 DEF Stays
  <2>4. dest(1).node = g.succs[s.node][1] /\ dest(1).node # s.node /\ Sets(g, s, dest(1))
    BY <1>15, <2>3 DEF GoesOn
  <2>5. e \in Follow(g, c) /\ Keeps(st, c, e)
    BY <1>5, <2>2, <2>4
  <2>6. e.node = dest(1).node
    BY <1>2, <1>15, <2>4, <2>5, FollowNode
  <2>7. Suits(dest(1).store, e.env)
    <3>1. \A w \in Vars : s.store[w].kind \in {"unknown", c.env[w]}
      BY <1>2 DEF Fits
    <3>2. CASE st.op \in {"nop", "deref"}
      BY <2>4, <2>5, <3>1, <3>2, Zenon DEF Sets, Keeps, Suits
    <3>3. CASE st.op \in {"null", "addr", "assign", "call", "pass"}
      <4>1. PICK x \in Values :
                /\ dest(1).store = [s.store EXCEPT ![st.lhs] = x]
                /\ st.op = "null" => x.kind = "null" /\ ~x.split
                /\ st.op = "addr" => x.kind = "nonnull" /\ ~x.split
                /\ st.op = "assign" => x = s.store[st.rhs]
                /\ st.op \in {"call", "pass"} => Fresh(s, st.lhs, x)
        BY <2>4, <3>3, Zenon DEF Sets
      <4>2. PICK k \in Kinds \ {"unknown"} :
                /\ e.env = [c.env EXCEPT ![st.lhs] = k]
                /\ st.op = "null" => k = "null"
                /\ st.op = "addr" => k = "nonnull"
                /\ st.op = "assign" => k = c.env[st.rhs]
        BY <2>5, <3>3 DEF Keeps
      <4>3. x.kind \in {"unknown", k}
        BY <1>1, <3>1, <3>3, <4>1, <4>2 DEF Fresh
      <4> SUFFICES ASSUME NEW w \in Vars
                   PROVE  dest(1).store[w].kind \in {"unknown", e.env[w]}
        BY DEF Suits
      <4>4. CASE w = st.lhs
        BY <1>1, <1>2, <4>1, <4>2, <4>3, <4>4
      <4>5. CASE w # st.lhs
        <5>1. dest(1).store[w] = s.store[w] /\ e.env[w] = c.env[w]
          BY <1>1, <1>2, <4>1, <4>2, <4>5
        <5> QED
          BY <3>1, <5>1
      <4> QED
        BY <4>4, <4>5
    <3> QED
      BY <1>15, <3>2, <3>3 DEF StraightOps
  <2> HIDE DEF Goal
  <2> QED
    BY <1>10, <2>2, <2>4, <2>6, <2>7, SMTT(30)
<1> HIDE DEF Goal
<1> QED
  BY <1>1, <1>7, <1>9, <1>11, <1>12, <1>13, <1>14, <1>15 DEF Ops, StraightOps

\* Of the traces that a trace is extended to, one follows a run that the trace
\* itself follows.
LEMMA OneFollows ==
    ASSUME g \in Programs, NEW t \in Traces, Built(t), NEW r, IsRun(r),
           ~Terminated(CurState(t)), ErrorAt(g, CurState(t)) = NoError,
           NEW ts, ts = GetTransitions(g, CurState(t)), ts # <<>>
    PROVE  IF Follows(t, r)
           THEN \E k \in 1..Len(ts) : \A j \in 1..Len(ts) : Follows(Add(t, ts[j]), r) <=> j = k
           ELSE \A j \in 1..Len(ts) : ~Follows(Add(t, ts[j]), r)
<1>1. Len(r) \in Nat
  BY DEF IsRun
<1>2. ts \in Seq(Transitions) /\ \A j \in 1..Len(ts) : ts[j] \in Transitions
  BY CurStateType, GetTransitionsType, ElementOfSeq
<1>3. \A j \in 1..Len(ts) : Follows(Add(t, ts[j]), r) <=>
          Follows(t, r) /\ Matches(CurState(t), ts[j].dest, LastVisit(t), r)
  BY <1>1, <1>2, AddFollows
<1>4. CASE ~Follows(t, r)
  BY <1>3, <1>4
<1>5. CASE Follows(t, r)
  <2>1. /\ LastVisit(t) \in 1..Len(r)
        /\ Sound(CurState(t)) /\ Described(CurState(t), r[LastVisit(t)])
    BY <1>5, FollowsDescribed
  <2>2. \E k \in 1..Len(ts) : \A j \in 1..Len(ts) :
            Matches(CurState(t), ts[j].dest, LastVisit(t), r) <=> j = k
    <3> DEFINE s == CurState(t)
               m == LastVisit(t)
    <3> HIDE DEF s, m
    <3> SUFFICES \E k \in 1..Len(ts) : \A j \in 1..Len(ts) : Matches(s, ts[j].dest, m, r) <=> j = k
      BY DEF s, m
    <3>1. /\ Sound(s) /\ ~Terminated(s) /\ ErrorAt(g, s) = NoError /\ ts = GetTransitions(g, s)
          /\ m \in 1..Len(r) /\ Described(s, r[m])
      BY <2>1 DEF s, m
    <3>2. \E k \in 1..Len(GetTransitions(g, s)) :
             \A j \in 1..Len(GetTransitions(g, s)) :
                 Matches(s, GetTransitions(g, s)[j].dest, m, r) <=> j = k
      BY <3>1, OneMatches
    <3> QED
      BY <3>1, <3>2
  <2> QED
    BY <1>3, <1>5, <2>2
<1> QED
  BY <1>4, <1>5

-----------------------------------------------------------------------------
(***************************************************************************)
(* What the loop detection drops is followed by no run that does not loop. *)
(***************************************************************************)
Crosses(ss, i) == g.bb[ss[i].node] # g.bb[ss[i + 1].node]
Crossing(ss, i) == <<g.bb[ss[i].node], g.bb[ss[i + 1].node]>>

\* A trace knows the block that it came from last; and the edges that it has
\* written down are edges of its path, each as often as the path has it.
Taken(t) ==
    /\ t.states # <<>> /\ t.tail # g.bb[CurState(t).node] =>
         /\ Len(t.paths_taken) # 0
         /\ t.paths_taken[Len(t.paths_taken)] = <<t.tail, g.bb[CurState(t).node]>>
    /\ \A k \in 1..Len(t.paths_taken) :
         \E i \in 1..Len(t.states) :
            Crosses(Path(t), i) /\ t.paths_taken[k] = Crossing(Path(t), i)
    /\ LoopFree(Path(t)) =>
         \A j, k \in 1..Len(t.paths_taken) : t.paths_taken[j] = t.paths_taken[k] => j = k

\* A transition leads from the state it is made for, or is one of a call's.
From(s, tr) == tr.src = s.node \/ tr.src = tr.dest.node

\* No edge is crossed twice, in terms of the above.
LEMMA FreeOfLoops ==
    ASSUME NEW ss
    PROVE  LoopFree(ss) <=>
             \A i, j \in 1..(Len(ss) - 1) :
                 Crosses(ss, i) /\ Crossing(ss, i) = Crossing(ss, j) => i = j
BY DEF LoopFree, Crosses, Crossing

\* The transitions of a state lead from it.
LEMMA TransitionsFrom ==
    ASSUME g \in Programs, NEW s \in States, NEW k \in 1..Len(GetTransitions(g, s))
    PROVE  From(s, GetTransitions(g, s)[k])
<1> DEFINE st == g.stmt[s.node]
           ts == GetTransitions(g, s)
<1>1. \A d : Transition(s, d).src = s.node
  BY DEF Transition
<1>2. st.lhs \in Vars /\ st.rhs \in Vars /\ st.op \in Ops
  BY StmtType DEF Stmts
<1>3. CASE MustSplit(g, s)
  <2>1. ts = Split(s, st.rhs)
    BY <1>3 DEF GetTransitions
  <2>2. DOMAIN ts = 1..2 /\ \A j \in 1..2 : ts[j].src = s.node
    BY <2>1 DEF Split, Transition
  <2> HIDE DEF ts
  <2>3. ts[k].src = s.node
    <3>1. Len(ts) = 2
      BY <1>2, <2>1, SplitParts
    <3> QED
      BY <2>2, <3>1 DEF ts
  <2> QED
    BY <2>3 DEF From, ts
<1>4. CASE ~MustSplit(g, s) /\ st.op = "callneg"
  <2> DEFINE u == UnknownResult(g, s)
  <2>1. ts = Split(u, st.lhs)
    BY <1>4 DEF GetTransitions, NegativeOrNot
  <2>2. u \in States
    BY <1>2, <1>4, UnknownSets DEF StraightOps
  <2> HIDE DEF u
  <2>3. Len(ts) = 2
    BY <1>2, <2>1, <2>2, SplitParts
  <2>4. ts[k].src = u.node /\ ts[k].dest.node = u.node
    <3> HIDE DEF ts
    <3>1. k \in 1..2
      BY <2>3, SMTT(30) DEF ts
    <3>2. ts[k].src = u.node
      BY <2>1, <3>1 DEF Split, Transition
    <3>3. ts[k].dest.node = u.node
      BY <1>2, <2>1, <2>2, <3>1, SplitParts
    <3> QED
      BY <3>2, <3>3
  <2> QED
    BY <2>4 DEF From
<1>5. CASE ~MustSplit(g, s) /\ st.op \in {"none", "switch"}
  <2>1. ts = ToAllSuccs(g, s)
    BY <1>5 DEF GetTransitions
  <2>2. Len(ts) = Len(g.succs[s.node])
    BY <2>1, StmtType, LenProperties DEF ToAllSuccs
  <2>3. ts[k] = Transition(s, Goto(s, g.succs[s.node][k]))
    BY <2>1, <2>2 DEF ToAllSuccs
  <2> QED
    BY <1>1, <2>3 DEF From
<1>6. CASE ~MustSplit(g, s) /\ st.op \notin {"none", "switch", "callneg"}
  <2>1. \E d, e : ts = <<Transition(s, d)>> \/ ts = <<Transition(s, d), Transition(s, e)>>
    BY <1>2, <1>6, Zenon
       DEF GetTransitions, CondTransitions, NewRefOrFail, Returning, NotReturning, Ops
  <2> HIDE DEF ts
  <2>2. PICK d, e : ts = <<Transition(s, d)>> \/ ts = <<Transition(s, d), Transition(s, e)>>
    BY <2>1
  <2>3. k \in 1..Len(ts)
    BY DEF ts
  <2>4. ts[k] = Transition(s, d) \/ ts[k] = Transition(s, e)
    BY <2>2, <2>3
  <2> QED
    BY <1>1, <2>4 DEF From, ts
<1> QED
  BY <1>3, <1>4, <1>5, <1>6

\* A trace that has looped has a path that does.
LEMMA LoopedLoops ==
    ASSUME NEW t \in Traces, Taken(t), HasLooped(t)
    PROVE  ~LoopFree(Path(t))
<1> SUFFICES ASSUME LoopFree(Path(t)) PROVE FALSE
  OBVIOUS
<1> DEFINE pt == t.paths_taken
           pair == <<t.tail, g.bb[CurState(t).node]>>
<1>1. Len(pt) \in Nat
  BY LenProperties DEF Traces
<1>2. t.states # <<>> /\ t.tail # g.bb[CurState(t).node]
      /\ \E i \in 1..(Len(pt) - 1) : pt[i] = pair
  BY DEF HasLooped
<1>3. Len(pt) # 0 /\ pt[Len(pt)] = pair /\ \A j, k \in 1..Len(pt) : pt[j] = pt[k] => j = k
  BY <1>2 DEF Taken
<1> HIDE DEF pt, pair
<1>4. PICK i \in 1..(Len(pt) - 1) : pt[i] = pair
  BY <1>2
<1>5. i \in 1..Len(pt) /\ Len(pt) \in 1..Len(pt) /\ i # Len(pt)
  BY <1>1, <1>3, <1>4
<1> QED
  BY <1>3, <1>4, <1>5

\* A trace that follows a run loops no more than the run.
LEMMA FollowsFree ==
    ASSUME g \in Programs, NEW t \in Traces, NEW r, IsRun(r), Follows(t, r)
    PROVE  LoopFree(Path(t))
<1> DEFINE ss == Path(t)
           N == Len(ss)
           vis(i) == Visit(ss, i)
<1>1. N \in Nat \ {0} /\ vis(N) <= Len(r) /\ Len(r) \in Nat
      /\ \A i \in 1..N : ss[i].node = r[vis(i)].node
  BY PathType DEF Follows, LastVisit, Agrees, IsRun
<1>2. \A i \in Nat \ {0} :
         /\ vis(i) \in Nat \ {0}
         /\ vis(i + 1) = IF ss[i].node # ss[i + 1].node THEN vis(i) + 1 ELSE vis(i)
  BY VisitSteps
<1>3. \A i, j \in Nat \ {0} : i <= j => vis(i) <= vis(j)
  BY VisitGrows
<1>4. \A i, j \in 1..(Len(r) - 1) :
         Crosses(r, i) /\ Crossing(r, i) = Crossing(r, j) => i = j
  BY FreeOfLoops DEF IsRun
<1> HIDE DEF vis, ss, N
<1>5. ASSUME NEW i \in 1..(N - 1), Crosses(ss, i)
      PROVE  /\ vis(i) \in 1..(Len(r) - 1) /\ vis(i + 1) = vis(i) + 1
             /\ Crosses(r, vis(i)) /\ Crossing(r, vis(i)) = Crossing(ss, i)
  <2>1. i \in 1..N /\ i + 1 \in 1..N /\ i + 1 <= N /\ i \in Nat \ {0} /\ i + 1 \in Nat \ {0}
    BY <1>1
  <2>2. ss[i].node # ss[i + 1].node
    BY <1>5 DEF Crosses
  <2>3. vis(i + 1) = vis(i) + 1 /\ vis(i) \in Nat \ {0} /\ vis(i + 1) \in Nat \ {0}
    BY <1>2, <2>1, <2>2
  <2>4. vis(i + 1) <= vis(N) /\ vis(N) \in Nat
    BY <1>1, <1>2, <1>3, <2>1
  <2>5. vis(i) \in 1..(Len(r) - 1)
    BY <1>1, <2>3, <2>4
  <2>6. ss[i].node = r[vis(i)].node /\ ss[i + 1].node = r[vis(i) + 1].node
    BY <1>1, <2>1, <2>3
  <2> QED
    BY <1>5, <2>3, <2>5, <2>6 DEF Crosses, Crossing
<1>6. ASSUME NEW i \in 1..(N - 1), NEW j \in 1..(N - 1), i < j,
             Crosses(ss, i), Crossing(ss, i) = Crossing(ss, j)
      PROVE  FALSE
  <2>1. Crosses(ss, j)
    BY <1>6 DEF Crosses, Crossing
  <2>2. vis(i) = vis(j)
    BY <1>4, <1>5, <1>6, <2>1
  <2>3. i + 1 <= j /\ i + 1 \in Nat \ {0} /\ j \in Nat \ {0}
    BY <1>6
  <2>4. vis(i + 1) <= vis(j)
    BY <1>3, <2>3
  <2> QED
    BY <1>5, <1>6, <2>2, <2>4
<1>7. ASSUME NEW i \in 1..(N - 1), NEW j \in 1..(N - 1),
             Crosses(ss, i), Crossing(ss, i) = Crossing(ss, j)
      PROVE  i = j
  <2>1. Crosses(ss, j)
    BY <1>7 DEF Crosses, Crossing
  <2>2. i < j \/ i = j \/ j < i
    BY <1>1
  <2> QED
    BY <1>6, <1>7, <2>1, <2>2
<1> QED
  BY <1>7, FreeOfLoops DEF ss, N

\* Adding a transition keeps the trace's record of its path.
LEMMA AddTaken ==
    ASSUME g \in Programs, NEW t \in Traces, NEW tr \in Transitions,
           Taken(t), From(CurState(t), tr)
    PROVE  Taken(Add(t, tr))
<1> DEFINE u == Add(t, tr)
           n == Len(t.states) + 1
           src == g.bb[tr.src]
           dest == g.bb[tr.dest.node]
           pt == t.paths_taken
           qt == u.paths_taken
<1>1. /\ u \in Traces /\ u.tail = src
      /\ qt = IF src # dest THEN Append(pt, <<src, dest>>) ELSE pt
  BY AddType, Zenon DEF Add, Traces
<1>2. /\ n \in Nat \ {0} /\ Len(Path(t)) = n /\ Path(t)[n] = CurState(t)
      /\ Len(u.states) = n /\ Len(Path(u)) = n + 1
      /\ \A i \in 1..n : Path(u)[i] = Path(t)[i]
      /\ Path(u)[n + 1] = tr.dest /\ CurState(u) = tr.dest
  <2>1. Len(t.states) \in Nat /\ Len(Path(t)) = n /\ Path(t)[n] = CurState(t)
    BY PathType
  <2>2. /\ Len(u.states) = Len(t.states) + 1
        /\ \A i \in 1..n : Path(u)[i] = Path(t)[i]
        /\ Path(u)[Len(t.states) + 2] = tr.dest
    BY AddPath
  <2>3. Len(Path(u)) = Len(u.states) + 1 /\ Path(u)[Len(u.states) + 1] = CurState(u)
    BY <1>1, PathType
  <2> HIDE DEF u
  <2> QED
    BY <2>1, <2>2, <2>3
<1>3. Len(pt) \in Nat /\ pt \in Seq(BlockPairs) /\ <<src, dest>> \in BlockPairs
  <2>1. src \in Blocks /\ dest \in Blocks
    BY ProgramsAssumption DEF StmtGraphs, Transitions, States
  <2> QED
    BY <2>1, LenProperties DEF Traces, BlockPairs
<1>4. \A i \in 1..(n - 1) : /\ Crosses(Path(u), i) <=> Crosses(Path(t), i)
                            /\ Crossing(Path(u), i) = Crossing(Path(t), i)
  <2> TAKE i \in 1..(n - 1)
  <2>1. i \in 1..n /\ i + 1 \in 1..n
    BY <1>2
  <2>2. Path(u)[i] = Path(t)[i] /\ Path(u)[i + 1] = Path(t)[i + 1]
    BY <1>2, <2>1
  <2> QED
    BY <2>2 DEF Crosses, Crossing
<1> HIDE DEF u, n, pt, qt
<1>5. \A k \in 1..Len(pt) : \E i \in 1..(n - 1) :
         Crosses(Path(u), i) /\ pt[k] = Crossing(Path(u), i)
  <2>1. 1..Len(t.states) = 1..(n - 1)
    BY <1>2 DEF n
  <2> QED
    BY <1>4, <2>1 DEF Taken, pt
<1>6. src # dest => Crosses(Path(u), n) /\ Crossing(Path(u), n) = <<src, dest>>
  <2>1. Path(u)[n] = CurState(t) /\ n \in 1..n
    BY <1>2
  <2> QED
    BY <1>2, <2>1 DEF From, Crosses, Crossing
<1>7. LoopFree(Path(u)) => \A j, k \in 1..Len(pt) : pt[j] = pt[k] => j = k
  <2> SUFFICES ASSUME LoopFree(Path(u)) PROVE LoopFree(Path(t))
    BY DEF Taken, pt
  <2>1. \A i, j \in 1..n :
           Crosses(Path(u), i) /\ Crossing(Path(u), i) = Crossing(Path(u), j) => i = j
    <3>1. \A i \in 1..n : i \in 1..(Len(Path(u)) - 1)
      BY <1>2
    <3> QED
      BY <3>1, FreeOfLoops
  <2>2. \A i \in 1..(n - 1) : i \in 1..n
    BY <1>2
  <2>3. \A i, j \in 1..(n - 1) :
           Crosses(Path(t), i) /\ Crossing(Path(t), i) = Crossing(Path(t), j) => i = j
    BY <1>4, <2>1, <2>2
  <2> QED
    BY <1>2, <2>3, FreeOfLoops
<1>8. LoopFree(Path(u)) /\ src # dest => \A k \in 1..Len(pt) : pt[k] # <<src, dest>>
  <2> SUFFICES ASSUME LoopFree(Path(u)), src # dest, NEW k \in 1..Len(pt), pt[k] = <<src, dest>>
               PROVE  FALSE
    OBVIOUS
  <2>1. PICK i \in 1..(n - 1) : Crosses(Path(u), i) /\ pt[k] = Crossing(Path(u), i)
    BY <1>5
  <2>2. i \in 1..(Len(Path(u)) - 1) /\ n \in 1..(Len(Path(u)) - 1) /\ i # n
    BY <1>2, <2>1
  <2>3. Crossing(Path(u), i) = Crossing(Path(u), n)
    BY <1>6, <2>1
  <2> QED
    BY <2>1, <2>2, <2>3, FreeOfLoops
<1> HIDE DEF src, dest
<1>9. CASE src = dest
  <2>1. qt = pt /\ \A i \in 1..(n - 1) : i \in 1..n
    BY <1>1, <1>2, <1>9
  <2>2. u.tail = g.bb[CurState(u).node]
    BY <1>1, <1>2, <1>9 DEF src, dest
  <2>3. \A k \in 1..Len(pt) : \E i \in 1..n :
           Crosses(Path(u), i) /\ pt[k] = Crossing(Path(u), i)
    BY <1>5, <2>1
  <2> QED
    BY <1>2, <1>7, <2>1, <2>2, <2>3 DEF Taken, qt, u
<1>10. CASE src # dest
  <2>1. qt = Append(pt, <<src, dest>>)
    BY <1>1, <1>10
  <2>2. /\ Len(qt) = Len(pt) + 1
        /\ \A k \in 1..Len(pt) : qt[k] = pt[k]
        /\ qt[Len(pt) + 1] = <<src, dest>>
    BY <1>3, <2>1, AppendProperties
  <2>3. \A k \in 1..Len(qt) : k \in 1..Len(pt) \/ k = Len(pt) + 1
    BY <1>3, <2>2, SMTT(30)
  <2>4. Len(qt) # 0 /\ qt[Len(qt)] = <<u.tail, g.bb[CurState(u).node]>>
    BY <1>1, <1>2, <1>3, <2>2, SMTT(40) DEF src, dest
  <2>5. \A k \in 1..Len(qt) : \E i \in 1..n :
           Crosses(Path(u), i) /\ qt[k] = Crossing(Path(u), i)
    <3>1. n \in 1..n /\ \A i \in 1..(n - 1) : i \in 1..n
      BY <1>2
    <3> TAKE k \in 1..Len(qt)
    <3>2. CASE k \in 1..Len(pt)
      BY <1>5, <2>2, <3>1, <3>2
    <3>3. CASE k = Len(pt) + 1
      BY <1>6, <1>10, <2>2, <3>1, <3>3
    <3> QED
      BY <2>3, <3>2, <3>3
  <2>6. LoopFree(Path(u)) => \A j, k \in 1..Len(qt) : qt[j] = qt[k] => j = k
    BY <1>7, <1>8, <1>10, <2>2, <2>3
  <2> QED
    BY <1>2, <2>4, <2>5, <2>6 DEF Taken, qt, u
<1> QED
  BY <1>9, <1>10

FrameTaken(f) ==
    /\ Taken(f.prefix)
    /\ \A k \in 1..Len(f.todo) : From(CurState(f.prefix), f.todo[k])

Taking ==
    /\ pc = "call" => Taken(val[1])
    /\ \A i \in 1..Len(stack) : FrameTaken(stack[i])

\* The trace with which the search starts has taken no edge.
LEMMA InitTaking == Init => Taking
BY DEF Init, Taking, Taken, EmptyTrace

\* The stack after a call has begun or ended.
LEMMA StackParts ==
    ASSUME TypeInv
    PROVE  /\ Len(stack) \in Nat
           /\ \A fs \in Seq(Frames), f \in Frames :
                /\ Len(fs) \in Nat /\ Len(Append(fs, f)) = Len(fs) + 1
                /\ \A i \in 1..Len(fs) : Append(fs, f)[i] = fs[i]
                /\ Append(fs, f)[Len(fs) + 1] = f
           /\ stack # <<>> =>
                /\ Len(stack) \in Nat \ {0}
                /\ Top = stack[Len(stack)]
                /\ Len(Pop) = Len(stack) - 1
                /\ \A i \in 1..(Len(stack) - 1) : Pop[i] = stack[i]
<1>1. stack \in Seq(Frames) /\ Len(stack) \in Nat
  BY LenProperties DEF TypeInv, TypeOK
<1>2. \A fs \in Seq(Frames), f \in Frames :
         /\ Len(fs) \in Nat /\ Len(Append(fs, f)) = Len(fs) + 1
         /\ \A i \in 1..Len(fs) : Append(fs, f)[i] = fs[i]
         /\ Append(fs, f)[Len(fs) + 1] = f
  BY AppendProperties, LenProperties
<1>3. ASSUME stack # <<>>
      PROVE  /\ Len(stack) \in Nat \ {0}
             /\ Top = stack[Len(stack)]
             /\ Len(Pop) = Len(stack) - 1
             /\ \A i \in 1..(Len(stack) - 1) : Pop[i] = stack[i]
  BY <1>1, <1>3, PopProperties DEF Top, Pop, Last
<1> QED
  BY <1>1, <1>2, <1>3

\* The rest of the transitions.
LEMMA TodoParts ==
    ASSUME TypeInv, stack # <<>>, Top.todo # <<>>
    PROVE  /\ Top.todo \in Seq(Transitions)
           /\ Head(Top.todo) \in Transitions /\ Head(Top.todo) = Top.todo[1]
           /\ Tail(Top.todo) \in Seq(Transitions)
           /\ Len(Top.todo) \in Nat \ {0}
           /\ Len(Tail(Top.todo)) = Len(Top.todo) - 1
           /\ \A k \in 1..(Len(Top.todo) - 1) : Tail(Top.todo)[k] = Top.todo[k + 1]
BY TopType, HeadTailProperties, EmptySeq, LenProperties

\* What the traces know of their paths does not depend on what changes.
LEMMA SameTaken ==
    ASSUME [Next]_vars
    PROVE  /\ \A t : Taken(t)' <=> Taken(t)
           /\ \A f : FrameTaken(f)' <=> FrameTaken(f)
<1>1. g' = g
  BY SameFunction
<1>2. \A t : Taken(t)' <=> Taken(t)
  BY <1>1 DEF Taken, Path, CurState, LoopFree, Crosses, Crossing
<1> QED
  BY <1>1, <1>2 DEF FrameTaken, CurState, From

\* Every step keeps what the traces know of their paths.
LEMMA NextTaking == TypeInv /\ Taking /\ [Next]_vars => Taking'
<1> SUFFICES ASSUME TypeInv, Taking, [Next]_vars PROVE Taking'
  OBVIOUS
<1> DEFINE Goal == /\ pc' = "call" => Taken(val'[1])
                   /\ \A i \in 1..Len(stack') : FrameTaken(stack'[i])
<1>1. SUFFICES Goal
  BY SameTaken DEF Taking
<1>2. \A fs \in Seq(Frames), f \in Frames :
         (\A i \in 1..Len(fs) : FrameTaken(fs[i])) /\ FrameTaken(f) =>
            \A i \in 1..Len(Append(fs, f)) : FrameTaken(Append(fs, f)[i])
  <2> SUFFICES ASSUME NEW fs \in Seq(Frames), NEW f \in Frames,
                      \A i \in 1..Len(fs) : FrameTaken(fs[i]), FrameTaken(f),
                      NEW i \in 1..Len(Append(fs, f))
               PROVE  FrameTaken(Append(fs, f)[i])
    OBVIOUS
  <2>1. i \in 1..Len(fs) \/ i = Len(fs) + 1
    BY StackParts
  <2> QED
    BY <2>1, StackParts
<1>3. ASSUME stack # <<>>
      PROVE  FrameTaken(Top) /\ \A i \in 1..Len(Pop) : FrameTaken(Pop[i])
  <2>1. Len(stack) \in 1..Len(stack) /\ \A i \in 1..Len(Pop) : i \in 1..Len(stack)
    BY <1>3, StackParts
  <2> QED
    BY <1>3, <2>1, StackParts DEF Taking
<1>4. CASE UNCHANGED vars
  BY <1>4 DEF vars, Taking
<1>5. CASE CallTerminated \/ CallLooped \/ CallPredictedError \/ CallNoTransitions \/ Deliver
  BY <1>5 DEF CallTerminated, CallLooped, CallPredictedError, CallNoTransitions, Deliver,
              Interprets, Return, Taking
<1>6. CASE CallExpand
  <2> DEFINE f == [prefix |-> val[1], todo |-> GetTransitions(g, CurState(val[1])),
                   result |-> <<>>]
  <2>1. f \in Frames /\ val[1] \in Traces /\ g \in Programs /\ pc = "call"
    BY <1>6, CallType, GetTransitionsType DEF CallExpand, Interprets, Frames, TypeInv
  <2>2. FrameTaken(f)
    BY <1>6, <2>1, CurStateType, TransitionsFrom DEF FrameTaken, Taking
  <2>3. stack' = Append(stack, f) /\ pc' = "loop" /\ stack \in Seq(Frames)
    BY <1>6 DEF CallExpand, TypeInv, TypeOK
  <2> HIDE DEF f
  <2> QED
    BY <1>2, <2>1, <2>2, <2>3 DEF Taking
<1>7. CASE LoopRecurse
  <2> DEFINE f == [Top EXCEPT !.todo = Tail(Top.todo)]
  <2>1. stack # <<>> /\ Top.todo # <<>> /\ Top \in Frames /\ Pop \in Seq(Frames)
        /\ Top.prefix \in Traces /\ g \in Programs
    BY <1>7, TopType DEF LoopRecurse, TypeInv, Positions
  <2>2. /\ Head(Top.todo) \in Transitions /\ Head(Top.todo) = Top.todo[1]
        /\ Tail(Top.todo) \in Seq(Transitions) /\ Len(Top.todo) \in Nat \ {0}
        /\ Len(Tail(Top.todo)) = Len(Top.todo) - 1
        /\ \A k \in 1..(Len(Top.todo) - 1) : Tail(Top.todo)[k] = Top.todo[k + 1]
    BY <2>1, TodoParts
  <2>3. f \in Frames /\ f.prefix = Top.prefix /\ f.todo = Tail(Top.todo)
    BY <2>1, <2>2 DEF Frames
  <2>4. stack' = Append(Pop, f) /\ val' = <<Add(Top.prefix, Head(Top.todo))>>
    BY <1>7 DEF LoopRecurse
  <2> HIDE DEF f
  <2>5. FrameTaken(f) /\ Taken(Top.prefix) /\ From(CurState(Top.prefix), Head(Top.todo))
    <3>1. 1 \in 1..Len(Top.todo) /\ \A k \in 1..Len(f.todo) :
             k + 1 \in 1..Len(Top.todo) /\ f.todo[k] = Top.todo[k + 1]
      BY <2>2, <2>3
    <3> QED
      BY <1>3, <2>1, <2>2, <2>3, <3>1 DEF FrameTaken
  <2>6. Taken(val'[1])
    BY <2>1, <2>2, <2>4, <2>5, AddTaken
  <2> QED
    BY <1>2, <1>3, <2>1, <2>3, <2>4, <2>5, <2>6
<1>8. CASE LoopTooComplicated \/ LoopEnd \/ Propagate
  BY <1>3, <1>8 DEF LoopTooComplicated, LoopEnd, Propagate, TypeInv, Positions
<1>9. CASE Receive
  <2> DEFINE f == [Top EXCEPT !.result = Top.result \o val]
  <2>1. stack # <<>> /\ Top \in Frames /\ Pop \in Seq(Frames) /\ Top.result \o val \in Seq(Traces)
    BY <1>9, TopType, ConcatProperties DEF Receive, TypeInv, TypeOK
  <2>2. f \in Frames /\ f.prefix = Top.prefix /\ f.todo = Top.todo
    BY <2>1 DEF Frames
  <2>3. stack' = Append(Pop, f) /\ pc' = "loop"
    BY <1>9 DEF Receive
  <2> HIDE DEF f
  <2>4. FrameTaken(f)
    BY <1>3, <2>1, <2>2 DEF FrameTaken
  <2> QED
    BY <1>2, <1>3, <2>1, <2>2, <2>3, <2>4
<1> HIDE DEF Goal
<1> QED
  BY <1>4, <1>5, <1>6, <1>7, <1>8, <1>9 DEF Next

-----------------------------------------------------------------------------
(***************************************************************************)
(* A complete trace covers the runs that it follows.  While the search is  *)
(* on, every run that follows the prefix of a call is accounted for there  *)
(* once: by a result, by a transition to be tried, or by the call that the *)
(* loop is waiting for.                                                    *)
(***************************************************************************)

\* How a trace ended plays no part in whether it follows a run.
LEMMA FollowsStates ==
    ASSUME NEW t, NEW u, t.states = u.states, NEW r
    PROVE  Follows(t, r) <=> Follows(u, r)
<1>1. Path(t) = Path(u)
  BY DEF Path
<1> QED
  BY <1>1 DEF Follows, LastVisit

\* A complete trace covers the runs that it follows.
LEMMA CoversFollows ==
    ASSUME g \in Programs, NEW t \in Traces, Built(t), IsComplete(t),
           t.err \in {NoError, ErrorAt(g, CurState(t))}, NEW r, IsRun(r)
    PROVE  Covers(t, r) <=> Follows(t, r)
<1>1. Len(r) \in Nat \ {0} /\ LastVisit(t) \in Nat \ {0} /\ Last(r) = r[Len(r)]
  <2>1. Len(Path(t)) \in Nat \ {0}
    BY PathType
  <2> QED
    BY <2>1, VisitSteps DEF IsRun, LastVisit, Last
<1>2. Covers(t, r) <=> /\ LastVisit(t) = Len(r)
                       /\ \A i \in 1..Len(Path(t)) : Agrees(Path(t)[i], r[Visit(Path(t), i)], Vars)
                       /\ StopAt(g, Last(r)) = Outcome(t)
  BY DEF Covers, LastVisit
<1>3. Covers(t, r) => Follows(t, r)
  BY <1>1, <1>2 DEF Follows
<1>4. ASSUME Follows(t, r) PROVE Covers(t, r)
  <2>1. /\ LastVisit(t) \in 1..Len(r)
        /\ Sound(CurState(t)) /\ Described(CurState(t), r[LastVisit(t)])
    BY <1>4, FollowsDescribed
  <2>2. StopAt(g, r[LastVisit(t)]) = Outcome(t)
    BY <2>1, FitsOutcome
  <2>3. Outcome(t) # "none"
    <3>1. ErrorAt(g, CurState(t)) # NoError => ErrorAt(g, CurState(t)).kind \in {"uninit", "null"}
      BY Zenon DEF ErrorAt
    <3>2. t.err # NoError => t.err.kind # "none"
      BY <3>1
    <3> QED
      BY <3>2 DEF Outcome
  <2>4. LastVisit(t) = Len(r)
    <3>1. ASSUME LastVisit(t) # Len(r) PROVE FALSE
      <4>1. LastVisit(t) \in 1..(Len(r) - 1)
        BY <1>1, <2>1, <3>1
      <4> QED
        BY <2>2, <2>3, <4>1 DEF IsRun
    <3> QED
      BY <3>1
  <2> QED
    BY <1>1, <1>2, <1>4, <2>2, <2>4 DEF Follows
<1> QED
  BY <1>3, <1>4

Solo(S) == \E x \in S : S = {x}

Covering(ts, r) == {k \in 1..Len(ts) : Covers(ts[k], r)}

Pending(f, r) == {k \in 1..Len(f.todo) : Follows(Add(f.prefix, f.todo[k]), r)}

\* The run is accounted for once by the frame or by the call it waits for, if it
\* follows the frame's prefix; and otherwise not at all.
Shared(f, child, r) ==
    IF Follows(f.prefix, r)
    THEN \/ Solo(Covering(f.result, r)) /\ Pending(f, r) = {} /\ ~child
         \/ Covering(f.result, r) = {} /\ Solo(Pending(f, r)) /\ ~child
         \/ Covering(f.result, r) = {} /\ Pending(f, r) = {} /\ child
    ELSE Covering(f.result, r) = {} /\ Pending(f, r) = {} /\ ~child

\* The call made by the i-th frame, or by nobody, accounts for the run.
Child(i, r) ==
    IF i < Len(stack) THEN Follows(stack[i + 1].prefix, r)
    ELSE IF pc = "call" THEN Follows(val[1], r)
    ELSE pc = "return" /\ Covering(val, r) # {}

Accounted ==
    \A r : IsRun(r) =>
        /\ pc \in {"call", "loop", "return"} =>
             /\ \A i \in 1..Len(stack) : Shared(stack[i], Child(i, r), r)
             /\ Child(0, r)
        /\ pc = "return" => Covering(val, r) = {} \/ Solo(Covering(val, r))
        /\ pc = "done" /\ ~complicated => Solo(Covering(traces, r))

\* The trace with which the search starts follows every run.
LEMMA InitAccounted == Init => Accounted
<1> SUFFICES ASSUME Init, NEW r, IsRun(r)
             PROVE  Len(stack) = 0 /\ pc = "call" /\ Follows(val[1], r)
  BY DEF Accounted, Child
<1>1. Len(stack) = 0 /\ pc = "call" /\ val[1] = EmptyTrace /\ g \in Programs
  BY DEF Init
<1>2. Path(EmptyTrace) = <<InitState(g)>>
  BY DEF Path, EmptyTrace
<1> DEFINE ss == <<InitState(g)>>
<1>3. Len(ss) = 1 /\ ss[1] = InitState(g)
  OBVIOUS
<1>4. Visit(ss, 1) = 1
  BY VisitSteps
<1>5. Agrees(InitState(g), r[1], Vars)
  <2>1. Described(InitState(g), r[1])
    BY <1>1, InitDescribed DEF IsRun
  <2> QED
    BY <2>1 DEF Described, Fits, Agrees
<1>6. 1 <= Len(r)
  BY DEF IsRun
<1> HIDE DEF ss
<1> QED
  BY <1>1, <1>2, <1>3, <1>4, <1>5, <1>6 DEF Follows, LastVisit, ss

\* No step changes what runs there are and what follows or covers them.
LEMMA SameRuns ==
    ASSUME [Next]_vars
    PROVE  /\ \A r : IsRun(r)' <=> IsRun(r)
           /\ \A t, r : Follows(t, r)' <=> Follows(t, r)
           /\ \A ts, r : Covering(ts, r)' = Covering(ts, r)
           /\ \A f, c, r : Shared(f, c, r)' <=> Shared(f, c, r)
<1>1. g' = g
  BY SameFunction
<1>2. \A r : IsRun(r)' <=> IsRun(r)
  BY <1>1 DEF IsRun, LoopFree
<1>3. \A t, r : Follows(t, r)' <=> Follows(t, r)
  BY <1>1 DEF Follows, LastVisit, Path
<1>4. \A t, r : Covers(t, r)' <=> Covers(t, r)
  BY <1>1 DEF Covers, Outcome, CurState, Path
<1>5. \A ts, r : Covering(ts, r)' = Covering(ts, r)
  BY <1>4 DEF Covering
<1>6. \A t, tr : Add(t, tr)' = Add(t, tr)
  BY <1>1 DEF Add
<1>7. \A f, r : Pending(f, r)' = Pending(f, r)
  BY <1>3, <1>6 DEF Pending
<1>8. \A f, c, r : Shared(f, c, r)' <=> Shared(f, c, r)
  BY <1>3, <1>5, <1>7 DEF Shared
<1> QED
  BY <1>2, <1>3, <1>5, <1>8

\* A list of one trace.
LEMMA CoveringOne ==
    ASSUME NEW t, NEW r, NEW b \in BOOLEAN, Covers(t, r) <=> b
    PROVE  IF b THEN Solo(Covering(<<t>>, r)) ELSE Covering(<<t>>, r) = {}
<1>1. Covering(<<t>>, r) = IF b THEN {1} ELSE {}
  BY DEF Covering
<1> QED
  BY <1>1 DEF Solo

\* A list of traces after another.
LEMMA CoveringConcat ==
    ASSUME NEW ts \in Seq(Traces), NEW us \in Seq(Traces), NEW r
    PROVE  /\ Covering(ts, r) = {} => /\ Covering(ts \o us, r) = {} <=> Covering(us, r) = {}
                                      /\ Solo(Covering(us, r)) => Solo(Covering(ts \o us, r))
           /\ Covering(us, r) = {} /\ Solo(Covering(ts, r)) => Solo(Covering(ts \o us, r))
<1> DEFINE m == Len(ts)
           n == Len(us)
           vs == ts \o us
<1>1. /\ m \in Nat /\ n \in Nat /\ Len(vs) = m + n
      /\ \A k \in 1..m : vs[k] = ts[k]
      /\ \A k \in 1..n : vs[m + k] = us[k]
  <2>1. /\ m \in Nat /\ n \in Nat /\ Len(vs) = m + n
        /\ \A i \in 1..(m + n) : vs[i] = IF i <= m THEN ts[i] ELSE us[i - m]
    BY LenProperties, ConcatProperties
  <2> HIDE DEF m, n, vs
  <2>2. \A k \in 1..m : k \in 1..(m + n) /\ k <= m
    BY <2>1
  <2>3. \A k \in 1..n : m + k \in 1..(m + n) /\ ~(m + k <= m) /\ (m + k) - m = k
    BY <2>1
  <2> QED
    BY <2>1, <2>2, <2>3
<1> HIDE DEF vs, m, n
<1>2. \A k \in 1..(m + n) : k \in 1..m \/ (k - m \in 1..n /\ k = m + (k - m))
  BY <1>1
<1>3. \A k \in 1..m : k \in 1..(m + n)
  BY <1>1
<1>4. \A k \in 1..n : m + k \in 1..(m + n)
  BY <1>1
<1>5. ASSUME NEW k \in Covering(ts, r) PROVE k \in Covering(vs, r)
  BY <1>1, <1>3, <1>5 DEF Covering, m
<1>6. ASSUME NEW k \in Covering(us, r) PROVE m + k \in Covering(vs, r)
  <2>1. k \in 1..n /\ Covers(us[k], r)
    BY <1>6 DEF Covering, n
  <2>2. vs[m + k] = us[k] /\ m + k \in 1..(m + n)
    BY <1>1, <1>4, <2>1, Zenon
  <2>3. m + k \in 1..Len(vs)
    BY <1>1, <2>2
  <2> QED
    BY <2>1, <2>2, <2>3 DEF Covering
<1>7. ASSUME NEW k \in Covering(vs, r)
      PROVE  k \in Covering(ts, r) \/ \E j \in Covering(us, r) : k = m + j
  <2>1. k \in 1..(m + n) /\ Covers(vs[k], r)
    BY <1>1 DEF Covering
  <2>2. CASE k \in 1..m
    BY <1>1, <2>1, <2>2 DEF Covering, m
  <2>3. CASE k - m \in 1..n /\ k = m + (k - m)
    <3> DEFINE j == k - m
    <3>1. vs[k] = us[k - m]
      <4>1. j \in 1..n /\ k = m + j
        BY <2>3
      <4> HIDE DEF j
      <4>2. vs[m + j] = us[j]
        BY <1>1, <4>1, Zenon
      <4>3. vs[k] = us[j]
        BY <4>1, <4>2, Zenon
      <4> QED
        BY <4>3 DEF j
    <3>2. k - m \in Covering(us, r)
      BY <2>1, <2>3, <3>1 DEF Covering, n
    <3> QED
      BY <2>3, <3>2
  <2> QED
    BY <1>2, <2>1, <2>2, <2>3
<1> QED
  BY <1>5, <1>6, <1>7 DEF Solo, vs

\* The loop takes the next transition: what it accounted for, the call does now.
LEMMA SharedNext ==
    ASSUME NEW f, NEW h, NEW r, f.todo \in Seq(Transitions), f.todo # <<>>,
           h.prefix = f.prefix, h.result = f.result, h.todo = Tail(f.todo),
           Shared(f, FALSE, r)
    PROVE  Shared(h, Follows(Add(f.prefix, Head(f.todo)), r), r)
<1> DEFINE n == Len(f.todo)
           P == Pending(f, r)
           Q == Pending(h, r)
           first == Follows(Add(f.prefix, Head(f.todo)), r)
<1>1. /\ n \in Nat \ {0} /\ Head(f.todo) = f.todo[1] /\ Len(h.todo) = n - 1
      /\ \A k \in 1..(n - 1) : h.todo[k] = f.todo[k + 1]
  BY HeadTailProperties, EmptySeq, LenProperties
<1> HIDE DEF n
<1>2. Covering(h.result, r) = Covering(f.result, r)
  OBVIOUS
<1>3. 1 \in P <=> first
  <2>1. 1 \in 1..n
    BY <1>1
  <2> QED
    BY <1>1, <2>1 DEF Pending, n
<1>4. \A k \in P : k = 1 \/ (k - 1 \in Q /\ k = (k - 1) + 1)
  <2> SUFFICES ASSUME NEW k \in P, k # 1 PROVE k - 1 \in Q /\ k = (k - 1) + 1
    OBVIOUS
  <2> DEFINE j == k - 1
  <2>1. k \in 1..n /\ Follows(Add(f.prefix, f.todo[k]), r)
    BY DEF Pending, n
  <2>2. j \in 1..(n - 1) /\ k = j + 1
    BY <1>1, <2>1
  <2> HIDE DEF j, P, Q
  <2>3. h.todo[j] = f.todo[k]
    BY <1>1, <2>2
  <2>4. j \in Q
    BY <1>1, <2>1, <2>2, <2>3 DEF Pending, Q
  <2> QED
    BY <2>2, <2>4 DEF j
<1>5. \A k \in Q : k + 1 \in P /\ k + 1 # 1
  <2> TAKE k \in Q
  <2>1. k \in 1..(n - 1) /\ Follows(Add(f.prefix, h.todo[k]), r)
    BY <1>1 DEF Pending
  <2>2. k + 1 \in 1..n /\ h.todo[k] = f.todo[k + 1] /\ k + 1 # 1
    BY <1>1, <2>1
  <2> QED
    BY <2>1, <2>2 DEF Pending, n
<1>6. \A j, k \in Q : j + 1 = k + 1 => j = k
  BY <1>1 DEF Pending
<1> HIDE DEF P, Q, first
<1>7. P = {} => Q = {} /\ ~first
  BY <1>3, <1>5
<1>8. Solo(P) => (Q = {} /\ first) \/ (Solo(Q) /\ ~first)
  <2> SUFFICES ASSUME NEW x \in P, P = {x} PROVE (Q = {} /\ first) \/ (Solo(Q) /\ ~first)
    BY DEF Solo
  <2>1. CASE x = 1
    BY <1>3, <1>5, <2>1
  <2>2. CASE x # 1
    <3>1. x - 1 \in Q /\ x = (x - 1) + 1 /\ ~first
      BY <1>3, <1>4, <2>2
    <3>2. \A k \in Q : k + 1 = (x - 1) + 1
      BY <1>5, <3>1
    <3>3. \A k \in Q : k = x - 1
      BY <1>6, <3>1, <3>2
    <3> QED
      BY <3>1, <3>3 DEF Solo
  <2> QED
    BY <2>1, <2>2
<1> QED
  BY <1>2, <1>7, <1>8 DEF Shared, P, Q, first

\* What a call does with a run that ends with it.
LEMMA CallAccounts ==
    ASSUME TypeInv, Building, Taking, OnlyComplete, pc = "call",
           CallTerminated \/ CallLooped \/ CallPredictedError \/ CallNoTransitions,
           NEW r, IsRun(r)
    PROVE  /\ pc' = "return" /\ stack' = stack
           /\ IF Follows(val[1], r) THEN Solo(Covering(val', r)) ELSE Covering(val', r) = {}
<1>1. pc' = "return" /\ stack' = stack
  BY DEF CallTerminated, CallLooped, CallPredictedError, CallNoTransitions, Return
<1>2. val[1] \in Traces /\ g \in Programs /\ Taken(val[1])
  BY CallType DEF TypeInv, Taking
<1>3. CASE CallLooped
  <2>1. ~Follows(val[1], r)
    BY <1>2, <1>3, LoopedLoops, FollowsFree DEF CallLooped
  <2>2. Covering(<<>>, r) = {}
    BY DEF Covering
  <2> QED
    BY <1>1, <1>3, <2>1, <2>2 DEF CallLooped, Return
<1>4. ASSUME NEW t \in Traces, t.states = val[1].states, val' = <<t>>, Next
      PROVE  IF Follows(val[1], r) THEN Solo(Covering(val', r)) ELSE Covering(val', r) = {}
  <2>1. t \in Range(val')
    BY <1>4 DEF Range
  <2>2. Built(t) /\ t.err \in {NoError, ErrorAt(g, CurState(t))} /\ IsComplete(t)
    BY <1>1, <1>4, <2>1, ReturnsBuilt, ReturnsComplete
  <2>3. Covers(t, r) <=> Follows(val[1], r)
    BY <1>2, <1>4, <2>2, CoversFollows, FollowsStates
  <2>4. Follows(val[1], r) \in BOOLEAN
    BY DEF Follows
  <2> QED
    BY <1>4, <2>3, <2>4, CoveringOne
<1>5. CASE CallTerminated \/ CallNoTransitions
  <2>1. val' = val /\ Next
    BY <1>5 DEF CallTerminated, CallNoTransitions, Return, Next
  <2>2. val = <<val[1]>>
    <3>1. val \in Seq(Traces) /\ Len(val) = 1
      BY DEF TypeInv, TypeOK, Positions
    <3> QED
      BY <3>1
  <2> QED
    BY <1>1, <1>2, <1>4, <2>1, <2>2
<1>6. CASE CallPredictedError
  <2> DEFINE t == [val[1] EXCEPT !.err = ErrorAt(g, CurState(val[1]))]
  <2>1. ErrorAt(g, CurState(val[1])) \in Errors
    BY ErrorType
  <2>2. t \in Traces /\ t.states = val[1].states
    BY <1>2, <2>1 DEF Traces
  <2>3. val' = <<t>> /\ Next
    BY <1>6 DEF CallPredictedError, Return, Next
  <2> HIDE DEF t
  <2> QED
    BY <1>1, <1>4, <2>2, <2>3
<1> QED
  BY <1>3, <1>5, <1>6

\* Every step accounts for the runs as before.
LEMMA NextAccounted ==
    TypeInv /\ Building /\ Taking /\ OnlyComplete /\ Accounted /\ [Next]_vars => Accounted'
<1> SUFFICES ASSUME TypeInv, Building, Taking, OnlyComplete, Accounted, [Next]_vars,
                    NEW r, IsRun(r)
             PROVE  /\ pc' \in {"call", "loop", "return"} =>
                         /\ \A i \in 1..Len(stack') : Shared(stack'[i], Child(i, r)', r)
                         /\ Child(0, r)'
                    /\ pc' = "return" => Covering(val', r) = {} \/ Solo(Covering(val', r))
                    /\ pc' = "done" /\ ~complicated' => Solo(Covering(traces', r))
  BY SameRuns DEF Accounted
<1> DEFINE n == Len(stack)
           kid(i) == Child(i, r)
           next(i) == IF i < Len(stack') THEN Follows(stack'[i + 1].prefix, r)
                      ELSE IF pc' = "call" THEN Follows(val'[1], r)
                      ELSE pc' = "return" /\ Covering(val', r) # {}
           Goal == /\ pc' \in {"call", "loop", "return"} =>
                        /\ \A i \in 1..Len(stack') : Shared(stack'[i], next(i), r)
                        /\ next(0)
                   /\ pc' = "return" => Covering(val', r) = {} \/ Solo(Covering(val', r))
                   /\ pc' = "done" /\ ~complicated' => Solo(Covering(traces', r))
<1>1. \A i : Child(i, r)' <=> next(i)
  <2> TAKE i
  <2>1. \A t : Follows(t, r)' <=> Follows(t, r)
    BY SameRuns
  <2>2. \A ts : Covering(ts, r)' = Covering(ts, r)
    BY SameRuns
  <2>3. CASE i < Len(stack')
    BY <2>1, <2>3 DEF Child
  <2>4. CASE ~(i < Len(stack')) /\ pc' = "call"
    BY <2>1, <2>4 DEF Child
  <2>5. CASE ~(i < Len(stack')) /\ pc' # "call"
    BY <2>2, <2>5 DEF Child
  <2> QED
    BY <2>3, <2>4, <2>5
<1>2. SUFFICES Goal
  <2>1. \A f, c, d : (c <=> d) /\ Shared(f, c, r) => Shared(f, d, r)
    BY DEF Shared
  <2> HIDE DEF next
  <2> QED
    BY <1>1, <2>1
<1>3. /\ pc \in {"call", "loop", "return"} =>
           /\ \A i \in 1..n : Shared(stack[i], kid(i), r)
           /\ kid(0)
      /\ pc = "return" => Covering(val, r) = {} \/ Solo(Covering(val, r))
      /\ pc = "done" /\ ~complicated => Solo(Covering(traces, r))
  BY DEF Accounted
<1>4. n \in Nat /\ stack \in Seq(Frames) /\ g \in Programs
  BY StackParts DEF TypeInv, TypeOK
<1>5. CASE UNCHANGED vars
  BY <1>3, <1>5 DEF vars, Child
<1>6. CASE CallTerminated \/ CallLooped \/ CallPredictedError \/ CallNoTransitions
  <2>1. pc = "call"
    BY <1>6 DEF CallTerminated, CallLooped, CallPredictedError, CallNoTransitions, Interprets
  <2>2. /\ pc' = "return" /\ stack' = stack
        /\ IF Follows(val[1], r) THEN Solo(Covering(val', r)) ELSE Covering(val', r) = {}
    BY <1>6, <2>1, CallAccounts
  <2>3. \A i \in 0..n : next(i) <=> kid(i)
    BY <2>1, <2>2 DEF Child, Solo
  <2>4. Len(stack') = n
    BY <2>2
  <2> HIDE DEF next, kid, n
  <2>5. ASSUME NEW i \in 1..n PROVE Shared(stack'[i], next(i), r)
    <3>1. i \in 0..n
      BY <1>4
    <3> QED
      BY <1>3, <2>1, <2>2, <2>3, <3>1 DEF Shared
  <2>6. next(0)
    <3>1. 0 \in 0..n
      BY <1>4
    <3> QED
      BY <1>3, <2>1, <2>3, <3>1
  <2>7. Covering(val', r) = {} \/ Solo(Covering(val', r))
    BY <2>2
  <2> QED
    BY <2>2, <2>4, <2>5, <2>6, <2>7
<1>7. CASE CallExpand
  <2> DEFINE t == val[1]
             ts == GetTransitions(g, CurState(t))
             f == [prefix |-> t, todo |-> ts, result |-> <<>>]
  <2>1. /\ pc = "call" /\ ~Terminated(CurState(t)) /\ ErrorAt(g, CurState(t)) = NoError
        /\ ts # <<>> /\ stack' = Append(stack, f) /\ pc' = "loop"
        /\ t \in Traces /\ f \in Frames /\ Built(t)
    BY <1>4, <1>7, CallType, GetTransitionsType DEF CallExpand, Interprets, Frames, Building
  <2>2. f.prefix = t /\ f.todo = ts /\ Covering(f.result, r) = {}
    BY DEF Covering
  <2>3. Shared(f, FALSE, r)
    <3> DEFINE P == Pending(f, r)
    <3> HIDE DEF t, ts, f
    <3>1. IF Follows(t, r)
          THEN \E k \in 1..Len(ts) : \A j \in 1..Len(ts) : Follows(Add(t, ts[j]), r) <=> j = k
          ELSE \A j \in 1..Len(ts) : ~Follows(Add(t, ts[j]), r)
      BY <1>4, <2>1, OneFollows DEF ts
    <3>2. P = {j \in 1..Len(ts) : Follows(Add(t, ts[j]), r)}
      BY <2>2 DEF Pending
    <3>3. IF Follows(t, r) THEN Solo(P) ELSE P = {}
      BY <3>1, <3>2 DEF Solo
    <3> QED
      BY <2>2, <3>3 DEF Shared
  <2> HIDE DEF f
  <2>4. /\ Len(stack') = n + 1 /\ stack'[n + 1] = f
        /\ \A i \in 1..n : stack'[i] = stack[i]
    BY <1>4, <2>1, StackParts
  <2>5. \A i \in 0..n : next(i) <=> kid(i)
    <3> TAKE i \in 0..n
    <3>1. CASE i = n
      BY <1>4, <2>1, <2>2, <2>4, <3>1 DEF Child
    <3>2. CASE i \in 0..(n - 1)
      <4>1. i + 1 \in 1..n /\ i < n /\ i < n + 1
        BY <1>4, <3>2
      <4> QED
        BY <2>4, <4>1 DEF Child
    <3> QED
      BY <1>4, <3>1, <3>2
  <2>6. next(n + 1) <=> FALSE
    BY <1>4, <2>1, <2>4
  <2> HIDE DEF next, kid, n, t, ts
  <2>7. ASSUME NEW i \in 1..(n + 1) PROVE Shared(stack'[i], next(i), r)
    <3>1. CASE i = n + 1
      BY <2>3, <2>4, <2>6, <3>1 DEF Shared
    <3>2. CASE i \in 1..n
      <4>1. i \in 0..n
        BY <1>4, <3>2
      <4> QED
        BY <1>3, <2>1, <2>4, <2>5, <3>2, <4>1 DEF Shared
    <3> QED
      BY <1>4, <3>1, <3>2
  <2>8. next(0)
    <3>1. 0 \in 0..n
      BY <1>4
    <3> QED
      BY <1>3, <2>1, <2>5, <3>1
  <2> QED
    BY <2>1, <2>4, <2>7, <2>8
<1>8. ASSUME stack # <<>>
      PROVE  /\ n \in Nat \ {0} /\ Top = stack[n] /\ Top \in Frames /\ Pop \in Seq(Frames)
             /\ Len(Pop) = n - 1 /\ \A i \in 1..(n - 1) : Pop[i] = stack[i]
             /\ \A f \in Frames :
                  /\ Len(Append(Pop, f)) = n /\ Append(Pop, f)[n] = f
                  /\ \A i \in 1..(n - 1) : Append(Pop, f)[i] = stack[i]
  <2>1. /\ n \in Nat \ {0} /\ Top = stack[n] /\ Top \in Frames /\ Pop \in Seq(Frames)
        /\ Len(Pop) = n - 1 /\ \A i \in 1..(n - 1) : Pop[i] = stack[i]
    BY <1>8, StackParts, TopType
  <2>2. (n - 1) + 1 = n
    BY <2>1
  <2> HIDE DEF n
  <2>3. ASSUME NEW f \in Frames
        PROVE  /\ Len(Append(Pop, f)) = n /\ Append(Pop, f)[n] = f
               /\ \A i \in 1..(n - 1) : Append(Pop, f)[i] = stack[i]
    <3>1. /\ Len(Append(Pop, f)) = (n - 1) + 1 /\ Append(Pop, f)[(n - 1) + 1] = f
          /\ \A i \in 1..(n - 1) : Append(Pop, f)[i] = Pop[i]
      BY <2>1, StackParts
    <3> QED
      BY <2>1, <2>2, <3>1
  <2> QED
    BY <2>1, <2>3
<1>9. ASSUME stack # <<>>, pc \in {"loop", "return"},
             NEW f \in Frames, stack' = Append(Pop, f), f.prefix = Top.prefix,
             NEW b \in BOOLEAN, next(n) <=> b, pc' \in {"call", "loop"},
             Shared(Top, kid(n), r) => Shared(f, b, r)
      PROVE  Goal
  <2>1. /\ n \in Nat \ {0} /\ Top = stack[n] /\ Len(stack') = n /\ stack'[n] = f
        /\ \A i \in 1..(n - 1) : stack'[i] = stack[i]
    BY <1>8, <1>9
  <2>2. \A i \in 0..(n - 1) : next(i) <=> kid(i)
    <3> TAKE i \in 0..(n - 1)
    <3>1. i < n /\ i + 1 \in 1..n /\ (i + 1 \in 1..(n - 1) \/ i + 1 = n)
      BY <2>1
    <3>2. stack'[i + 1].prefix = stack[i + 1].prefix
      BY <1>9, <2>1, <3>1
    <3> QED
      BY <2>1, <3>1, <3>2 DEF Child
  <2> HIDE DEF next, kid, n
  <2>3. ASSUME NEW i \in 1..n PROVE Shared(stack'[i], next(i), r)
    <3>1. CASE i = n
      <4>1. Shared(Top, kid(n), r)
        BY <1>3, <1>9, <2>1, <3>1
      <4> QED
        BY <1>9, <2>1, <3>1, <4>1 DEF Shared
    <3>2. CASE i # n
      <4>1. i \in 1..(n - 1) /\ i \in 0..(n - 1)
        BY <2>1, <3>2
      <4> QED
        BY <1>3, <1>9, <2>1, <2>2, <4>1 DEF Shared
    <3> QED
      BY <3>1, <3>2
  <2>4. next(0)
    <3>1. 0 \in 0..(n - 1)
      BY <2>1
    <3> QED
      BY <1>3, <1>9, <2>2, <3>1
  <2> QED
    BY <1>9, <2>1, <2>3, <2>4
<1>10. CASE LoopRecurse
  <2> DEFINE f == [Top EXCEPT !.todo = Tail(Top.todo)]
             head == Add(Top.prefix, Head(Top.todo))
  <2>1. /\ stack # <<>> /\ Top.todo # <<>> /\ Top \in Frames /\ Tail(Top.todo) \in Seq(Transitions)
        /\ Top.todo \in Seq(Transitions)
    BY <1>10, TopType, TodoParts DEF LoopRecurse, TypeInv, Positions
  <2>2. /\ f \in Frames /\ f.prefix = Top.prefix /\ f.todo = Tail(Top.todo)
        /\ f.result = Top.result
    BY <2>1 DEF Frames
  <2>3. /\ pc = "loop" /\ stack' = Append(Pop, f) /\ pc' = "call" /\ val'[1] = head
    BY <1>10 DEF LoopRecurse
  <2> HIDE DEF f, head
  <2>4. kid(n) <=> FALSE
    BY <1>4, <2>3 DEF Child
  <2>5. next(n) <=> Follows(head, r)
    <3>1. Len(stack') = n
      BY <1>8, <2>1, <2>2, <2>3
    <3> QED
      BY <1>4, <2>3, <3>1
  <2>6. Shared(Top, kid(n), r) => Shared(f, Follows(head, r), r)
    <3> SUFFICES ASSUME Shared(Top, FALSE, r) PROVE Shared(f, Follows(head, r), r)
      BY <2>4 DEF Shared
    <3> QED
      BY <2>1, <2>2, SharedNext DEF head
  <2>7. Follows(head, r) \in BOOLEAN
    BY DEF Follows
  <2> HIDE DEF next, kid, n, Goal
  <2> QED
    BY <1>9, <2>1, <2>2, <2>3, <2>5, <2>6, <2>7
<1>11. CASE Receive
  <2> DEFINE f == [Top EXCEPT !.result = Top.result \o val]
  <2>1. /\ stack # <<>> /\ Top \in Frames /\ Top.result \in Seq(Traces) /\ val \in Seq(Traces)
        /\ Top.result \o val \in Seq(Traces)
    BY <1>11, TopType, ConcatProperties DEF Receive, TypeInv, TypeOK
  <2>2. /\ f \in Frames /\ f.prefix = Top.prefix /\ f.todo = Top.todo
        /\ f.result = Top.result \o val
    BY <2>1 DEF Frames
  <2>3. /\ pc = "return" /\ stack' = Append(Pop, f) /\ pc' = "loop"
    BY <1>11 DEF Receive
  <2> HIDE DEF f
  <2>4. kid(n) <=> Covering(val, r) # {}
    BY <1>4, <2>3 DEF Child
  <2>5. next(n) <=> FALSE
    <3>1. Len(stack') = n
      BY <1>8, <2>1, <2>2, <2>3
    <3> QED
      BY <1>4, <2>3, <3>1
  <2>6. Shared(Top, kid(n), r) => Shared(f, FALSE, r)
    <3>1. Pending(f, r) = Pending(Top, r)
      BY <2>2 DEF Pending
    <3>2. /\ Covering(Top.result, r) = {} =>
               /\ Covering(f.result, r) = {} <=> Covering(val, r) = {}
               /\ Solo(Covering(val, r)) => Solo(Covering(f.result, r))
          /\ Covering(val, r) = {} /\ Solo(Covering(Top.result, r)) => Solo(Covering(f.result, r))
      BY <2>1, <2>2, CoveringConcat
    <3>3. Covering(val, r) = {} \/ Solo(Covering(val, r))
      BY <1>3, <2>3
    <3> HIDE DEF kid
    <3> QED
      BY <2>2, <2>4, <3>1, <3>2, <3>3 DEF Shared
  <2> HIDE DEF next, kid, n, Goal
  <2> QED
    BY <1>9, <2>1, <2>2, <2>3, <2>5, <2>6
<1>12. CASE LoopEnd
  <2>1. /\ pc = "loop" /\ stack # <<>> /\ Top.todo = <<>> /\ stack' = Pop /\ pc' = "return"
        /\ val' = Top.result
    BY <1>12 DEF LoopEnd, TypeInv, Positions
  <2>2. n \in Nat \ {0} /\ Top = stack[n] /\ Len(stack') = n - 1
        /\ \A i \in 1..(n - 1) : stack'[i] = stack[i]
    BY <1>8, <2>1
  <2>3. Pending(Top, r) = {}
    BY <2>1 DEF Pending
  <2>4. kid(n) <=> FALSE
    BY <1>4, <2>1 DEF Child
  <2>5. Shared(Top, FALSE, r)
    <3> HIDE DEF kid, n
    <3>1. n \in 1..n
      BY <2>2
    <3>2. Shared(Top, kid(n), r)
      BY <1>3, <2>1, <2>2, <3>1
    <3> QED
      BY <2>4, <3>2 DEF Shared
  <2>6. IF Follows(Top.prefix, r) THEN Solo(Covering(val', r)) ELSE Covering(val', r) = {}
    <3>1. ~Solo({})
      BY DEF Solo
    <3> QED
      BY <2>1, <2>3, <2>5, <3>1 DEF Shared
  <2>7. \A i \in 0..(n - 1) : next(i) <=> kid(i)
    <3> TAKE i \in 0..(n - 1)
    <3>1. CASE i = n - 1
      <4>1. i < n /\ i + 1 = n /\ ~(i < n - 1)
        BY <2>2, <3>1
      <4>2. kid(i) <=> Follows(Top.prefix, r)
        BY <2>2, <4>1 DEF Child
      <4>3. next(i) <=> Covering(val', r) # {}
        BY <2>1, <2>2, <4>1
      <4> QED
        BY <2>6, <4>2, <4>3 DEF Solo
    <3>2. CASE i # n - 1
      <4>1. i < n /\ i < n - 1 /\ i + 1 \in 1..(n - 1)
        BY <2>2, <3>2
      <4> QED
        BY <2>2, <4>1 DEF Child
    <3> QED
      BY <3>1, <3>2
  <2> HIDE DEF next, kid, n
  <2>8. ASSUME NEW i \in 1..(n - 1) PROVE Shared(stack'[i], next(i), r)
    <3>1. i \in 1..n /\ i \in 0..(n - 1)
      BY <2>2
    <3> QED
      BY <1>3, <2>1, <2>2, <2>7, <3>1 DEF Shared
  <2>9. next(0)
    <3>1. 0 \in 0..(n - 1)
      BY <2>2
    <3> QED
      BY <1>3, <2>1, <2>7, <3>1
  <2> QED
    BY <2>1, <2>2, <2>6, <2>8, <2>9
<1>13. CASE LoopTooComplicated \/ Propagate
  BY <1>13 DEF LoopTooComplicated, Propagate
<1>14. CASE Deliver
  <2>1. /\ stack = <<>> /\ pc \in {"return", "raise"} /\ traces' = val
        /\ complicated' = (pc = "raise") /\ pc' = "done"
    BY <1>14 DEF Deliver
  <2>2. CASE pc = "return"
    <3>1. n = 0
      BY <2>1
    <3>2. Covering(val, r) # {}
      BY <1>3, <2>2, <3>1 DEF Child
    <3>3. Solo(Covering(val, r))
      BY <1>3, <2>2, <3>2
    <3> QED
      BY <2>1, <2>2, <3>3
  <2>3. CASE pc = "raise"
    BY <2>1, <2>3
  <2> QED
    BY <2>1, <2>2, <2>3
<1> HIDE DEF Goal
<1> QED
  BY <1>5, <1>6, <1>7, <1>10, <1>11, <1>12, <1>13, <1>14 DEF Next

-----------------------------------------------------------------------------
(***************************************************************************)
(* When the search is done, each run that does not loop has its trace.     *)
(***************************************************************************)

\* A run as far as it has come.
IsPart(r) ==
    /\ \E S : r \in Seq(S)
    /\ Len(r) # 0 /\ r[1] \in InitConfigs(g) /\ LoopFree(r)
    /\ \A i \in 1..(Len(r) - 1) : StopAt(g, r[i]) = "none" /\ r[i + 1] \in Follow(g, r[i])

\* The first configuration of a run.
LEMMA PartStarts ==
    ASSUME NEW c \in InitConfigs(g)
    PROVE  IsPart(<<c>>)
<1> DEFINE r == <<c>>
<1>1. r \in Seq({c}) /\ Len(r) = 1 /\ r[1] = c
  OBVIOUS
<1> HIDE DEF r
<1>2. 1..(Len(r) - 1) = {}
  BY <1>1
<1> QED
  BY <1>1, <1>2 DEF IsPart, LoopFree, r

\* A run takes a step.
LEMMA PartGoesOn ==
    ASSUME NEW r, IsPart(r), StopAt(g, Last(r)) = "none", NEW c \in Follow(g, Last(r)),
           LoopFree(Append(r, c))
    PROVE  IsPart(Append(r, c))
<1> DEFINE u == Append(r, c)
           n == Len(r)
<1>1. PICK S : r \in Seq(S)
  BY DEF IsPart
<1> DEFINE T == S \cup {c}
<1>2. r \in Seq(T) /\ n \in Nat \ {0} /\ c \in T /\ Last(r) = r[n]
  <2>1. n \in Nat /\ \A i \in 1..n : r[i] \in S
    BY <1>1, LenProperties, ElementOfSeq
  <2>2. r \in Seq(T)
    BY <1>1
  <2> QED
    BY <2>1, <2>2 DEF IsPart, Last
<1> HIDE DEF T
<1>3. /\ u \in Seq(T) /\ Len(u) = n + 1 /\ u[n + 1] = c
      /\ \A i \in 1..n : u[i] = r[i]
  BY <1>2, AppendProperties
<1>4. /\ r[1] \in InitConfigs(g)
      /\ \A i \in 1..(n - 1) : StopAt(g, r[i]) = "none" /\ r[i + 1] \in Follow(g, r[i])
  BY DEF IsPart
<1> HIDE DEF u, n
<1>5. ASSUME NEW i \in 1..n PROVE StopAt(g, u[i]) = "none" /\ u[i + 1] \in Follow(g, u[i])
  <2>1. CASE i = n
    BY <1>2, <1>3, <2>1
  <2>2. CASE i # n
    <3>1. i \in 1..(n - 1) /\ i + 1 \in 1..n
      BY <1>2, <2>2
    <3> QED
      BY <1>3, <1>4, <3>1
  <2> QED
    BY <2>1, <2>2
<1>6. Len(u) # 0 /\ u[1] = r[1] /\ 1..(Len(u) - 1) = 1..n
  BY <1>2, <1>3
<1>7. LoopFree(u)
  BY DEF u
<1>8. \E X : u \in Seq(X)
  BY <1>3
<1> QED
  BY <1>4, <1>5, <1>6, <1>7, <1>8 DEF IsPart, u

\* The runs that the traces have to cover.
LEMMA RunsAreRuns ==
    ASSUME NEW n \in Nat, NEW r \in LoopFreeRuns(n)
    PROVE  IsRun(r)
<1> DEFINE E(f, k) == IF k = 0 THEN {<<c>> : c \in InitConfigs(g)}
                      ELSE {q \in UNION {IF StopAt(g, Last(p)) # "none" THEN {p}
                                         ELSE {Append(p, c) : c \in Follow(g, Last(p))} :
                                            p \in f[k - 1]} : LoopFree(q)}
           S == {m \in Nat : \E f : f = [k \in 0..m |-> E(f, k)]}
           up == CHOOSE f : f = [k \in 0..n |-> E(f, k)]
           T == {k \in Nat : k <= n => \A p \in up[k] : IsPart(p)}
<1>1. \A f, h, k : (k = 0 \/ f[k - 1] = h[k - 1]) => E(f, k) = E(h, k)
  OBVIOUS
<1>2. 0 \in S
  <2> DEFINE f == [k \in 0..0 |-> {<<c>> : c \in InitConfigs(g)}]
  <2>1. \A k \in 0..0 : k = 0
    OBVIOUS
  <2>2. f = [k \in 0..0 |-> E(f, k)]
    BY <2>1
  <2> HIDE DEF f, E
  <2> QED
    BY <2>2
<1>3. ASSUME NEW m \in Nat, m \in S PROVE m + 1 \in S
  <2>1. PICK f : f = [k \in 0..m |-> E(f, k)]
    BY <1>3
  <2> DEFINE h == [k \in 0..(m + 1) |-> IF k = m + 1 THEN E(f, k) ELSE f[k]]
  <2>2. \A k \in 0..(m + 1) : k # 0 => h[k - 1] = f[k - 1]
    <3> HIDE DEF E
    <3> QED
      OBVIOUS
  <2>3. \A k \in 0..(m + 1) : h[k] = E(h, k)
    <3> TAKE k \in 0..(m + 1)
    <3>1. E(h, k) = E(f, k)
      <4> HIDE DEF h, E
      <4> QED
        BY <1>1, <2>2
    <3>2. CASE k = m + 1
      <4> HIDE DEF E
      <4> QED
        BY <3>1, <3>2
    <3>3. CASE k \in 0..m
      <4> HIDE DEF E
      <4>1. h[k] = f[k]
        BY <3>3
      <4>2. f[k] = E(f, k)
        BY <2>1, <3>3
      <4> QED
        BY <3>1, <4>1, <4>2
    <3>4. k = m + 1 \/ k \in 0..m
      OBVIOUS
    <3> HIDE DEF h, E
    <3> QED
      BY <3>2, <3>3, <3>4
  <2>4. h = [k \in 0..(m + 1) |-> E(h, k)]
    <3> HIDE DEF E
    <3> QED
      BY <2>3
  <2> HIDE DEF h, E
  <2> QED
    BY <2>4
<1>4. n \in S
  <2> HIDE DEF S
  <2> QED
    BY <1>2, <1>3, NatSetInduction
<1>5. up = [k \in 0..n |-> E(up, k)]
  <2> HIDE DEF E
  <2> QED
    BY <1>4
<1>6. LoopFreeRuns(n) = {q \in up[n] : StopAt(g, Last(q)) # "none"}
  BY DEF LoopFreeRuns
<1>7. \A k \in 0..n : up[k] = E(up, k)
  <2> HIDE DEF E, up
  <2> QED
    BY <1>5
<1> HIDE DEF up
<1>8. 0 \in T
  <2>1. up[0] = {<<c>> : c \in InitConfigs(g)}
    <3>1. 0 \in 0..n
      OBVIOUS
    <3> QED
      BY <1>7, <3>1
  <2> QED
    BY <2>1, PartStarts
<1>9. ASSUME NEW k \in Nat, k \in T PROVE k + 1 \in T
  <2> SUFFICES ASSUME k + 1 <= n, NEW q \in up[k + 1] PROVE IsPart(q)
    OBVIOUS
  <2>1. k <= n /\ k + 1 \in 0..n /\ k + 1 # 0 /\ (k + 1) - 1 = k
    OBVIOUS
  <2>2. q \in E(up, k + 1)
    <3> HIDE DEF E
    <3> QED
      BY <1>7, <2>1
  <2>3. PICK p \in up[k] : /\ q \in IF StopAt(g, Last(p)) # "none" THEN {p}
                                    ELSE {Append(p, c) : c \in Follow(g, Last(p))}
                           /\ LoopFree(q)
    BY <2>1, <2>2
  <2>4. IsPart(p)
    BY <1>9, <2>1
  <2> QED
    BY <2>3, <2>4, PartGoesOn
<1>10. n \in T
  <2> HIDE DEF T
  <2> QED
    BY <1>8, <1>9, NatSetInduction
<1>11. IsPart(r) /\ StopAt(g, Last(r)) # "none"
  BY <1>6, <1>10
<1>12. Len(r) \in Nat \ {0}
  <2>1. PICK X : r \in Seq(X)
    BY <1>11 DEF IsPart
  <2> QED
    BY <1>11, <2>1, LenProperties DEF IsPart
<1> QED
  BY <1>11, <1>12 DEF IsPart, IsRun, Last

\* What has been accounted for to the end is complete.
LEMMA DoneComplete == TypeInv /\ Accounted => Complete
<1> SUFFICES ASSUME TypeInv, Accounted, pc = "done", ~complicated,
                    NEW r \in LoopFreeRuns(limits.maxtrans + 1)
             PROVE  Cardinality({i \in 1..Len(traces) : Covers(traces[i], r)}) = 1
  BY DEF Complete
<1>1. limits.maxtrans + 1 \in Nat
  <2>1. limits.maxtrans \in Nat
    BY MaxTransAssumption DEF TypeInv, TypeOK
  <2> QED
    BY <2>1
<1>2. IsRun(r)
  BY <1>1, RunsAreRuns
<1>3. Solo(Covering(traces, r))
  BY <1>2 DEF Accounted
<1>4. PICK k : Covering(traces, r) = {k}
  BY <1>3 DEF Solo
<1> QED
  BY <1>4, FS_Singleton DEF Covering

\* For every function, every budget and every run that does not loop: if the user
\* is not told that paths are missing, exactly one trace covers the run.  Neither
\* the splits nor the loop detection lose a way through the function or take one
\* twice.
THEOREM TracesComplete == Spec => []Complete
<1>1. TypeInv /\ Building /\ [Next]_vars => Building'
  BY NextBuilding
<1>2. TypeInv /\ Taking /\ [Next]_vars => Taking'
  BY NextTaking
<1>3. TypeInv /\ Building /\ Taking /\ OnlyComplete /\ Accounted /\ [Next]_vars => Accounted'
  BY NextAccounted
<1> QED
  BY <1>1, <1>2, <1>3, InitTypeInv, NextTypeInv, InitBuilding, InitTaking, InitAccounted,
     DoneComplete, AllComplete, PTL DEF Spec
=============================================================================
