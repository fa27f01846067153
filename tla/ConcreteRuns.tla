----------------------------- MODULE ConcreteRuns -----------------------------
(***************************************************************************)
(* What the functions analysed by iter_traces really do: the reference the *)
(* abstract search is judged by, independent of the checker's code.  In a  *)
(* run every variable has a definite value, every call and allocation a    *)
(* definite result.  The properties relating the two are here as well.     *)
(***************************************************************************)
EXTENDS IterTraces

\* A configuration: the node about to execute, and the value of each variable.
CondTrue(k) == k \in {"null", "neg"}
Results(v) == IF v \in PtrVars THEN {"null", "nonnull"} ELSE {"neg", "nonneg"}

InitConfigs(h) ==
    {c \in [node : {h.entry}, env : [Vars -> Kinds \ {"unknown"}]] :
        \A v \in Vars : c.env[v] \in IF v \in Parms THEN Results(v) ELSE {"uninit"}}

\* The run stops at this configuration, and how: "none" if it goes on.
StopAt(h, c) ==
    LET st == h.stmt[c.node]
        k  == c.env[st.rhs]
    IN  CASE st.op \in {"return", "exit"} -> st.op
          [] st.op \in {"deref", "cond", "pass"} /\ k = "uninit" -> "uninit"
          [] st.op = "deref" /\ k = "null" -> "null"
          [] st.op \in {"none", "switch"} /\ h.succs[c.node] = <<>> -> "fellout"
          [] OTHER -> "none"

\* The configurations that may follow, for a run that goes on.
Follow(h, c) ==
    LET st == h.stmt[c.node]
        to(i) == h.succs[c.node][i]
        set(ks) == {[node |-> to(1), env |-> [c.env EXCEPT ![st.lhs] = k]] : k \in ks}
        goto(i) == [c EXCEPT !.node = to(i)]
    IN  CASE st.op \in {"none", "switch"} -> {goto(i) : i \in 1..Len(h.succs[c.node])}
          [] st.op \in {"nop", "deref"} -> {goto(1)}
          [] st.op = "null"   -> set({"null"})
          [] st.op = "addr"   -> set({"nonnull"})
          [] st.op = "assign" -> set({c.env[st.rhs]})
          [] st.op \in {"newref", "call", "pass", "callneg"} -> set(Results(st.lhs))
          [] st.op = "cond"   -> {IF CondTrue(c.env[st.rhs]) THEN goto(1) ELSE goto(2)}

-----------------------------------------------------------------------------
\* The states that a trace goes through, its initial one included.
Path(t) == <<InitState(g)>> \o t.states

\* Which visit to a node the i-th state belongs to: a split, a return and a call
\* that does not return stay where they are.
Visit(ss, i) == 1 + Cardinality({j \in 1..(i - 1) : ss[j].node # ss[j + 1].node})

\* The variables vs have the values that the state gives them, if it does.
Agrees(s, c, vs) ==
    /\ s.node = c.node
    /\ \A v \in vs : s.store[v].kind \in {"unknown", c.env[v]}

Outcome(t) ==
    LET s == CurState(t)
    IN  IF t.err # NoError THEN t.err.kind
        ELSE IF s.has_returned THEN "return"
        ELSE IF s.not_returning THEN "exit" ELSE "fellout"

\* A trace covers a run if it tells its story: the same visits, values it has
\* not got wrong, the same end.
Covers(t, r) ==
    LET ss == Path(t)
    IN  /\ Visit(ss, Len(ss)) = Len(r)
        /\ \A i \in 1..Len(ss) : Agrees(ss[i], r[Visit(ss, i)], Vars)
        /\ StopAt(g, Last(r)) = Outcome(t)

\* No edge between two blocks is taken twice, on the way through ss.
LoopFree(ss) ==
    LET bb(i) == g.bb[ss[i].node]
    IN  \A i, j \in 1..(Len(ss) - 1) :
            bb(i) # bb(i + 1) /\ <<bb(i), bb(i + 1)>> = <<bb(j), bb(j + 1)>> => i = j

\* The runs that have stopped without going round a loop, in at most n steps.
LoopFreeRuns(n) ==
    LET Grow[k \in 0..n] ==
            IF k = 0 THEN {<<c>> : c \in InitConfigs(g)}
            ELSE {r \in UNION {IF StopAt(g, Last(r)) # "none" THEN {r}
                               ELSE {Append(r, c) : c \in Follow(g, Last(r))} :
                                  r \in Grow[k - 1]} : LoopFree(r)}
    IN  {r \in Grow[n] : StopAt(g, Last(r)) # "none"}

\* What a run does while a trace goes from one state to the next: a split, a
\* return and a call that does not return leave it where it is.
Onward(s, d, c) ==
    IF d.node = s.node THEN {c}
    ELSE IF StopAt(g, c) = "none" THEN Follow(g, c) ELSE {}

\* The configurations at the end of the runs that go through the states ss, if
\* only runs count in which the variables told[i] are what the i-th state says.
RunsAlong(ss, told) ==
    LET Upto[i \in 1..Len(ss)] ==
            {c \in IF i = 1 THEN InitConfigs(g)
                   ELSE UNION {Onward(ss[i - 1], ss[i], d) : d \in Upto[i - 1]} :
                Agrees(ss[i], c, told[i])}
    IN  Upto[Len(ss)]

-----------------------------------------------------------------------------
\* Complete: if the user is not told that paths are missing, every run of the
\* function that does not loop is covered by a trace (iter_traces: "returning
\* a list of Trace instances", all of them), and by one only, so that nothing
\* is reported twice.
Complete ==
    pc = "done" /\ ~complicated =>
        \A r \in LoopFreeRuns(limits.maxtrans + 1) :
            Cardinality({i \in 1..Len(traces) : Covers(traces[i], r)}) = 1

\* The search learns nothing from a test of an unknown pointer parameter.
Blind(s) ==
    LET st == g.stmt[s.node]
    IN  st.op = "cond" /\ ~SplitsAtCond(st.rhs) /\ s.store[st.rhs].kind = "unknown"

\* Feasible: every trace reported, also of an analysis that was cut short, is
\* one the function can really take, unless a blind test is on its way: after
\* a split all copies of the value are told apart the same way.
Feasible ==
    pc = "done" =>
        \A t \in Range(traces) :
            (\A i \in 1..Len(Path(t)) : ~Blind(Path(t)[i])) =>
                \E c \in RunsAlong(Path(t), [i \in 1..Len(Path(t)) |-> Vars]) :
                    StopAt(g, c) = Outcome(t)

\* The errors that impl_check_refcounts reports by default.
Definite(t) == t.err # NoError /\ t.err.isdefinite

\* What an allocation gave: the variable that the state before was to set by it.
Allocated(ss, i) ==
    IF i > 1 /\ g.stmt[ss[i - 1].node].op = "newref"
    THEN {g.stmt[ss[i - 1].node].lhs} ELSE {}

\* DefiniteIsInevitable: an error reported as definite happens in every run
\* that comes the same way with the same allocations failing: it never rests
\* on the checker having supposed an unknown pointer to be NULL
\* (raise_any_null_ptr_deref: "then we're only considering the possibility
\* that this pointer was NULL; we don't know for sure that it was").
DefiniteIsInevitable ==
    pc = "done" =>
        \A t \in Range(traces) :
            Definite(t) =>
                \A c \in RunsAlong(Path(t), [i \in 1..Len(Path(t)) |-> Allocated(Path(t), i)]) :
                    StopAt(g, c) = t.err.kind
=============================================================================
