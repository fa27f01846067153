------------------------------ MODULE IterTraces ------------------------------
(***************************************************************************)
(* iter_traces of libcpychecker/absinterp.py: the depth-first search of    *)
(* the tree of abstract states of one function, with its Limits, its loop  *)
(* detection and the TooComplicated exception that unwinds it; and the     *)
(* caller, impl_check_refcounts, that receives the traces.                 *)
(*                                                                         *)
(* Python's call stack is the variable stack, one frame per active call    *)
(* that has a list of transitions to try; pc says what the interpreter     *)
(* does next and val what it passes on: the prefix of a call, the list a   *)
(* call returns, or the complete_traces of the exception on its way up.    *)
(***************************************************************************)
EXTENDS AbstractState, SequencesExt

CONSTANT MaxTransOptions    \* the values of maxtrans considered

ASSUME MaxTransAssumption == MaxTransOptions \subseteq Nat

VARIABLES
    g,          \* the StmtGraph analysed
    limits,     \* the Limits: maxtrans, and trans_seen so far
    stack,      \* the active calls, outermost first
    pc,         \* "call", "loop", "return", "raise" or "done"
    val,        \* the traces being passed: see above
    traces,     \* what impl_check_refcounts has in hand at the end
    complicated \* whether it was told that paths are missing

vars == <<g, limits, stack, pc, val, traces, complicated>>

-----------------------------------------------------------------------------
(***************************************************************************)
(* Traces.  tail is the block of the source of the last transition, which  *)
(* is not always the block of the state before it: a transition made by    *)
(* process_splittable_transitions starts at a state outside the trace.     *)
(***************************************************************************)
BlockPairs == Blocks \X Blocks

Traces == [states : Seq(States), tail : Blocks, paths_taken : Seq(BlockPairs),
           err : Errors]

EmptyTrace == [states |-> <<>>, tail |-> g.bb[g.entry], paths_taken |-> <<>>,
               err |-> NoError]

\* Trace.add, on a copy.
Add(t, tr) ==
    LET src  == g.bb[tr.src]
        dest == g.bb[tr.dest.node]
    IN  [t EXCEPT !.states = Append(@, tr.dest),
                  !.tail = src,
                  !.paths_taken = IF src # dest THEN Append(@, <<src, dest>>) ELSE @]

\* The initial state is analysed but never enters the trace.
CurState(t) == IF t.states = <<>> THEN InitState(g) ELSE Last(t.states)

\* Mutant of HasLooped: the last crossing is compared with itself too.
HasLoopedAtOnce(t) ==
    /\ t.states # <<>>
    /\ ~CurState(t).fromsplit /\ ~CurState(t).not_returning
    /\ t.tail # g.bb[CurState(t).node]
    /\ <<t.tail, g.bb[CurState(t).node]>> \in Range(t.paths_taken)

\* Trace.has_looped, which the first call does not ask.
HasLooped(t) ==
    LET cur  == CurState(t)
        pair == <<t.tail, g.bb[cur.node]>>
    IN  /\ t.states # <<>>
        /\ ~cur.fromsplit /\ ~cur.not_returning
        /\ t.tail # g.bb[cur.node]
        /\ \E i \in 1..(Len(t.paths_taken) - 1) : t.paths_taken[i] = pair

Terminated(s) == s.has_returned \/ s.not_returning

-----------------------------------------------------------------------------
Frames == [prefix : Traces, todo : Seq(Transitions), result : Seq(Traces)]

Top == Last(stack)
Pop == Front(stack)

Init ==
    /\ g \in Programs
    /\ \E m \in MaxTransOptions : limits = [maxtrans |-> m, trans_seen |-> 0]
    /\ stack = <<>>
    /\ pc = "call" /\ val = <<EmptyTrace>>
    /\ traces = <<>> /\ complicated = FALSE

\* The call hands a list of traces back to its caller.
Return(ts) ==
    /\ pc' = "return" /\ val' = ts
    /\ UNCHANGED <<g, limits, stack, traces, complicated>>

\* A call on a prefix that is complete.
CallTerminated ==
    /\ pc = "call"
    /\ Terminated(CurState(val[1]))
    /\ Return(val)

\* A call on a prefix that has gone round a loop: the prefix is dropped.
CallLooped ==
    /\ pc = "call"
    /\ ~Terminated(CurState(val[1])) /\ HasLooped(val[1])
    /\ Return(<<>>)

\* A call whose statement is going to be interpreted.
Interprets == pc = "call" /\ ~Terminated(CurState(val[1])) /\ ~HasLooped(val[1])

\* The statement fails: the trace ends with the error.
CallPredictedError ==
    /\ Interprets
    /\ ErrorAt(g, CurState(val[1])) # NoError
    /\ Return(<<[val[1] EXCEPT !.err = ErrorAt(g, CurState(val[1]))]>>)

\* The state has transitions: the loop over them starts.
CallExpand ==
    /\ Interprets
    /\ ErrorAt(g, CurState(val[1])) = NoError
    /\ GetTransitions(g, CurState(val[1])) # <<>>
    /\ stack' = Append(stack, [prefix |-> val[1],
                               todo |-> GetTransitions(g, CurState(val[1])),
                               result |-> <<>>])
    /\ pc' = "loop" /\ val' = <<>>
    /\ UNCHANGED <<g, limits, traces, complicated>>

\* There is nowhere to go: the trace is finished.
CallNoTransitions ==
    /\ Interprets
    /\ ErrorAt(g, CurState(val[1])) = NoError
    /\ GetTransitions(g, CurState(val[1])) = <<>>
    /\ Return(val)

\* The loop takes the next transition, within the limits: a recursive call.
LoopRecurse ==
    /\ pc = "loop" /\ Top.todo # <<>>
    /\ limits.trans_seen < limits.maxtrans
    /\ limits' = [limits EXCEPT !.trans_seen = @ + 1]
    /\ stack' = Append(Pop, [Top EXCEPT !.todo = Tail(@)])
    /\ pc' = "call" /\ val' = <<Add(Top.prefix, Head(Top.todo))>>
    /\ UNCHANGED <<g, traces, complicated>>

\* Mutant of LoopTooComplicated: the exception gets a list of lists.
LoopTooComplicatedNested ==
    /\ pc = "loop" /\ Top.todo # <<>>
    /\ limits.trans_seen >= limits.maxtrans
    /\ limits' = [limits EXCEPT !.trans_seen = @ + 1]
    /\ stack' = Pop
    /\ pc' = "raise" /\ val' = <<Top.result>>
    /\ UNCHANGED <<g, traces, complicated>>

\* Mutant of LoopTooComplicated: the interrupted prefix is thrown in.
LoopTooComplicatedPartial ==
    /\ pc = "loop" /\ Top.todo # <<>>
    /\ limits.trans_seen >= limits.maxtrans
    /\ limits' = [limits EXCEPT !.trans_seen = @ + 1]
    /\ stack' = Pop
    /\ pc' = "raise" /\ val' = Append(Top.result, Top.prefix)
    /\ UNCHANGED <<g, traces, complicated>>

\* The next transition exceeds the limits: TooComplicated leaves the frame
\* from outside its try statement, with the frame's own result.
LoopTooComplicated ==
    /\ pc = "loop" /\ Top.todo # <<>>
    /\ limits.trans_seen >= limits.maxtrans
    /\ limits' = [limits EXCEPT !.trans_seen = @ + 1]
    /\ stack' = Pop
    /\ pc' = "raise" /\ val' = Top.result
    /\ UNCHANGED <<g, traces, complicated>>

LoopEnd ==
    /\ pc = "loop" /\ Top.todo = <<>>
    /\ stack' = Pop
    /\ pc' = "return" /\ val' = Top.result
    /\ UNCHANGED <<g, limits, traces, complicated>>

\* The recursive call has returned: its traces join the caller's result.
Receive ==
    /\ pc = "return" /\ stack # <<>>
    /\ stack' = Append(Pop, [Top EXCEPT !.result = @ \o val])
    /\ pc' = "loop" /\ val' = <<>>
    /\ UNCHANGED <<g, limits, traces, complicated>>

\* Mutant of Propagate: the caller's own traces do not join the exception.
PropagateForgetful ==
    /\ pc = "raise" /\ stack # <<>>
    /\ stack' = Pop
    /\ UNCHANGED <<g, limits, pc, val, traces, complicated>>

\* The recursive call has raised: the caller's result joins the exception.
Propagate ==
    /\ pc = "raise" /\ stack # <<>>
    /\ stack' = Pop
    /\ val' = val \o Top.result
    /\ UNCHANGED <<g, limits, pc, traces, complicated>>

\* Mutant of Deliver: the exception is not caught.
DeliverUncaught ==
    /\ pc = "return" /\ stack = <<>>
    /\ traces' = val /\ complicated' = FALSE
    /\ pc' = "done" /\ val' = <<>>
    /\ UNCHANGED <<g, limits, stack>>

\* impl_check_refcounts receives the list, or catches the exception, tells the
\* user that paths are missing, and goes on with the traces that there are.
Deliver ==
    /\ pc \in {"return", "raise"} /\ stack = <<>>
    /\ traces' = val /\ complicated' = (pc = "raise")
    /\ pc' = "done" /\ val' = <<>>
    /\ UNCHANGED <<g, limits, stack>>

Next ==
    \/ CallTerminated \/ CallLooped \/ CallPredictedError
    \/ CallExpand \/ CallNoTransitions
    \/ LoopRecurse \/ LoopTooComplicated \/ LoopEnd
    \/ Receive \/ Propagate \/ Deliver

\* The interpreter keeps running: nothing it waits for.
Spec == Init /\ [][Next]_vars /\ WF_vars(Next)

-----------------------------------------------------------------------------
TypeOK ==
    /\ g \in StmtGraphs
    /\ limits \in [maxtrans : MaxTransOptions, trans_seen : Nat]
    /\ stack \in Seq(Frames)
    /\ pc \in {"call", "loop", "return", "raise", "done"}
    /\ val \in Seq(Traces) /\ traces \in Seq(Traces)
    /\ complicated \in BOOLEAN

\* The traces known to be complete: those in the results of the active calls,
\* those being returned or raised, those delivered.
ResultsOf(frames) == UNION {Range(frames[i].result) : i \in 1..Len(frames)}

Held ==
    ResultsOf(stack)
      \cup (IF pc \in {"return", "raise"} THEN Range(val) ELSE {})
      \cup Range(traces)

\* NothingLost: no step of the search, the unwinding of TooComplicated
\* included, forgets a trace that was complete (iter_traces: "we should at
\* least capture an incomplete list of paths").
NothingLost == [][Held \subseteq Held']_vars

\* A trace that fully captures one path: it fails, returns, calls a function
\* that does not return, or has nowhere to go.
IsComplete(t) ==
    \/ t.err # NoError
    \/ Terminated(CurState(t))
    \/ GetTransitions(g, CurState(t)) = <<>>

\* No prefix of a path is ever reported as a trace, not even when the search is
\* interrupted (TooComplicated: "each of which is "complete" in
\* the sense that it fully captures one path through the function").
OnlyComplete == \A t \in Held : IsComplete(t)

\* The budget of transitions is never exceeded by more than the one that trips
\* it, after which nothing is explored; the caller hears that paths are missing
\* exactly if it was tripped.
LimitsRespected ==
    /\ limits.trans_seen <= limits.maxtrans + 1
    /\ pc \in {"call", "loop"} => limits.trans_seen <= limits.maxtrans
    /\ pc = "done" => (complicated <=> limits.trans_seen > limits.maxtrans)

\* StopsCleanly: when the limit trips in the middle of the search, nothing more
\* is explored, the caller is told, and what it is given are whole paths.
StopsCleanly == LimitsRespected /\ OnlyComplete

\* Terminates: whatever loops the function has, the analysis ends.
Terminates == <>(pc = "done")
=============================================================================
