----------------------------- MODULE PluginEntries -----------------------------
(***************************************************************************)
(* How GCC comes into Python code and back: callbacks of plugin events     *)
(* (gcc-python-callbacks.c), gate and execute of a pass written in Python  *)
(* (gcc-python-pass.c), handlers of attributes (gcc-python-attribute.c),   *)
(* and the script that plugin_init runs (gcc-python.c), up to Py_Finalize. *)
(*                                                                         *)
(* All of it is one thread, but entries nest: Python code may force a      *)
(* garbage collection, whose events call Python code again.  Each entry    *)
(* keeps in C locals what it must put back.                                *)
(***************************************************************************)
EXTENDS Naturals, Sequences, SequencesExt

CONSTANTS
    Closures,   \* callback closures that Python code can register
    Listened,   \* bound: the events it registers them for
    Locs,       \* source locations
    Start,      \* where the current function starts
    MaxDepth,   \* bound: how deep entries nest, GCC itself included
    MayFail,    \* whether wrapping a GCC object can run out of memory
    OnFinish,   \* the callback on_plugin_finish, which is not Python's
    BAD_EVENT   \* GCC_PYTHON_PLUGIN_BAD_EVENT

Wrapping == {"PRE_GENERICIZE", "PASS_EXECUTION", "FINISH_TYPE", "FINISH_DECL"}
Collection == <<"GGC_START", "GGC_MARKING", "GGC_END">>
Signals == Wrapping \cup {"ATTRIBUTES", "FINISH_UNIT"}
Events == Signals \cup {"GGC_START", "GGC_MARKING", "GGC_END", "FINISH"}

ASSUME EntriesAssumption ==
    /\ Listened \subseteq Events
    /\ Start \in Locs
    /\ MaxDepth \in Nat \ {0, 1} /\ MayFail \in BOOLEAN
    /\ OnFinish \notin Closures /\ BAD_EVENT \notin Events

VARIABLES
    input_location,   \* GCC's: where diagnostics are reported
    current_event,
    gil,              \* how often PyGILState_Ensure is held
    pending,          \* Python's error indicator: an exception is set
    cfun,             \* GCC's: whether a function is being compiled
    gated,            \* GCC's: whether gate said that the pass runs
    passes,           \* whether a pass of Python code is registered with GCC
    attributes,       \* whether attribute_dict and GCC know an attribute
    closure_event,    \* closure->event
    callbacks,        \* GCC's lists of callbacks
    stack,            \* GCC, and the entries that have not returned
    phase,
    due, called       \* history: callbacks of PLUGIN_FINISH, those invoked

indicators == <<input_location, current_event, gil>>
gcc == <<cfun, gated>>
tables == <<passes, attributes, closure_event, callbacks>>
history == <<due, called>>
vars == <<indicators, pending, gcc, tables, stack, phase, history>>

(***************************************************************************)
(* An entry.  saved_loc and saved_event are its C locals; place, event and *)
(* held say what the three indicators should be while its own code runs.   *)
(* fire and queue are what GCC has still to do for it before it goes on:   *)
(* events to signal, and callbacks to invoke for the last one signalled.   *)
(***************************************************************************)
Kinds == {"gcc", "script", "callback", "gate", "execute", "attribute"}

Frame == [kind : Kinds, place : Locs, event : Events \cup {BAD_EVENT}, held : Nat \ {0},
          saved_loc : Locs, saved_event : Events \cup {BAD_EVENT},
          fire : Seq(Events), queue : Seq(Closures \cup {OnFinish})]

Entry(kind, place, event, held) ==
    [kind |-> kind, place |-> place, event |-> event, held |-> held,
     saved_loc |-> input_location, saved_event |-> current_event,
     fire |-> <<>>, queue |-> <<>>]

top == Last(stack)
Depth == Len(stack)

\* GCC signals no event: the code of the innermost entry runs.
Idle == top.fire = <<>> /\ top.queue = <<>>
PythonRuns == phase \in {"running", "finishing"} /\ Idle /\ Depth > 1
GccRuns == phase = "running" /\ Idle /\ Depth = 1

\* Callbacks, gate and execute start at the top of the function, if there is one.
Override == IF cfun THEN Start ELSE input_location

Init ==
    \E loc \in Locs :
        /\ input_location = loc /\ current_event = BAD_EVENT
        /\ gil = 1 /\ pending = FALSE
        /\ cfun = FALSE /\ gated = FALSE /\ passes = FALSE /\ attributes = FALSE
        /\ closure_event = [c \in Closures |-> BAD_EVENT]
        /\ callbacks = [e \in Events |-> IF e = "FINISH" THEN <<OnFinish>> ELSE <<>>]
        /\ stack = [i \in 1..2 |->
              [kind |-> IF i = 1 THEN "gcc" ELSE "script", place |-> loc,
               event |-> BAD_EVENT, held |-> 1, saved_loc |-> loc,
               saved_event |-> BAD_EVENT, fire |-> <<>>, queue |-> <<>>]]
        /\ phase = "running" /\ due = {} /\ called = {}

-----------------------------------------------------------------------------
(* What Python code does.                                                  *)

RegisterCallback(c, e) ==
    /\ PythonRuns
    /\ closure_event[c] = BAD_EVENT
    /\ closure_event' = [closure_event EXCEPT ![c] = e]
    /\ callbacks' = [callbacks EXCEPT ![e] = <<c>> \o @]
    /\ UNCHANGED <<indicators, pending, gcc, passes, attributes, stack, phase, history>>

RegisterPass ==
    /\ PythonRuns
    /\ passes' = TRUE
    /\ UNCHANGED <<indicators, pending, gcc, attributes, closure_event, callbacks, stack,
                   phase, history>>

RegisterAttribute ==
    /\ PythonRuns
    /\ attributes' = TRUE
    /\ UNCHANGED <<indicators, pending, gcc, passes, closure_event, callbacks, stack,
                   phase, history>>

SetLocation(loc) ==
    /\ PythonRuns
    /\ input_location' = loc
    /\ stack' = [stack EXCEPT ![Depth].place = loc]
    /\ UNCHANGED <<current_event, gil, pending, gcc, tables, phase, history>>

\* A collection: forced by Python code, or begun by GCC.
Collect ==
    /\ PythonRuns \/ GccRuns
    /\ Depth < MaxDepth
    /\ stack' = [stack EXCEPT ![Depth].fire = Collection]
    /\ UNCHANGED <<indicators, pending, gcc, tables, phase, history>>

-----------------------------------------------------------------------------
(* GCC and its plugin events.                                              *)

GccMoves(loc, fun) ==
    /\ GccRuns
    /\ input_location' = loc /\ cfun' = fun
    /\ stack' = [stack EXCEPT ![1].place = loc]
    /\ UNCHANGED <<current_event, gil, pending, gated, tables, phase, history>>

Signal(e) ==
    /\ GccRuns
    /\ callbacks[e] # <<>>
    /\ stack' = [stack EXCEPT ![1].fire = <<e>>]
    /\ UNCHANGED <<indicators, pending, gcc, tables, phase, history>>

Finish ==
    /\ GccRuns /\ ~gated
    /\ phase' = "finishing"
    /\ stack' = [stack EXCEPT ![1].fire = <<"FINISH">>]
    /\ due' = ToSet(callbacks["FINISH"]) \cap Closures
    /\ UNCHANGED <<indicators, pending, gcc, tables, called>>

Fire ==
    /\ phase # "exited"
    /\ top.queue = <<>> /\ top.fire # <<>>
    /\ stack' = [stack EXCEPT ![Depth].queue = callbacks[Head(top.fire)],
                              ![Depth].fire = Tail(@)]
    /\ UNCHANGED <<indicators, pending, gcc, tables, phase, history>>

\* GCC takes the next callback in its list.
NextCallback(c) ==
    /\ phase # "exited"
    /\ top.queue # <<>> /\ Head(top.queue) = c

Dequeued == [stack EXCEPT ![Depth].queue = Tail(@)]

OnPluginFinish ==
    /\ NextCallback(OnFinish)
    /\ phase' = "finalized"
    /\ stack' = Dequeued
    /\ UNCHANGED <<indicators, pending, gcc, tables, history>>

Invoke(c) ==
    /\ NextCallback(c)
    /\ input_location' = Override
    /\ current_event' = closure_event[c]
    /\ gil' = gil + 1
    /\ stack' = Append(Dequeued, Entry("callback", Override, closure_event[c], gil + 1))
    /\ called' = IF closure_event[c] = "FINISH" THEN called \cup {c} ELSE called
    /\ UNCHANGED <<pending, gcc, tables, phase, due>>

\* The thunk's wrapper or MakeArgs fails: everything is put back, and nothing printed.
InvokeFails(c) ==
    /\ MayFail
    /\ NextCallback(c)
    /\ closure_event[c] \in Wrapping
    /\ pending' = TRUE
    /\ stack' = Dequeued
    /\ UNCHANGED <<indicators, gcc, tables, phase, history>>

-----------------------------------------------------------------------------
(* Passes and attributes.                                                  *)

CallMethod(kind) ==
    /\ input_location' = Override
    /\ stack' = Append(stack, Entry(kind, Override, current_event, gil))
    /\ UNCHANGED <<current_event, gil, pending>>

\* No gcc.Function for the method: PyGcc_PrintException, and the location is put back.
NoFunction ==
    /\ MayFail /\ cfun
    /\ pending' = FALSE
    /\ UNCHANGED <<indicators, stack>>

Gate ==
    /\ GccRuns /\ passes /\ ~gated
    /\ gated' = FALSE /\ (CallMethod("gate") \/ NoFunction)
    /\ UNCHANGED <<cfun, tables, phase, history>>

\* current_pass is NULL, or PyObject_HasAttrString finds no gate and drops its error.
Ungated ==
    /\ GccRuns /\ passes /\ ~gated
    /\ gated' = TRUE /\ pending' \in {pending, FALSE}
    /\ UNCHANGED <<indicators, cfun, tables, stack, phase, history>>

Execute ==
    /\ GccRuns /\ gated
    /\ gated' = FALSE /\ (CallMethod("execute") \/ NoFunction)
    /\ UNCHANGED <<cfun, tables, phase, history>>

HandleAttribute ==
    /\ GccRuns /\ attributes
    /\ \/ /\ stack' = Append(stack, Entry("attribute", input_location, current_event, gil + 1))
          /\ gil' = gil + 1
          /\ UNCHANGED pending
       \/ /\ MayFail /\ pending' = TRUE   \* make_args_for_attribute_callback fails
          /\ UNCHANGED <<stack, gil>>
    /\ UNCHANGED <<input_location, current_event, gcc, tables, phase, history>>

-----------------------------------------------------------------------------
(* Python code returns.                                                    *)

Restoring == {"callback", "gate", "execute"}
Ensuring == {"callback", "attribute"}

(* Mutants: the GIL is released by gate and execute too; there is no event *)
(* any more once a callback returns, though it may have been nested.       *)
LeaveReleasing ==
    /\ input_location' = top.saved_loc
    /\ current_event' = IF top.kind = "callback" THEN top.saved_event ELSE current_event
    /\ gil' = gil - 1
    /\ stack' = Front(stack)

LeaveUnnested ==
    LET loc == IF top.kind \in Restoring THEN top.saved_loc ELSE input_location
    IN  /\ input_location' = loc
        /\ current_event' = BAD_EVENT
        /\ gil' = IF top.kind \in Ensuring THEN gil - 1 ELSE gil
        /\ stack' = [Front(stack) EXCEPT ![Depth - 1].place = loc]

\* What every way out of an entry puts back.
Leave ==
    LET loc == IF top.kind \in Restoring THEN top.saved_loc ELSE input_location
    IN  /\ input_location' = loc
        /\ current_event' = IF top.kind = "callback" THEN top.saved_event ELSE current_event
        /\ gil' = IF top.kind \in Ensuring THEN gil - 1 ELSE gil
        /\ stack' = IF top.kind \in Restoring THEN Front(stack)
                    ELSE [Front(stack) EXCEPT ![Depth - 1].place = loc]

Value ==
    /\ Leave
    /\ gated' \in IF top.kind = "gate" THEN BOOLEAN ELSE {gated}
    /\ UNCHANGED <<pending, phase>>

\* PyObject_IsTrue gives -1, which impl_gate returns as a bool.
Untestable ==
    /\ top.kind = "gate" /\ Leave
    /\ gated' = TRUE /\ pending' = TRUE
    /\ UNCHANGED phase

\* PyLong_AsLong overflows, and -1 goes to GCC.
Overflow ==
    /\ top.kind = "execute" /\ Leave
    /\ pending' = TRUE
    /\ UNCHANGED <<gated, phase>>

(* Mutant: GCC's loop over the callbacks does not go on after one that     *)
(* failed.                                                                 *)
RaiseAborting ==
    /\ top.kind = "callback"
    /\ input_location' = top.saved_loc /\ current_event' = top.saved_event
    /\ gil' = gil - 1
    /\ stack' = [Front(stack) EXCEPT ![Depth - 1].queue = <<>>]
    /\ pending' = FALSE
    /\ UNCHANGED <<gated, phase>>

\* The Python code raises, or execute's result is no integer: PyGcc_PrintException.
Raise ==
    /\ top.kind # "script" /\ Leave
    /\ gated' = IF top.kind = "gate" THEN FALSE ELSE gated
    /\ pending' = FALSE
    /\ UNCHANGED phase

\* The script fails, or PyErr_PrintEx prints a SystemExit: the process exits.
Exit ==
    /\ phase' = "exited"
    /\ UNCHANGED <<indicators, pending, gated, stack>>

\* Mutant: plugin_init registers on_plugin_finish only after the script has run.
ReturnRegistering(d) ==
    /\ PythonRuns /\ Depth = d
    /\ Value
    /\ callbacks' = IF top.kind = "script"
                    THEN [callbacks EXCEPT !["FINISH"] = <<OnFinish>> \o @] ELSE callbacks
    /\ UNCHANGED <<cfun, passes, attributes, closure_event, history>>

Return(d) ==
    /\ PythonRuns /\ Depth = d
    /\ Value \/ Untestable \/ Overflow \/ Raise \/ Exit
    /\ UNCHANGED <<cfun, tables, history>>

Ended ==
    /\ phase = "exited" \/ (phase = "finalized" /\ Idle)
    /\ UNCHANGED vars

Next ==
    \/ \E c \in Closures, e \in Listened : RegisterCallback(c, e)
    \/ \E loc \in Locs : SetLocation(loc)
    \/ \E loc \in Locs, fun \in BOOLEAN : GccMoves(loc, fun)
    \/ \E e \in Signals : Signal(e)
    \/ \E c \in Closures : Invoke(c) \/ InvokeFails(c)
    \/ \E d \in 2..MaxDepth : Return(d)
    \/ RegisterPass \/ RegisterAttribute \/ Collect \/ Finish \/ Fire \/ OnPluginFinish
    \/ Gate \/ Ungated \/ Execute \/ HandleAttribute \/ Ended

\* Python code returns from each entry, and GCC comes to the end of what it compiles.
Fairness ==
    /\ WF_vars(Fire) /\ WF_vars(OnPluginFinish)
    /\ WF_vars(\E c \in Closures : Invoke(c) \/ InvokeFails(c))
    /\ \A d \in 2..MaxDepth : SF_vars(Return(d))
    /\ SF_vars(Execute) /\ SF_vars(Finish)

Spec == Init /\ [][Next]_vars /\ Fairness

-----------------------------------------------------------------------------
\* Every variable keeps its type; the bottom of the stack is GCC itself.
TypeOK ==
    /\ input_location \in Locs /\ current_event \in Events \cup {BAD_EVENT}
    /\ gil \in Nat \ {0} /\ pending \in BOOLEAN
    /\ cfun \in BOOLEAN /\ gated \in BOOLEAN /\ passes \in BOOLEAN /\ attributes \in BOOLEAN
    /\ closure_event \in [Closures -> Events \cup {BAD_EVENT}]
    /\ callbacks \in [Events -> Seq(Closures \cup {OnFinish})]
    /\ stack \in Seq(Frame) /\ stack # <<>>
    /\ \A i \in 1..Depth : stack[i].kind = "gcc" <=> i = 1
    /\ phase \in {"running", "finishing", "finalized", "exited"}
    /\ due \subseteq Closures /\ called \subseteq Closures

(***************************************************************************)
(* Whatever entries come and go in between, by whichever way out, the code *)
(* that runs finds the location it or its entry chose (so that an error is *)
(* reported where docs/basics.rst says), the event it is in (which         *)
(* gcc.define_macro asks for) and the GIL held as often as it took it.     *)
(***************************************************************************)
Restored ==
    /\ input_location = top.place
    /\ current_event = top.event
    /\ gil = top.held

\* Once on_plugin_finish has finalized Python, GCC has no callback left to invoke.
FinalizedLast ==
    phase = "finalized" => Depth = 1 /\ Idle

\* on_plugin_finish finalizes Python only after every PLUGIN_FINISH callback.
FinishersCalled ==
    phase = "finalized" => due \subseteq called

\* FinishesInOrder: Python is finalized after the last of its callbacks, and not
\* before any that PLUGIN_FINISH should have invoked, whatever the others raise.
FinishesInOrder == FinalizedLast /\ FinishersCalled

\* However entries nest, compilation ends with Python finalized or the process gone.
Ends == <>(phase \in {"finalized", "exited"})
=============================================================================
