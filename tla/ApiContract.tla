------------------------------ MODULE ApiContract ------------------------------
(***************************************************************************)
(* What a call of CPython's C API promises to the function that makes it,  *)
(* without saying which call does what: where references come from and go  *)
(* to, when the error indicator is set, and what is reported of the        *)
(* function in the end.  ApiCalls, which has every handler of              *)
(* libcpychecker/refcounts.py, implements it.                              *)
(***************************************************************************)
EXTENDS Integers

CONSTANTS Objects, NULL

VARIABLES
    attrs,      \* the function: what it returns and how it is marked
    own,        \* references to an object that the function has to give up
    lent,       \* references to an object that are known to be held elsewhere
    raised,     \* whether the error indicator is set
    answer,     \* what the last call has returned
    ended,
    complaints  \* what is reported at the return statement

vars == <<attrs, own, lent, raised, answer, ended, complaints>>

\* NULL, -1 or 0 from these leaves the error indicator as it was.
Silent ==
    {"PyDict_GetItem", "PyDict_GetItemString", "PySys_GetObject", "PyIter_Next",
     "PyMem_Malloc", "PyImport_AppendInittab", "PyRun_SimpleFileExFlags",
     "PyRun_SimpleStringFlags", "PyTraceBack_Here"}

\* These report failure with 0, the others with NULL or -1.
Parsers ==
    {"PyArg_Parse", "_PyArg_Parse_SizeT", "PyArg_ParseTuple", "_PyArg_ParseTuple_SizeT",
     "PyArg_ParseTupleAndKeywords", "_PyArg_ParseTupleAndKeywords_SizeT",
     "PyArg_UnpackTuple"}

\* These may release references that they are given, or steal them even when
\* they fail.
Releasing ==
    {"PyObject_CallFunction", "_PyObject_CallFunction_SizeT", "PyObject_CallMethod",
     "_PyObject_CallMethod_SizeT", "PyEval_CallMethod", "PyString_Concat",
     "PyString_ConcatAndDel", "marked_function"}

\* These are there to set the error indicator.
Raisers ==
    {"PyErr_Format", "PyErr_NoMemory", "PyErr_SetFromErrno",
     "PyErr_SetFromErrnoWithFilename", "PyErr_SetNone", "PyErr_SetObject",
     "PyErr_SetString", "SWIG_Python_SetErrorMsg"}

\* The function that is called.
fn == answer'.fn

Signals == IF fn \in Parsers THEN {"0"} ELSE {NULL, "-1"}

Init ==
    /\ attrs \in [pointer : BOOLEAN, iternext : BOOLEAN, sets : BOOLEAN, negative : BOOLEAN]
    /\ own = [o \in Objects |-> 0] /\ lent \in [Objects -> {0, 1}]
    /\ raised = FALSE
    /\ answer = [fn |-> "none", value |-> "void"]
    /\ ended = FALSE /\ complaints = {}

Call == ~ended /\ UNCHANGED <<attrs, ended, complaints>>

\* An object that the function did not know comes with one reference, its own
\* or a borrowed one.
Arrives(o) == own[o] = 0 /\ lent[o] = 0 /\ own'[o] + lent'[o] = 1 /\ own'[o] \in {0, 1}

\* Of the others the function never gets more; what it gives up to a call is
\* held elsewhere afterwards, unless the call is there to release it.
Passes(o) ==
    /\ own'[o] <= own[o] /\ lent'[o] >= lent[o]
    /\ fn \in Releasing \/ own'[o] + lent'[o] >= own[o] + lent[o]

Succeeds ==
    /\ Call /\ answer'.value \notin Signals
    /\ raised' = raised \/ (fn = "marked_function" /\ raised')
    /\ \A o \in Objects : Arrives(o) \/ Passes(o)
    /\ answer'.value \in Objects => Arrives(answer'.value)

\* A call that fails sets the error indicator, takes nothing and gives nothing.
Fails ==
    /\ Call /\ answer'.value \in Signals \cup {"void"}
    /\ raised'
    /\ IF fn \in Releasing THEN \A o \in Objects : Passes(o) ELSE UNCHANGED <<own, lent>>

FailsSilently ==
    /\ fn \in Silent /\ Call /\ answer'.value \in Signals
    /\ UNCHANGED <<own, lent, raised>>

Raises ==
    /\ fn \in Raisers /\ Call /\ answer'.value \in {NULL, "void"}
    /\ raised' \in BOOLEAN      \* not if it is given NULL
    /\ own' = own /\ \A o \in Objects : lent'[o] >= lent[o]

Clears ==
    /\ fn \in {"PyErr_Clear", "PyErr_Print", "PyErr_PrintEx"} /\ Call
    /\ answer'.value = "void" /\ raised' = FALSE /\ UNCHANGED <<own, lent>>

Asks ==
    /\ fn = "PyErr_Occurred" /\ Call
    /\ answer'.value = NULL <=> ~raised
    /\ UNCHANGED <<own, lent, raised>>

\* The call is wrong, does not return, or the checker itself fails.
Stops ==
    /\ ~ended /\ ended' = TRUE
    /\ UNCHANGED <<attrs, own, lent, raised, complaints>>

\* What the function that returns v without an exception has promised: to return
\* no NULL, if it returns objects; what it is marked with.
Broken(v) ==
    (IF attrs.pointer /\ v = NULL THEN {"NULL"} ELSE {})
      \cup (IF attrs.sets THEN {"sets"} ELSE {})
      \cup (IF attrs.negative /\ v = "-1" THEN {"negative"} ELSE {})

\* At its end an iterator returns NULL without an exception, as it may.  With that
\* the checker excuses it from what it is marked with too, which the attributes
\* do not provide for.
Excused(v) == attrs.iternext /\ v = NULL

\* The function returns.  Nothing is said of its exceptions if one is set, or of
\* an iterator at its end; otherwise every promise that it breaks is reported.
Returns ==
    /\ ~ended /\ ended' = TRUE /\ answer'.fn = "return"
    /\ complaints' = IF raised \/ Excused(answer'.value) THEN {} ELSE Broken(answer'.value)
    /\ UNCHANGED <<attrs, own, lent, raised>>

Next ==
    \/ Succeeds \/ Fails \/ FailsSilently
    \/ Raises \/ Clears \/ Asks
    \/ Stops \/ Returns

Spec == Init /\ [][Next]_vars

================================================================================
