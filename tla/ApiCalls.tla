-------------------------------- MODULE ApiCalls --------------------------------
(***************************************************************************)
(* The handlers of libcpychecker/refcounts.py for CPython's C API, one     *)
(* operator for each, along one path of one function: what the call may    *)
(* answer, and what it does to the references of the objects and to the    *)
(* error indicator.  What the objects hold (the fields, the slots of lists *)
(* and tuples, with PyList_Append and PyTuple_SetItem) is left to          *)
(* RefcountFacet.                                                          *)
(*                                                                         *)
(* An argument is NULL or an object; the pointers are those for which the  *)
(* checker has already split the analysis.                                 *)
(***************************************************************************)
EXTENDS Integers, FiniteSets

CONSTANTS
    Objects,
    Blocks,      \* blocks of memory
    ArgChoices,  \* the sets of objects and blocks that the function may be given
    MaxCalls,    \* bound: calls on the path
    MaxVarargs,  \* bound: arguments for a format, and for PyArg_UnpackTuple
    NULL

Types   == {"PyString_Type", "PyFloat_Type", "PyInt_Type", "PyTuple_Type", "other"}
Answers == {"0", "1", "-1", "size", "unknown", "pointer", "void"}

ASSUME ConstantsAssumption ==
    /\ IsFiniteSet(Objects) /\ IsFiniteSet(Blocks)
    /\ ArgChoices \subseteq SUBSET (Objects \cup Blocks)
    /\ MaxCalls \in Nat /\ MaxVarargs \in Nat
    /\ NULL \notin Objects \cup Blocks \cup Answers \cup {"PyExc"}
    /\ Objects \cap Blocks = {}
    /\ (Objects \cup Blocks) \cap (Answers \cup {"PyExc"}) = {}

VARIABLES
    attrs,      \* the function: what it returns and how it is marked
    known,      \* objects of the path: the type the checker knows them to have
    tracked,    \* objects in region_for_var, where their references are checked
    rel, ext,   \* RefcountValue: relvalue and external.minvalue
    exception,  \* whether exception_rvalue is non-NULL
    has_gil,
    memory,     \* the blocks: "absent", "allocated" or "deallocated"
    answer,     \* the last call and what it has returned
    pc,         \* "run", or how the path ends
    complaints, \* reports made at the return statement
    calls

refs == <<known, tracked, rel, ext>>
vars == <<attrs, refs, exception, has_gil, memory, answer, pc, complaints, calls>>

Seen      == {o \in Objects : known[o] # "absent"}
Values    == Seen \cup {NULL}
ExcValues == Values \cup {"PyExc"}  \* an exception class, or whatever is passed as one

Init ==
    /\ attrs \in [pointer : BOOLEAN, iternext : BOOLEAN, sets : BOOLEAN, negative : BOOLEAN]
    /\ attrs.iternext => attrs.pointer
    /\ attrs.negative => ~attrs.pointer
    /\ \E A \in ArgChoices :
           /\ known = [o \in Objects |-> IF o \in A THEN "other" ELSE "absent"]
           /\ tracked = A \cap Objects
           /\ ext = [o \in Objects |-> IF o \in A THEN 1 ELSE 0]
           /\ memory = [b \in Blocks |-> IF b \in A THEN "allocated" ELSE "absent"]
    /\ rel = [o \in Objects |-> 0]
    /\ exception = FALSE /\ has_gil = TRUE
    /\ answer = [fn |-> "none", value |-> "void"]
    /\ pc = "run" /\ complaints = {} /\ calls = 0

-----------------------------------------------------------------------------
(***************************************************************************)
(* The outcomes that the handlers are made of.                             *)
(***************************************************************************)
CanCall == pc = "run" /\ calls < MaxCalls

Called(fn, v) ==
    /\ CanCall /\ calls' = calls + 1
    /\ answer' = [fn |-> fn, value |-> v]
    /\ UNCHANGED <<attrs, complaints>>

Continues(fn, v) == Called(fn, v) /\ UNCHANGED <<has_gil, memory, pc>>

\* The call answers v, and nothing else happens.
Gives(fn, v) == Continues(fn, v) /\ UNCHANGED <<refs, exception>>

\* An exception is set.
Fails(fn, v) == Continues(fn, v) /\ UNCHANGED refs /\ exception' = TRUE

Adds(o, type, r, e) ==
    /\ known' = [known EXCEPT ![o] = type] /\ tracked' = tracked \cup {o}
    /\ rel' = [rel EXCEPT ![o] = r] /\ ext' = [ext EXCEPT ![o] = e]

NewRef(fn, type) ==
    \E o \in Objects \ Seen :
        Continues(fn, o) /\ Adds(o, type, 1, 0) /\ UNCHANGED exception

BorrowedRef(fn) ==
    \E o \in Objects \ Seen :
        Continues(fn, o) /\ Adds(o, "other", 0, 1) /\ UNCHANGED exception

ObjectCtor(fn, type) == NewRef(fn, type) \/ Fails(fn, NULL)

NewRefOrFail(fn) == ObjectCtor(fn, "other")

BorrowedRefOrFail(fn) == BorrowedRef(fn) \/ Fails(fn, NULL)

ZeroOrFail(fn) == Gives(fn, "0") \/ Fails(fn, "-1")

Ends(fn, how) ==
    /\ Called(fn, "void") /\ pc' = how
    /\ UNCHANGED <<refs, exception, has_gil, memory>>

\* Mutant of NullError: the error indicator is left as it was.
NullErrorQuiet(fn, v, r) == v = NULL /\ Gives(fn, r)

\* null_error(): SystemError, unless an exception is set already.
NullError(fn, v, r) == v = NULL /\ Fails(fn, r)

\* A NULL argument that the call would read through: the path ends.
Crashes(fn, args) == NULL \in args /\ Ends(fn, "error")

\* The handler asks for the type of the result, of which a call that is a
\* statement of its own has none: the checker fails with an AttributeError.
NoLhs(fn) == Ends(fn, "AttributeError")

\* Mutant of Keeps: the two are swapped.
KeepsSwapped(kept, lost) ==
    /\ ext' = [o \in Objects |-> ext[o] - lost[o]]
    /\ rel' = [o \in Objects |-> rel[o] + kept[o]]
    /\ UNCHANGED <<known, tracked>>

\* References, by argument: how many are kept elsewhere, and how many the
\* function gives up.
Keeps(kept, lost) ==
    /\ ext' = [o \in Objects |-> ext[o] + kept[o]]
    /\ rel' = [o \in Objects |-> rel[o] - lost[o]]
    /\ UNCHANGED <<known, tracked>>

\* object_ptr_has_global_ob_type.
IsA(v, type) == v \in Seen /\ known[v] = type

Only(S) == [o \in Objects |-> IF o \in S THEN 1 ELSE 0]

-----------------------------------------------------------------------------
(***************************************************************************)
(* Functions of the checker itself, for tests.                             *)
(***************************************************************************)
impl___cpychecker_log      == Gives("__cpychecker_log", "unknown")
impl___cpychecker_dump     == Gives("__cpychecker_dump", "unknown")
impl___cpychecker_dump_all == Gives("__cpychecker_dump_all", "unknown")

impl___cpychecker_assert_equal ==
    \E x, y \in Values :
        IF x = y THEN Gives("__cpychecker_assert_equal", "unknown")
        ELSE Ends("__cpychecker_assert_equal", "AssertionError")

-----------------------------------------------------------------------------
(***************************************************************************)
(* PyArg_*.  The objects, one for each "O" or "O!", are made in the state  *)
(* before the call, so that the state after it has pointers to objects     *)
(* whose references it does not track.                                     *)
(***************************************************************************)
ParsesArgs(fn) ==
    \/ Fails(fn, "0")
    \/ \E S \in SUBSET (Objects \ Seen) :  \* {}: no objects, or the format is not understood
           /\ Continues(fn, "1")
           /\ known' = [o \in Objects |-> IF o \in S THEN "other" ELSE known[o]]
           /\ ext' = [o \in Objects |-> IF o \in S THEN 1 ELSE ext[o]]
           /\ UNCHANGED <<rel, tracked, exception>>

impl_PyArg_Parse                         == ParsesArgs("PyArg_Parse")
impl__PyArg_Parse_SizeT                  == ParsesArgs("_PyArg_Parse_SizeT")
impl_PyArg_ParseTuple                    == ParsesArgs("PyArg_ParseTuple")
impl__PyArg_ParseTuple_SizeT             == ParsesArgs("_PyArg_ParseTuple_SizeT")
impl_PyArg_ParseTupleAndKeywords         == ParsesArgs("PyArg_ParseTupleAndKeywords")
impl__PyArg_ParseTupleAndKeywords_SizeT  == ParsesArgs("_PyArg_ParseTupleAndKeywords_SizeT")

\* Every number of arguments from the minimum to the maximum is followed.
impl_PyArg_UnpackTuple ==
    \/ Ends("PyArg_UnpackTuple", "error")     \* WrongNumberOfVarargs
    \/ Fails("PyArg_UnpackTuple", "0")
    \/ \E S \in SUBSET (Objects \ Seen) :
           /\ Cardinality(S) <= MaxVarargs
           /\ Continues("PyArg_UnpackTuple", "1")
           /\ known' = [o \in Objects |-> IF o \in S THEN "other" ELSE known[o]]
           /\ tracked' = tracked \cup S
           /\ ext' = [o \in Objects |-> IF o \in S THEN 1 ELSE ext[o]]
           /\ UNCHANGED <<rel, exception>>

impl_Py_AtExit == Gives("Py_AtExit", "unknown") \/ NoLhs("Py_AtExit")

impl_PyBool_FromLong == NewRef("PyBool_FromLong", "other")

-----------------------------------------------------------------------------
(***************************************************************************)
(* Py_BuildValue and the functions that build the arguments of a call with *)
(* it: an "O" or "S" takes a new reference, an "N" takes over the one that *)
(* it is given, and with a NULL there is no result.                        *)
(***************************************************************************)
FormatArgs == UNION {[1..n -> {"S", "O", "N"} \X Values] : n \in 0..MaxVarargs}

HasNull(args) == \E i \in DOMAIN args : args[i][2] = NULL

\* How often an object is passed for a unit of codes, before the first NULL.
Passed(args, codes) ==
    [o \in Objects |-> Cardinality({i \in DOMAIN args :
        /\ args[i][1] \in codes /\ args[i][2] = o
        /\ \A j \in 1..i : args[j][2] # NULL})]

BuildsValue(fn) ==
    \/ NewRefOrFail(fn)     \* the format is not a constant, or is not understood
    \/ /\ CanCall
       /\ \E args \in FormatArgs :
           \/ Fails(fn, NULL)
           \/ /\ ~HasNull(args)
              /\ \E o \in Objects \ Seen :
                     /\ Continues(fn, o)
                     /\ LET kept == Passed(args, {"S", "O", "N"})
                            lost == Passed(args, {"N"})
                        IN  /\ ext' = [x \in Objects |-> IF x = o THEN 0 ELSE ext[x] + kept[x]]
                            /\ rel' = [x \in Objects |-> IF x = o THEN 1 ELSE rel[x] - lost[x]]
                     /\ known' = [known EXCEPT ![o] = "other"]
                     /\ tracked' = tracked \cup {o} /\ UNCHANGED exception

impl_Py_BuildValue        == BuildsValue("Py_BuildValue")
impl__Py_BuildValue_SizeT == BuildsValue("_Py_BuildValue_SizeT")

\* The built arguments are dropped after the call: all that remains is that the
\* references for an "N" are released, when the call fails as well.
CallsWithFormat(fn) ==
    \/ NewRefOrFail(fn)
    \/ /\ CanCall
       /\ \E args \in FormatArgs :
           LET lost == Passed(args, {"N"})
           IN  \/ /\ Continues(fn, NULL) /\ exception' = TRUE
                  /\ Keeps(Only({}), lost)
               \/ /\ ~HasNull(args)
                  /\ \E o \in Objects \ Seen :
                         /\ Continues(fn, o)
                         /\ rel' = [x \in Objects |-> IF x = o THEN 1 ELSE rel[x] - lost[x]]
                         /\ known' = [known EXCEPT ![o] = "other"]
                         /\ tracked' = tracked \cup {o} /\ UNCHANGED <<ext, exception>>

\* A missing NULL after the arguments is a warning that GCC is given at once.
CallsWithObjArgs(fn) == NewRefOrFail(fn)

-----------------------------------------------------------------------------
impl_PyCallable_Check == Gives("PyCallable_Check", "1") \/ Gives("PyCallable_Check", "0")

impl_PyCapsule_GetPointer ==
    \/ Gives("PyCapsule_GetPointer", "unknown") \/ Fails("PyCapsule_GetPointer", NULL)
    \/ NoLhs("PyCapsule_GetPointer")

impl_PyCObject_AsVoidPtr == Gives("PyCObject_AsVoidPtr", "unknown")

\* The warning about PyCObject may be turned into an exception.
mktrans_cobject_deprecation_warning(fn) == Fails(fn, NULL)

impl_PyCObject_FromVoidPtr ==
    \/ ObjectCtor("PyCObject_FromVoidPtr", "other")
    \/ mktrans_cobject_deprecation_warning("PyCObject_FromVoidPtr")

impl_PyCObject_FromVoidPtrAndDesc ==
    \/ ObjectCtor("PyCObject_FromVoidPtrAndDesc", "other")
    \/ mktrans_cobject_deprecation_warning("PyCObject_FromVoidPtrAndDesc")

impl_PyCode_New == ObjectCtor("PyCode_New", "other")

-----------------------------------------------------------------------------
(***************************************************************************)
(* PyDict_*.                                                               *)
(***************************************************************************)
impl_PyDict_GetItem ==
    \E mp, key \in Values :
        \/ Crashes("PyDict_GetItem", {mp, key})
        \/ /\ NULL \notin {mp, key}
           /\ BorrowedRef("PyDict_GetItem") \/ Gives("PyDict_GetItem", NULL)

impl_PyDict_GetItemString ==
    \E dp \in Values, key \in {"pointer", NULL} :
        \/ Crashes("PyDict_GetItemString", {dp, key})
        \/ /\ NULL \notin {dp, key}
           /\ BorrowedRef("PyDict_GetItemString") \/ Gives("PyDict_GetItemString", NULL)

impl_PyDict_New == ObjectCtor("PyDict_New", "other")

\* The dictionary takes a reference to the item; that it takes one to the key
\* is not followed.
SetsItem(fn, item) ==
    \/ Continues(fn, "0") /\ Keeps(Only({item}), Only({})) /\ UNCHANGED exception
    \/ Fails(fn, "-1")

impl_PyDict_SetItem ==
    \E dp, key, item \in Values :
        \/ Crashes("PyDict_SetItem", {dp, key, item})
        \/ NULL \notin {dp, key, item} /\ SetsItem("PyDict_SetItem", item)

impl_PyDict_SetItemString ==
    \E key \in {"pointer", NULL}, item \in Values :
        \/ Crashes("PyDict_SetItemString", {key, item})
        \/ NULL \notin {key, item} /\ SetsItem("PyDict_SetItemString", item)

\* PyErr_BadInternalCall() on NULL.
BadInternalCall(fn, v, r) == v = NULL /\ Fails(fn, r)

impl_PyDict_Size ==
    \/ \E mp \in Values : \/ BadInternalCall("PyDict_Size", mp, "-1")
                          \/ mp # NULL /\ Gives("PyDict_Size", "size")
    \/ NoLhs("PyDict_Size")

-----------------------------------------------------------------------------
(***************************************************************************)
(* PyErr_*.                                                                *)
(***************************************************************************)
Clears(fn) == Continues(fn, "void") /\ UNCHANGED refs /\ exception' = FALSE

\* exception_rvalue becomes the argument, even if it is NULL.
Sets(fn, exc, r) == Continues(fn, r) /\ UNCHANGED refs /\ exception' = (exc # NULL)

\* As Sets, and the thread state has references to the objects, which are
\* not taken back when the exception is cleared.
SetsAndKeeps(fn, exc, values) ==
    /\ Continues(fn, "void") /\ exception' = (exc # NULL)
    /\ ext' = [o \in Objects |-> ext[o] + Only({exc})[o] + Only(values)[o]]
    /\ UNCHANGED <<known, tracked, rel>>

impl_PyErr_Clear == Clears("PyErr_Clear")

impl_PyErr_Format == \E exc \in ExcValues : Sets("PyErr_Format", exc, NULL)

impl_PyErr_NewException ==
    \E name \in {"pointer", NULL} :
        \/ Crashes("PyErr_NewException", {name})
        \/ name # NULL /\ NewRefOrFail("PyErr_NewException")

impl_PyErr_NoMemory == Fails("PyErr_NoMemory", NULL)

impl_PyErr_Occurred == Gives("PyErr_Occurred", IF exception THEN "pointer" ELSE NULL)

impl_PyErr_Print   == Clears("PyErr_Print")
impl_PyErr_PrintEx == Clears("PyErr_PrintEx")

impl_PyErr_SetFromErrno == \E exc \in ExcValues : Sets("PyErr_SetFromErrno", exc, NULL)

impl_PyErr_SetFromErrnoWithFilename ==
    \E exc \in ExcValues : Sets("PyErr_SetFromErrnoWithFilename", exc, NULL)

impl_PyErr_SetNone == \E exc \in ExcValues : SetsAndKeeps("PyErr_SetNone", exc, {})

impl_PyErr_SetObject ==
    \E exc \in ExcValues, value \in Values : SetsAndKeeps("PyErr_SetObject", exc, {value})

impl_PyErr_SetString == \E exc \in ExcValues : Sets("PyErr_SetString", exc, "void")

impl_PyErr_WarnEx == ZeroOrFail("PyErr_WarnEx")

-----------------------------------------------------------------------------
(***************************************************************************)
(* PyEval_*, Py_FatalError, PyFile_*, PyFloat_*, PyGILState_*, PyImport_*. *)
(* The GIL is recorded, and nothing asks for it.                           *)
(***************************************************************************)
impl_PyEval_CallMethod ==
    \E obj \in Values :
        \/ Crashes("PyEval_CallMethod", {obj})
        \/ obj # NULL /\ CallsWithFormat("PyEval_CallMethod")

impl_PyEval_CallObjectWithKeywords ==
    \E func \in Values :
        \/ Crashes("PyEval_CallObjectWithKeywords", {func})
        \/ func # NULL /\ NewRefOrFail("PyEval_CallObjectWithKeywords")

impl_PyEval_InitThreads == Gives("PyEval_InitThreads", "void")

Threads(fn, v, gil) ==
    Called(fn, v) /\ has_gil' = gil /\ UNCHANGED <<refs, exception, memory, pc>>

impl_PyEval_RestoreThread == Threads("PyEval_RestoreThread", "void", TRUE)
impl_PyEval_SaveThread    == Threads("PyEval_SaveThread", "unknown", FALSE)

impl_Py_FatalError == Ends("Py_FatalError", "noreturn")

impl_PyFile_SoftSpace   == Gives("PyFile_SoftSpace", "unknown")
impl_PyFile_WriteObject == ZeroOrFail("PyFile_WriteObject")
impl_PyFile_WriteString == ZeroOrFail("PyFile_WriteString")

impl_Py_Finalize == Gives("Py_Finalize", "void")

impl_PyFloat_AsDouble ==
    \E op \in Values :
        IF op = NULL THEN Fails("PyFloat_AsDouble", "-1")
        ELSE \/ Gives("PyFloat_AsDouble", "unknown")
             \/ ~IsA(op, "PyFloat_Type") /\ Fails("PyFloat_AsDouble", "-1")

impl_PyFloat_FromDouble == ObjectCtor("PyFloat_FromDouble", "PyFloat_Type")

impl_PyFrame_New   == ObjectCtor("PyFrame_New", "other")
impl_Py_GetVersion == Gives("Py_GetVersion", "pointer")

impl_PyGILState_Ensure  == Gives("PyGILState_Ensure", "unknown")
impl_PyGILState_Release == Gives("PyGILState_Release", "void")

impl_PyImport_AddModule == BorrowedRefOrFail("PyImport_AddModule")

\* Fails without an exception: the interpreter is not there yet.
impl_PyImport_AppendInittab ==
    Gives("PyImport_AppendInittab", "0") \/ Gives("PyImport_AppendInittab", "-1")

impl_PyImport_ImportModule == ObjectCtor("PyImport_ImportModule", "other")
impl_Py_Initialize         == Gives("Py_Initialize", "void")
impl_Py_InitModule4_64     == BorrowedRefOrFail("Py_InitModule4_64")

-----------------------------------------------------------------------------
(***************************************************************************)
(* PyInt_*, PyIter_Next, PyList_*, PyLong_*, PyMapping_Size.               *)
(***************************************************************************)
impl_PyInt_AsLong ==
    \E op \in Values :
        \/ Gives("PyInt_AsLong", "unknown")
        \/ ~IsA(op, "PyInt_Type") /\ Fails("PyInt_AsLong", "-1")

\* The small integers exist already: the call cannot fail.
impl_PyInt_FromLong ==
    \E small \in BOOLEAN :
        \/ NewRef("PyInt_FromLong", "PyInt_Type")
        \/ ~small /\ Fails("PyInt_FromLong", NULL)

\* NULL is the end of the iteration, or an error.
impl_PyIter_Next ==
    \E iter \in Values :
        \/ Crashes("PyIter_Next", {iter})
        \/ /\ iter # NULL
           /\ NewRefOrFail("PyIter_Next") \/ Gives("PyIter_Next", NULL)

impl_PyList_GetItem ==
    \E list \in Values :
        \/ Crashes("PyList_GetItem", {list})
        \/ list # NULL /\ BorrowedRef("PyList_GetItem")

impl_PyList_New == ObjectCtor("PyList_New", "other")

\* Steals the reference, and is taken to succeed.
impl_PyList_SetItem ==
    \E list, item \in Values :
        \/ Crashes("PyList_SetItem", {list})
        \/ /\ list # NULL /\ Continues("PyList_SetItem", "0") /\ UNCHANGED exception
           /\ Keeps(Only({item}), Only({item}))

impl_PyList_Size ==
    \E list \in Values :
        \/ Crashes("PyList_Size", {list})
        \/ list # NULL /\ Gives("PyList_Size", "size")

impl_PyLong_FromLong     == ObjectCtor("PyLong_FromLong", "other")
impl_PyLong_FromLongLong == ObjectCtor("PyLong_FromLongLong", "other")
impl_PyLong_FromString   == ObjectCtor("PyLong_FromString", "other")
impl_PyLong_FromVoidPtr  == ObjectCtor("PyLong_FromVoidPtr", "other")

impl_PyMapping_Size ==
    \/ Gives("PyMapping_Size", "unknown") \/ Fails("PyMapping_Size", "-1")
    \/ NoLhs("PyMapping_Size")

-----------------------------------------------------------------------------
(***************************************************************************)
(* PyMem_*, PyModule_*, PyNumber_*.                                        *)
(***************************************************************************)
Memory(fn, v, b, how) ==
    /\ Called(fn, v) /\ memory' = [memory EXCEPT ![b] = how]
    /\ UNCHANGED <<refs, exception, has_gil, pc>>

\* A pointer to memory that is deallocated already is not passed to any
\* function.
impl_PyMem_Free ==
    \/ Gives("PyMem_Free", "void")
    \/ \E b \in Blocks :
           \/ memory[b] = "allocated" /\ Memory("PyMem_Free", "void", b, "deallocated")
           \/ memory[b] = "deallocated" /\ Ends("PyMem_Free", "error")

impl_PyMem_Malloc ==
    \/ \E b \in Blocks :
           memory[b] = "absent" /\ Memory("PyMem_Malloc", b, b, "allocated")
    \/ Gives("PyMem_Malloc", NULL)

impl_PyModule_AddIntConstant == ZeroOrFail("PyModule_AddIntConstant")

impl_PyModule_AddObject ==
    \E module, value \in Values :
        \/ Crashes("PyModule_AddObject", {module})
        \/ /\ module # NULL
           /\ \/ Fails("PyModule_AddObject", "-1")
              \/ /\ value # NULL /\ Continues("PyModule_AddObject", "0")
                 /\ Keeps(Only({value}), Only({value})) /\ UNCHANGED exception

impl_PyModule_AddStringConstant == ZeroOrFail("PyModule_AddStringConstant")
impl_PyModule_GetDict           == BorrowedRef("PyModule_GetDict")

impl_PyNumber_Int ==
    \E o \in Values :
        \/ NullError("PyNumber_Int", o, NULL)
        \/ o # NULL /\ NewRefOrFail("PyNumber_Int")

-----------------------------------------------------------------------------
(***************************************************************************)
(* PyObject_*.                                                             *)
(***************************************************************************)
impl_PyObject_AsFileDescriptor ==
    \E o \in Values :
        \/ Crashes("PyObject_AsFileDescriptor", {o})
        \/ /\ o # NULL
           /\ Gives("PyObject_AsFileDescriptor", "unknown") \/ NoLhs("PyObject_AsFileDescriptor")

impl_PyObject_Call ==
    \E o, args \in Values :
        \/ Crashes("PyObject_Call", {o, args})
        \/ NULL \notin {o, args} /\ NewRefOrFail("PyObject_Call")

impl_PyObject_CallFunction         == CallsWithFormat("PyObject_CallFunction")
impl__PyObject_CallFunction_SizeT  == CallsWithFormat("_PyObject_CallFunction_SizeT")
impl_PyObject_CallFunctionObjArgs  == CallsWithObjArgs("PyObject_CallFunctionObjArgs")
impl_PyObject_CallMethod           == CallsWithFormat("PyObject_CallMethod")
impl__PyObject_CallMethod_SizeT    == CallsWithFormat("_PyObject_CallMethod_SizeT")
impl_PyObject_CallMethodObjArgs    == CallsWithObjArgs("PyObject_CallMethodObjArgs")

impl_PyObject_CallObject ==
    \E o \in Values :
        \/ Crashes("PyObject_CallObject", {o})
        \/ o # NULL /\ NewRefOrFail("PyObject_CallObject")

impl_PyObject_GetAttr ==
    \E v, name \in Values :
        \/ Crashes("PyObject_GetAttr", {v, name})
        \/ NULL \notin {v, name} /\ NewRefOrFail("PyObject_GetAttr")

impl_PyObject_GetAttrString ==
    \E v \in Values, name \in {"pointer", NULL} :
        \/ Crashes("PyObject_GetAttrString", {v, name})
        \/ NULL \notin {v, name} /\ NewRefOrFail("PyObject_GetAttrString")

impl_PyObject_GetItem ==
    \E o, key \in Values :
        \/ NullError("PyObject_GetItem", o, NULL) \/ NullError("PyObject_GetItem", key, NULL)
        \/ NULL \notin {o, key} /\ NewRefOrFail("PyObject_GetItem")

impl_PyObject_GenericGetAttr ==
    \E o, name \in Values :
        \/ Crashes("PyObject_GenericGetAttr", {o, name})
        \/ NULL \notin {o, name} /\ NewRefOrFail("PyObject_GenericGetAttr")

impl_PyObject_GenericSetAttr ==
    \E o, name \in Values :
        \/ Crashes("PyObject_GenericSetAttr", {o, name})
        \/ NULL \notin {o, name} /\ ZeroOrFail("PyObject_GenericSetAttr")

impl_PyObject_HasAttrString ==
    \E o \in Values, name \in {"pointer", NULL} :
        \/ Crashes("PyObject_HasAttrString", {o, name})
        \/ /\ NULL \notin {o, name}
           /\ \E v \in {"1", "0"} : Gives("PyObject_HasAttrString", v)

impl_PyObject_IsTrue ==
    \/ \E v \in {"1", "0"} : Gives("PyObject_IsTrue", v)
    \/ Fails("PyObject_IsTrue", "-1")

impl__PyObject_New == NewRefOrFail("_PyObject_New") \/ NoLhs("_PyObject_New")

impl_PyObject_Repr == ObjectCtor("PyObject_Repr", "PyString_Type")

impl_PyObject_SetAttr ==
    \E o, name \in Values :
        \/ Crashes("PyObject_SetAttr", {o, name})
        \/ NULL \notin {o, name} /\ ZeroOrFail("PyObject_SetAttr")

impl_PyObject_SetAttrString ==
    \E o \in Values, name \in {"pointer", NULL} :
        \/ Crashes("PyObject_SetAttrString", {o, name})
        \/ NULL \notin {o, name} /\ ZeroOrFail("PyObject_SetAttrString")

impl_PyObject_Str == ObjectCtor("PyObject_Str", "PyString_Type")

-----------------------------------------------------------------------------
(***************************************************************************)
(* PyOS_*, PyRun_*, PySequence_*.                                          *)
(***************************************************************************)
impl_PyOS_snprintf == Gives("PyOS_snprintf", "unknown")

\* The exception, if there was one, has been printed.
impl_PyRun_SimpleFileExFlags ==
    Gives("PyRun_SimpleFileExFlags", "0") \/ Gives("PyRun_SimpleFileExFlags", "-1")

impl_PyRun_SimpleStringFlags ==
    Gives("PyRun_SimpleStringFlags", "0") \/ Gives("PyRun_SimpleStringFlags", "-1")

impl_PySequence_Concat ==
    \E o1, o2 \in Values :
        \/ NullError("PySequence_Concat", o1, NULL) \/ NullError("PySequence_Concat", o2, NULL)
        \/ NULL \notin {o1, o2} /\ NewRefOrFail("PySequence_Concat")

impl_PySequence_DelItem ==
    \E o \in Values :
        \/ NullError("PySequence_DelItem", o, "-1")
        \/ o # NULL /\ ZeroOrFail("PySequence_DelItem")

impl_PySequence_GetItem == NewRefOrFail("PySequence_GetItem")

impl_PySequence_GetSlice ==
    \E o \in Values :
        \/ NullError("PySequence_GetSlice", o, NULL)
        \/ o # NULL /\ NewRefOrFail("PySequence_GetSlice")

SequenceSize(fn) ==
    \E o \in Values :
        \/ NullError(fn, o, "-1")
        \/ o # NULL /\ (Gives(fn, "size") \/ Fails(fn, "-1"))

impl_PySequence_Length == SequenceSize("PySequence_Length")

impl_PySequence_SetItem ==
    \E o \in Values :
        \/ NullError("PySequence_SetItem", o, "-1")
        \/ o # NULL /\ Gives("PySequence_SetItem", "0")

impl_PySequence_Size == SequenceSize("PySequence_Size")

-----------------------------------------------------------------------------
(***************************************************************************)
(* PyString_*.                                                             *)
(***************************************************************************)
impl_PyString_AsString ==
    \E op \in Values :
        \/ Crashes("PyString_AsString", {op})
        \/ /\ op # NULL
           /\ \/ Gives("PyString_AsString", "pointer")
              \/ ~IsA(op, "PyString_Type") /\ Fails("PyString_AsString", NULL)

\* *pv is replaced, and the reference that it had is dropped, by which an
\* object may be deallocated or not: the state is the same.  ConcatAndDel
\* drops w too.
Concats(fn, star_pv, w, dropped) ==
    LET lost == [o \in Objects |-> Only({star_pv})[o] + Only(dropped)[o]]
    IN  \/ /\ star_pv = NULL \/ w = NULL
           /\ Continues(fn, "void") /\ Keeps(Only({}), lost) /\ UNCHANGED exception
        \/ /\ NULL \notin {star_pv, w}
           /\ \/ Continues(fn, "void") /\ Keeps(Only({}), lost) /\ exception' = TRUE
              \/ \E o \in Objects \ Seen :
                     /\ Continues(fn, "void") /\ UNCHANGED exception
                     /\ known' = [known EXCEPT ![o] = "other"]
                     /\ tracked' = tracked \cup {o}
                     /\ rel' = [x \in Objects |-> IF x = o THEN 1 ELSE rel[x] - lost[x]]
                     /\ UNCHANGED ext

impl_PyString_Concat ==
    \/ Ends("PyString_Concat", "error")    \* pv is NULL
    \/ \E star_pv, w \in Values : Concats("PyString_Concat", star_pv, w, {})

impl_PyString_ConcatAndDel ==
    \/ Ends("PyString_ConcatAndDel", "error")
    \/ \E star_pv, w \in Values : Concats("PyString_ConcatAndDel", star_pv, w, {w})

impl_PyString_FromFormat == ObjectCtor("PyString_FromFormat", "PyString_Type")

impl_PyString_FromString ==
    \E str \in {"pointer", NULL} :
        \/ Crashes("PyString_FromString", {str})
        \/ str # NULL /\ ObjectCtor("PyString_FromString", "PyString_Type")

impl_PyString_FromStringAndSize == ObjectCtor("PyString_FromStringAndSize", "PyString_Type")

impl_PyString_InternFromString ==
    \E v \in {"pointer", NULL} :
        \/ Crashes("PyString_InternFromString", {v})
        \/ v # NULL /\ ObjectCtor("PyString_InternFromString", "PyString_Type")

\* Of an object that is known to be a string the handler reads a variable that
\* it does not have.
impl_PyString_Size ==
    \E string \in Values :
        \/ Crashes("PyString_Size", {string})
        \/ /\ string # NULL
           /\ IF IsA(string, "PyString_Type") THEN Ends("PyString_Size", "NameError")
              ELSE Gives("PyString_Size", "size") \/ Fails("PyString_Size", "-1")

-----------------------------------------------------------------------------
(***************************************************************************)
(* PyStructSequence_*, PySys_*, PyTraceBack_*, PyTuple_*, PyType_*,        *)
(* PyUnicode_*, PyWeakref_* and SWIG.                                      *)
(***************************************************************************)
impl_PyStructSequence_InitType == Gives("PyStructSequence_InitType", "void")

impl_PyStructSequence_New ==
    NewRefOrFail("PyStructSequence_New") \/ NoLhs("PyStructSequence_New")

impl_PySys_GetObject ==
    \E name \in {"pointer", NULL} :
        \/ Crashes("PySys_GetObject", {name})
        \/ /\ name # NULL
           /\ BorrowedRef("PySys_GetObject") \/ Gives("PySys_GetObject", NULL)

impl_PySys_SetObject == \E value \in Values : SetsItem("PySys_SetObject", value)

impl_PyTraceBack_Here == Gives("PyTraceBack_Here", "0") \/ Gives("PyTraceBack_Here", "-1")

impl_PyTuple_GetItem ==
    \E op \in Values :
        \/ Crashes("PyTuple_GetItem", {op})
        \/ op # NULL /\ BorrowedRef("PyTuple_GetItem")

impl_PyTuple_New == ObjectCtor("PyTuple_New", "PyTuple_Type")

\* The references that the tuple takes to its items are not followed.
impl_PyTuple_Pack ==
    \E item \in Values :
        \/ Ends("PyTuple_Pack", "error")   \* WrongArgCount
        \/ Crashes("PyTuple_Pack", {item})
        \/ item # NULL /\ ObjectCtor("PyTuple_Pack", "PyTuple_Type")

impl_PyTuple_Size ==
    \E op \in Values :
        \/ Crashes("PyTuple_Size", {op})
        \/ /\ op # NULL
           /\ \/ Gives("PyTuple_Size", "size")
              \/ ~IsA(op, "PyTuple_Type") /\ Fails("PyTuple_Size", "-1")

impl_PyType_IsSubtype == Gives("PyType_IsSubtype", "unknown")
impl_PyType_Ready     == ZeroOrFail("PyType_Ready")

\* The strings of Python 3 are bytes, of which no handler asks the type.
BytesTypes == {"PyString_Type", "other"}

EncodesUTF8(fn) ==
    \E unicode \in Values, type \in BytesTypes :
        \/ Crashes(fn, {unicode})
        \/ unicode # NULL /\ ObjectCtor(fn, type)

impl_PyUnicode_AsUTF8String     == EncodesUTF8("PyUnicode_AsUTF8String")
impl_PyUnicodeUCS4_AsUTF8String == EncodesUTF8("PyUnicodeUCS4_AsUTF8String")
impl_PyUnicode_DecodeUTF8       == ObjectCtor("PyUnicode_DecodeUTF8", "other")
impl_PyUnicodeUCS4_DecodeUTF8   == ObjectCtor("PyUnicodeUCS4_DecodeUTF8", "other")

impl_PyWeakref_GetObject ==
    \E op \in Values :
        \/ BadInternalCall("PyWeakref_GetObject", op, NULL)
        \/ op # NULL /\ BorrowedRef("PyWeakref_GetObject")

impl_SWIG_Python_ErrorType == Gives("SWIG_Python_ErrorType", "pointer")

impl_SWIG_Python_SetErrorMsg ==
    \E exc \in ExcValues : Sets("SWIG_Python_SetErrorMsg", exc, "void")

-----------------------------------------------------------------------------
(***************************************************************************)
(* Functions that no handler is written for: apply_fncall_side_effects.    *)
(* Attributes of the declaration say which references they steal, whether  *)
(* they return a borrowed one, and when they set an exception.             *)
(***************************************************************************)
UnknownFunction ==
    NewRefOrFail("unknown_function") \/ Gives("unknown_function", "unknown")

\* What an attribute adds to every outcome.
Marked(v, raises) ==
    /\ Continues("marked_function", v)
    /\ exception' = (exception \/ raises)

MarkedFunction ==
    \E stolen \in {{}} \cup {{o} : o \in Seen}, raises \in BOOLEAN :
        \/ /\ Marked("unknown", raises) /\ Keeps(Only(stolen), Only(stolen))
        \/ /\ Marked(NULL, TRUE) /\ Keeps(Only(stolen), Only(stolen))
        \* negative_result_sets_exception, when the result is split
        \/ /\ Marked("-1", TRUE) /\ Keeps(Only(stolen), Only(stolen))
        \/ \E o \in Objects \ Seen, borrowed \in {0, 1} :
               /\ Marked(o, raises)
               /\ known' = [known EXCEPT ![o] = "other"] /\ tracked' = tracked \cup {o}
               /\ rel' = [x \in Objects |-> IF x = o THEN 1 - borrowed
                                              ELSE rel[x] - Only(stolen)[x]]
               /\ ext' = [x \in Objects |-> IF x = o THEN borrowed
                                              ELSE ext[x] + Only(stolen)[x]]

-----------------------------------------------------------------------------
(***************************************************************************)
(* The return statement.  A function returns a pointer to an object, or an *)
(* integer or a block of memory.                                           *)
(***************************************************************************)
\* What is said of a function that returns v and has set no exception.  For a
\* tp_iternext that returns NULL nothing is looked at, its attributes neither.
WithoutException(v) ==
    IF attrs.iternext /\ v = NULL THEN {}
    ELSE (IF attrs.pointer /\ v = NULL THEN {"NULL"} ELSE {})
           \cup (IF attrs.sets THEN {"sets"} ELSE {})
           \cup (IF attrs.negative /\ v = "-1" THEN {"negative"} ELSE {})

Results ==
    IF attrs.pointer THEN Values
    ELSE {"0", "1", "-1"} \cup {b \in Blocks : memory[b] # "absent"}

Return ==
    \E v \in Results :
        /\ pc = "run" /\ pc' = "returned"
        /\ answer' = [fn |-> "return", value |-> v]
        /\ complaints' =
               (IF v \in Blocks /\ memory[v] = "deallocated" THEN {"deallocated"} ELSE {})
                 \cup (IF exception THEN {} ELSE WithoutException(v))
        /\ UNCHANGED <<attrs, refs, exception, has_gil, memory, calls>>

Calls_PyArg ==
    \/ impl_PyArg_Parse \/ impl__PyArg_Parse_SizeT \/ impl_PyArg_ParseTuple
    \/ impl__PyArg_ParseTuple_SizeT \/ impl_PyArg_ParseTupleAndKeywords
    \/ impl__PyArg_ParseTupleAndKeywords_SizeT \/ impl_PyArg_UnpackTuple

Calls_PyDict ==
    \/ impl_PyDict_GetItem \/ impl_PyDict_GetItemString \/ impl_PyDict_New
    \/ impl_PyDict_SetItem \/ impl_PyDict_SetItemString \/ impl_PyDict_Size

Calls_PyErr ==
    \/ impl_PyErr_Clear \/ impl_PyErr_Format \/ impl_PyErr_NewException
    \/ impl_PyErr_NoMemory \/ impl_PyErr_Occurred \/ impl_PyErr_Print
    \/ impl_PyErr_PrintEx \/ impl_PyErr_SetFromErrno
    \/ impl_PyErr_SetFromErrnoWithFilename \/ impl_PyErr_SetNone
    \/ impl_PyErr_SetObject \/ impl_PyErr_SetString \/ impl_PyErr_WarnEx

Calls_PyEval ==
    \/ impl_PyEval_CallMethod \/ impl_PyEval_CallObjectWithKeywords
    \/ impl_PyEval_InitThreads \/ impl_PyEval_RestoreThread \/ impl_PyEval_SaveThread

Calls_PyList ==
    \/ impl_PyList_GetItem \/ impl_PyList_New \/ impl_PyList_SetItem
    \/ impl_PyList_Size

Calls_PyObject ==
    \/ impl_PyObject_AsFileDescriptor \/ impl_PyObject_Call
    \/ impl_PyObject_CallFunction \/ impl__PyObject_CallFunction_SizeT
    \/ impl_PyObject_CallFunctionObjArgs \/ impl_PyObject_CallMethod
    \/ impl__PyObject_CallMethod_SizeT \/ impl_PyObject_CallMethodObjArgs
    \/ impl_PyObject_CallObject \/ impl_PyObject_GetAttr
    \/ impl_PyObject_GetAttrString \/ impl_PyObject_GetItem
    \/ impl_PyObject_GenericGetAttr \/ impl_PyObject_GenericSetAttr
    \/ impl_PyObject_HasAttrString \/ impl_PyObject_IsTrue \/ impl__PyObject_New
    \/ impl_PyObject_Repr \/ impl_PyObject_SetAttr \/ impl_PyObject_SetAttrString
    \/ impl_PyObject_Str

Calls_PySequence ==
    \/ impl_PySequence_Concat \/ impl_PySequence_DelItem \/ impl_PySequence_GetItem
    \/ impl_PySequence_GetSlice \/ impl_PySequence_Length \/ impl_PySequence_SetItem
    \/ impl_PySequence_Size

Calls_PyString ==
    \/ impl_PyString_AsString \/ impl_PyString_Concat \/ impl_PyString_ConcatAndDel
    \/ impl_PyString_FromFormat \/ impl_PyString_FromString
    \/ impl_PyString_FromStringAndSize \/ impl_PyString_InternFromString
    \/ impl_PyString_Size

Calls_PyTuple ==
    \/ impl_PyTuple_GetItem \/ impl_PyTuple_New \/ impl_PyTuple_Pack
    \/ impl_PyTuple_Size

Calls_PyUnicode ==
    \/ impl_PyUnicode_AsUTF8String \/ impl_PyUnicodeUCS4_AsUTF8String
    \/ impl_PyUnicode_DecodeUTF8 \/ impl_PyUnicodeUCS4_DecodeUTF8

Calls_Other ==
    \/ impl___cpychecker_log \/ impl___cpychecker_dump \/ impl___cpychecker_dump_all
    \/ impl___cpychecker_assert_equal \/ impl_Py_AtExit \/ impl_PyBool_FromLong
    \/ impl_Py_BuildValue \/ impl__Py_BuildValue_SizeT \/ impl_PyCallable_Check
    \/ impl_PyCapsule_GetPointer \/ impl_PyCObject_AsVoidPtr
    \/ impl_PyCObject_FromVoidPtr \/ impl_PyCObject_FromVoidPtrAndDesc
    \/ impl_PyCode_New \/ impl_Py_FatalError \/ impl_PyFile_SoftSpace
    \/ impl_PyFile_WriteObject \/ impl_PyFile_WriteString \/ impl_Py_Finalize
    \/ impl_PyFloat_AsDouble \/ impl_PyFloat_FromDouble \/ impl_PyFrame_New
    \/ impl_Py_GetVersion \/ impl_PyGILState_Ensure \/ impl_PyGILState_Release
    \/ impl_PyImport_AddModule \/ impl_PyImport_AppendInittab
    \/ impl_PyImport_ImportModule \/ impl_Py_Initialize \/ impl_Py_InitModule4_64
    \/ impl_PyInt_AsLong \/ impl_PyInt_FromLong \/ impl_PyIter_Next
    \/ impl_PyLong_FromLong \/ impl_PyLong_FromLongLong \/ impl_PyLong_FromString
    \/ impl_PyLong_FromVoidPtr \/ impl_PyMapping_Size \/ impl_PyMem_Free
    \/ impl_PyMem_Malloc \/ impl_PyModule_AddIntConstant \/ impl_PyModule_AddObject
    \/ impl_PyModule_AddStringConstant \/ impl_PyModule_GetDict \/ impl_PyNumber_Int
    \/ impl_PyOS_snprintf \/ impl_PyRun_SimpleFileExFlags
    \/ impl_PyRun_SimpleStringFlags \/ impl_PyStructSequence_InitType
    \/ impl_PyStructSequence_New \/ impl_PySys_GetObject \/ impl_PySys_SetObject
    \/ impl_PyTraceBack_Here \/ impl_PyType_IsSubtype \/ impl_PyType_Ready
    \/ impl_PyWeakref_GetObject \/ impl_SWIG_Python_ErrorType
    \/ impl_SWIG_Python_SetErrorMsg

Next ==
    \/ Calls_PyArg \/ Calls_PyDict \/ Calls_PyErr \/ Calls_PyEval \/ Calls_PyList \/ Calls_PyObject
    \/ Calls_PySequence \/ Calls_PyString \/ Calls_PyTuple \/ Calls_PyUnicode \/ Calls_Other
    \/ UnknownFunction \/ MarkedFunction
    \/ Return

Spec == Init /\ [][Next]_vars

-----------------------------------------------------------------------------
(***************************************************************************)
(* Correctness.                                                            *)
(***************************************************************************)
\* Types.  An object that the function does not know yet has no references.
TypeOK ==
    /\ attrs \in [pointer : BOOLEAN, iternext : BOOLEAN, sets : BOOLEAN, negative : BOOLEAN]
    /\ known \in [Objects -> Types \cup {"absent"}] /\ tracked \subseteq Seen
    /\ rel \in [Objects -> Int] /\ ext \in [Objects -> Nat]
    /\ \A o \in Objects \ Seen : rel[o] = 0 /\ ext[o] = 0
    /\ exception \in BOOLEAN /\ has_gil \in BOOLEAN
    /\ memory \in [Blocks -> {"absent", "allocated", "deallocated"}]
    /\ answer.value \in Objects \cup Blocks \cup Answers \cup {NULL}
    /\ pc \in {"run", "error", "noreturn", "returned",
               "AttributeError", "NameError", "AssertionError"}
    /\ calls \in Nat

\* Every handler keeps the conventions of the C API, in every state that the
\* calls before it have led to: the checker's account of the references and of
\* the error indicator are those of the contract, and so are the reports.
Contract == INSTANCE ApiContract WITH
    Objects <- Objects, NULL <- NULL, attrs <- attrs, own <- rel, lent <- ext,
    raised <- exception, answer <- answer, ended <- pc # "run",
    complaints <- complaints \ {"deallocated"}

KeepsContract == Contract!Spec

\* The references of every object that the function knows are checked when it
\* returns ("Check the refcount of all Python objects we know about").
AllChecked == pc = "returned" => Seen \subseteq tracked

================================================================================
