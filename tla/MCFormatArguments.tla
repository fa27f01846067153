---------------------------- MODULE MCFormatArguments ----------------------------
(* Format strings of up to four characters, read without arguments for both   *)
(* versions of Python, and calls with arguments of every type, in Python 3,   *)
(* for the more interesting ones.                                             *)
EXTENDS FormatArguments

Call(functions, formats, counts) ==
    [py3 : {TRUE}, callee : functions, fmt : formats, count : counts]

Bare(function, formats) ==
    [py3 : BOOLEAN, callee : {function}, fmt : formats, count : {0}]

ArgChars   == {"i", "s", "#", "*", "e", "t", "u", "O", "!", "&", "?", "w", "y", "p", "$", "(", ")", "|", ":", "x"}
ValueChars == {"i", "s", "#", "u", "N", "O", "&", "y", "p", "(", ")", "[", "]", ":", "x"}

\* The units that are implemented.
ReadArgs   == (ArgUnits(TRUE) \cup ArgUnits(FALSE)) \ NotImplemented("PyArg")
ReadValues == ValueUnits(TRUE) \ NotImplemented("Py_BuildValue")

\* Formats of one unit, with nothing else or after another one, and in brackets.
ArgPairs ==
    ReadArgs \cup {<<"(">> \o u \o <<"|", "i", ")">> : u \in {v \in ReadArgs : Len(v) < 3}}
      \cup {<<"O", "!", "c">>, <<"n", "O", "&">>}

ValuePairs ==
    ReadValues \cup {<<"N", "&">>, <<"O", "&">>}
      \cup {<<"(">> \o u \o <<")", "O">> : u \in ReadValues}
      \cup {<<"s", "#", "[">> \o u \o <<"]">> : u \in {<<"c">>, <<"n">>, <<"N">>}}

MCCalls ==
    Bare("PyArg_ParseTuple", SeqOf(ArgChars, 3))
      \cup Bare("PyArg_ParseTuple", SeqOf(ArgChars \ {"u", "w", "i", "?", "x", "*", "p", "$"}, 4))
      \cup Bare("Py_BuildValue", SeqOf(ValueChars, 3))
      \cup Bare("Py_BuildValue", SeqOf(ValueChars \ {"u", "i", "x", "p"}, 4))
      \cup Call({"PyArg_ParseTuple", "_PyArg_ParseTuple_SizeT"}, ArgPairs, 0..3)
      \cup Call({"PyArg_ParseTuple"}, {<<"O", "!", "O", "!">>}, {4})
      \cup Call({"PyArg_Parse", "_PyArg_Parse_SizeT"}, {<<"s", "#">>, <<"O", "!">>}, 0..3)
      \cup Call(KeywordFunctions, {<<>>, <<"O", "&">>, <<"i">>}, 0..2)
      \cup Call({"Py_BuildValue"}, ValuePairs, 0..3)

Plain(t) == [type |-> t, object |-> ""]

MCArguments ==
    {Plain(t) : t \in {
        IntType, Ssize, Ptr(IntType), Ptr(Long), Ptr(Ssize), Ptr(Char), Ptr(ConstChar), Ptr(Array(Char)),
        Ptr(Ptr(Char)), Ptr(Ptr(ConstChar)), Ptr(Unicode), Ptr(PyObject), Ptr(Struct("PyBytesObject")),
        Ptr(Struct("Other")), Ptr(Ptr(PyObject)), Ptr(Ptr(Struct("PyBytesObject"))),
        Ptr(Fn(IntType, <<Ptr(PyObject), Ptr(Long)>>)), Ptr(Fn(IntType, <<Ptr(PyObject)>>))}}
    \cup [type : {Ptr(Struct("PyTypeObject"))}, object : {"PyBytes_Type", "Unknown_Type"}]
    \cup [type : {Ptr(Void)}, object : {"NULL", ""}]

MCKeywords ==
    [elements : SeqOf({"name", "NULL"}, 3), room : {0, 1}]

MCFirstField ==
    [s \in {"PyObject", "PyBytesObject", "PyTypeObject", "Other"} |->
        CASE s = "PyObject" -> "ob_refcnt" [] s = "Other" -> "field" [] OTHER -> "PyObject"]

MCTypeDict == [o \in {"PyBytes_Type"} |-> "PyBytesObject"]

================================================================================
