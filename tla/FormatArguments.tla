----------------------------- MODULE FormatArguments -----------------------------
(***************************************************************************)
(* What libcpychecker says of a call of PyArg_ParseTuple, Py_BuildValue    *)
(* and their like (check_pyargs): the list of keywords, the number of      *)
(* arguments after the format string, and their types one after another.   *)
(* FormatStrings reads the format string.                                  *)
(*                                                                         *)
(* Types are those of GCC as far as they are told apart.  The place of an  *)
(* argument is its number among those after the format string.             *)
(***************************************************************************)
EXTENDS FormatStrings, FiniteSets

CONSTANTS
    Calls,      \* [py3, callee, fmt, count]: calls, with the number of arguments
    Arguments,  \* [type, object]: what may be passed, object for "&object"
    Keywords,   \* [elements, room]: lists of keywords, with what the initializer leaves out
    FirstField, \* for each struct: its first field, or a struct that is its first field
    TypeDict    \* for each known type object: the struct of its instances

VARIABLES
    callee, count,
    keywords,   \* the fourth argument of PyArg_ParseTupleAndKeywords
    judgement,  \* "starts", "reads", "checks", or how the check has ended
    args,       \* the arguments that were looked at
    bound,      \* what the first argument of an "O!" or "O&" says of the second
    warnings    \* what was said, of places and of the whole call

vars == <<reading, callee, count, keywords, judgement, args, bound, warnings>>

-----------------------------------------------------------------------------
(***************************************************************************)
(* Types.                                                                  *)
(***************************************************************************)
Number(name, bits, const) == <<"number", name, bits, const>>
Ptr(t)     == <<"pointer", t>>
Struct(n)  == <<"struct", n>>
Array(t)   == <<"array", t>>
Decl(t)    == <<"typedef", t>>
Fn(r, a)   == <<"function", r, a>>
Void       == <<"void">>
Null       == <<"NULL">>

Char      == Number("char", 8, FALSE)
ConstChar == Number("char", 8, TRUE)
IntType       == Number("int", 32, FALSE)
Long      == Number("long", 64, FALSE)
Ssize     == Number("Py_ssize_t", 64, FALSE)
Unicode   == Number("Py_UNICODE", 16, FALSE)
PyObject  == Struct("PyObject")

IsPtr(t) == t[1] = "pointer"
Target(t) == t[2]

\* compatible_type for types of GCC.  Numbers are compared by what they are,
\* whatever their name; where a string is read it may be constant or an array.
RECURSIVE Compatible(_, _)
Compatible(exp, actual) ==
    \/ actual = exp
    \/ exp[1] = "typedef" /\ Compatible(exp[2], actual)
    \/ actual[1] = "typedef" /\ Compatible(exp, actual[2])
    \/ IsPtr(actual) /\ IsPtr(exp) /\ Compatible(Target(exp), Target(actual))
    \/ exp = Ptr(Char) /\ actual \in {Ptr(ConstChar), Ptr(Array(Char))}
    \/ actual[1] = "number" /\ exp[1] = "number" /\ Tail(Tail(actual)) = Tail(Tail(exp))

\* type_is_pyobjptr_subclass: by the names of the first fields, down the first
\* fields of structs.
RECURSIVE IsObjectPtr(_)
IsObjectPtr(t) ==
    /\ IsPtr(t) /\ Target(t)[1] = "struct"
    /\ LET first == FirstField[Target(t)[2]]
       IN  \/ first \in DOMAIN FirstField /\ IsObjectPtr(Ptr(Struct(first)))
           \/ first = "ob_refcnt" /\ (py3 => t = Ptr(PyObject))

-----------------------------------------------------------------------------
(***************************************************************************)
(* What each unit expects.                                                 *)
(***************************************************************************)
OneOf(types) == [kind |-> "one of", types |-> types]
A(t)         == OneOf({t})
Awkward(k)   == [kind |-> k, types |-> {}]

SizeTVariants == {"_PyArg_ParseTuple_SizeT", "_PyArg_Parse_SizeT",
                  "_PyArg_ParseTupleAndKeywords_SizeT", "Py_BuildValue_SizeT"}

\* get_hash_size_type: was PY_SSIZE_T_CLEAN defined?  A typedef is a declaration,
\* its pointer is a pointer to a type.
HashSizeType == IF callee \in SizeTVariants THEN Decl(Ssize) ELSE IntType
Pointer(t)   == Ptr(IF t[1] = "typedef" THEN t[2] ELSE t)

SimpleType(c) == CASE c = "i" -> IntType [] c = "c" -> Char [] c = "n" -> Decl(Ssize)

CharPtrPtr    == A(Ptr(Ptr(Char)))
Lengths(unit) == IF Last(unit) = "#" THEN <<A(Pointer(HashSizeType))>> ELSE <<>>

ArgTypes(unit) ==
    LET c == Head(unit)
    IN  CASE c \in Simple -> <<A(Pointer(SimpleType(c)))>>
          [] Last(unit) = "*" -> <<A(Ptr(Struct("Py_buffer")))>>
          [] c = "s" -> <<A(Ptr(Ptr(ConstChar)))>> \o Lengths(unit)
          [] c = "e" -> <<OneOf({Ptr(ConstChar), Ptr(Char), Null}), CharPtrPtr>> \o Lengths(unit)
          [] c = "u" -> <<A(Ptr(Ptr(Unicode)))>> \o Lengths(unit)
          [] c \in {"w", "t"} -> <<CharPtrPtr>> \o Lengths(unit)
          [] c = "S" -> <<OneOf({Ptr(Ptr(Struct(IF py3 THEN "PyBytesObject" ELSE "PyStringObject"))),
                                 Ptr(Ptr(PyObject))})>>
          [] c = "U" -> <<OneOf({Ptr(Ptr(Struct("PyUnicodeObject"))), Ptr(Ptr(PyObject))})>>
          [] unit = <<"O">> -> <<A(Ptr(Ptr(PyObject)))>>
          [] unit = <<"O", "!">> -> <<Awkward("type object"), Awkward("its instance")>>
          [] unit = <<"O", "&">> -> <<Awkward("converter"), Awkward("converted")>>

ValueTypes(unit) ==
    LET c == Head(unit)
        length == IF Last(unit) = "#" THEN <<A(HashSizeType)>> ELSE <<>>
    IN  CASE c = "c" -> <<A(IntType)>>
          [] c \in Simple \ {"c"} -> <<A(SimpleType(c))>>
          [] c = "s" -> <<A(Ptr(Char))>> \o length
          [] c = "u" -> <<A(Ptr(Unicode))>> \o length
          [] c \in {"N", "O"} -> <<Awkward("any object")>>

\* iter_exp_types.
Expected ==
    FlattenSeq([i \in DOMAIN units |->
        IF language = "PyArg" THEN ArgTypes(units[i]) ELSE ValueTypes(units[i])])

-----------------------------------------------------------------------------
(***************************************************************************)
(* The calls that are looked at, and their lists of keywords.              *)
(***************************************************************************)
KeywordFunctions == {"PyArg_ParseTupleAndKeywords", "_PyArg_ParseTupleAndKeywords_SizeT"}

\* maybe_check_callsite.
Verified ==
    {"PyArg_ParseTuple", "PyArg_Parse", "Py_BuildValue"} \cup KeywordFunctions \cup SizeTVariants

\* The language of the format strings of a function.
Language(f) ==
    IF f \in {"PyArg_ParseTuple", "PyArg_Parse"} \cup KeywordFunctions
              \cup (SizeTVariants \ {"Py_BuildValue_SizeT"})
    THEN "PyArg" ELSE "Py_BuildValue"

\* check_keyword_array sees what the initializer says, not the length of the
\* array.  An empty string counts as missing.
KeywordWarnings ==
    LET k == keywords.elements
    IN  {<<"keywords", 0>> : x \in {Last(k)} \ {"NULL"}}
          \cup {<<"keyword", i>> : i \in {j \in 1..Len(k) - 1 : k[j] # "name"}}

Init ==
    \E call \in Calls :
        /\ callee = call.callee /\ count = call.count
        /\ InitReading(call.py3, Language(callee), call.fmt)
        /\ keywords \in IF callee \in KeywordFunctions THEN Keywords ELSE {[elements |-> <<>>, room |-> 0]}
        /\ judgement = "starts" /\ args = <<>> /\ bound = Void /\ warnings = {}

\* The list of keywords is looked at, then the format string, if it is not empty.
Start ==
    /\ judgement = "starts"
    /\ IF callee \in KeywordFunctions /\ keywords.elements = <<>>
       THEN judgement' = "IndexError" /\ UNCHANGED warnings
       ELSE /\ judgement' = IF callee \in Verified /\ fmt # <<>> THEN "reads" ELSE "ignored"
            /\ warnings' = IF callee \in KeywordFunctions THEN KeywordWarnings ELSE {}
    /\ UNCHANGED <<reading, callee, count, keywords, args, bound>>

ReadOn ==
    /\ judgement = "reads" /\ Read
    /\ UNCHANGED <<callee, count, keywords, judgement, args, bound, warnings>>

\* emit_as_warning.  If GCC prints the warning, more is said of the types that
\* were expected; there is nothing to say of "any object".
Emit(warning, described, after) ==
    /\ warnings' = warnings \cup {warning}
    /\ judgement' \in {after} \cup
           {"NotImplementedError" : e \in {x \in described : x.kind = "any object"}}

EndReading ==
    /\ judgement = "reads" /\ parse # "reads"
    /\ CASE parse \in {"UnknownFormatChar", "MismatchedParentheses"} ->
              Emit(<<"format", 0>>, {}, "done")
         [] parse = "done" /\ count # Len(Expected) ->
              Emit(<<"number", 0>>, ToSet(Expected), "done")
         [] parse = "done" /\ count = Len(Expected) ->
              judgement' = "checks" /\ UNCHANGED warnings
         [] OTHER -> judgement' = parse /\ UNCHANGED warnings
    /\ UNCHANGED <<reading, callee, count, keywords, args, bound>>

-----------------------------------------------------------------------------
(***************************************************************************)
(* The arguments: the first one of "O!" or "O&" may leave a type for the   *)
(* second one in the unit that both belong to.                             *)
(***************************************************************************)
IsTypeObject(a) == a.type = Ptr(Struct("PyTypeObject"))

\* int (fn)(PyObject *, T *).
IsConverter(a) ==
    /\ IsPtr(a.type) /\ Target(a.type)[1] = "function"
    /\ LET signature == Target(a.type)
       IN  /\ signature[2] = IntType /\ Len(signature[3]) = 2
           /\ Compatible(signature[3][1], Ptr(PyObject)) /\ IsPtr(signature[3][2])

Accepts(exp, a) ==
    CASE exp.kind = "one of" ->
             \E t \in exp.types :
                 IF t = Null THEN a.type = Ptr(Void) /\ a.object = "NULL" ELSE Compatible(t, a.type)
      [] exp.kind = "type object" -> IsTypeObject(a)
      [] exp.kind = "its instance" ->
             /\ IsPtr(a.type)
             /\ \/ Compatible(a.type, Ptr(Ptr(PyObject)))
                \/ bound # Void /\ Compatible(a.type, Ptr(Ptr(bound)))
      [] exp.kind = "converter" -> IsConverter(a)
      [] exp.kind = "converted" -> IsPtr(a.type) /\ (bound # Void => Compatible(bound, a.type))
      [] exp.kind = "any object" -> IsObjectPtr(a.type)

\* Mutant of Bound: what one unit says is kept for those after it.
BoundKept(exp, a) ==
    CASE exp.kind = "type object" /\ IsTypeObject(a) /\ a.object \in DOMAIN TypeDict ->
             Struct(TypeDict[a.object])
      [] exp.kind = "converter" /\ IsConverter(a) -> Target(a.type)[3][2]
      [] OTHER -> bound

Bound(exp, a) ==
    CASE exp.kind = "type object" /\ IsTypeObject(a) /\ a.object \in DOMAIN TypeDict ->
             Struct(TypeDict[a.object])
      [] exp.kind = "converter" /\ IsConverter(a) -> Target(a.type)[3][2]
      [] OTHER -> Void

CheckArgument ==
    /\ judgement = "checks" /\ Len(args) < count
    /\ \E a \in Arguments :
           LET place == Len(args) + 1
               exp   == Expected[place]
           IN  /\ args' = Append(args, a)
               /\ IF Accepts(exp, a) THEN bound' = Bound(exp, a) /\ UNCHANGED <<judgement, warnings>>
                  ELSE Emit(<<"argument", place>>, {exp}, "checks") /\ bound' = Void
    /\ UNCHANGED <<reading, callee, count, keywords>>

EndArguments ==
    /\ judgement = "checks" /\ Len(args) = count /\ judgement' = "done"
    /\ UNCHANGED <<reading, callee, count, keywords, args, bound, warnings>>

Judged == judgement \notin {"starts", "reads", "checks"} /\ UNCHANGED vars

Next == Start \/ ReadOn \/ EndReading \/ CheckArgument \/ EndArguments \/ Judged

Spec == Init /\ [][Next]_vars

-----------------------------------------------------------------------------
(***************************************************************************)
(* Correctness.                                                            *)
(***************************************************************************)
\* ReadRight: a string that was read to its end has these units in Python, for
\* which the code is checked, and cannot be cut into units in any other way (but
\* for units of Python 2, which are read for Python 3 too).  The reading ends
\* early, with a warning or a Python error, only if the string is none of the
\* language or if its next unit is one of those that are not implemented.
ReadRight == judgement = "reads" /\ parse # "reads" => RightlyRead

\* Every type is a number of pointers to something else.
RECURSIVE Depth(_)
Depth(t) == IF IsPtr(t) THEN 1 + Depth(Target(t)) ELSE 0
RECURSIVE Base(_)
Base(t)  == IF IsPtr(t) THEN Base(Target(t)) ELSE IF t[1] = "typedef" THEN t[2] ELSE t

\* Types are alike if the bases are, but for their names, or if one is a string
\* and the other a constant one or an array.
Alike(e, t) ==
    /\ Depth(e) = Depth(t)
    /\ \/ Base(e) = Base(t)
       \/ Base(e)[1] = "number" /\ Base(t)[1] = "number" /\ SubSeq(Base(e), 3, 4) = SubSeq(Base(t), 3, 4)
       \/ Base(e) = Char /\ Depth(e) > 0 /\ Base(t) \in {ConstChar, Array(Char)}

\* The second argument of an "O!" is an object of the type that the first one
\* is, that of an "O&" what the first one converts to, if these are known.
Fits(e, i) ==
    LET t == args[i].type
        first == args[i - 1]
    IN  CASE e.kind = "one of" ->
                 \/ \E x \in e.types \ {Null} : Alike(x, t)
                 \/ Null \in e.types /\ args[i].object = "NULL"
          [] e.kind = "its instance" ->
                 \E s \in {"PyObject"} \cup
                        {TypeDict[o] : o \in {first.object} \cap DOMAIN TypeDict} :
                     t = Ptr(Ptr(Struct(s)))
          [] e.kind = "converted" ->
                 Depth(t) > 0 /\ (IsConverter(first) => Alike(Target(first.type)[3][2], t))
          [] OTHER -> Accepts(e, args[i])

\* The number of names that the API sees in a list of keywords: those before the
\* first NULL, which may be one that the initializer does not mention.
Names(k) ==
    LET all == k.elements \o [i \in 1..k.room |-> "NULL"]
    IN  IF Contains(all, "NULL") THEN SelectInSeq(all, LAMBDA x : x = "NULL") - 1 ELSE Len(all)

\* CallsJudged: when the check of a call has ended, GCC has been told that the
\* number of arguments is wrong, or which of them do not fit, and of no others;
\* if an exception ends it before, that was after the first one that does not
\* fit.  If nothing is said of its keywords, the API sees all of them and
\* the end of the list.
CallsJudged ==
    LET expected   == Expected
        mismatches == {i \in DOMAIN args : ~Fits(expected[i], i)}
        told       == {i \in DOMAIN args : <<"argument", i>> \in warnings}
    IN  /\ told = mismatches
        /\ judgement = "done" =>
               \/ <<"format", 0>> \in warnings /\ parse # "done"
               \/ parse = "done" /\ (<<"number", 0>> \in warnings) = (Len(expected) # count)
                    /\ (Len(expected) = count => Len(args) = count)
        /\ judgement = "NotImplementedError" => told # {} \/ <<"number", 0>> \in warnings
        /\ callee \in KeywordFunctions /\ judgement \notin {"starts", "IndexError"} =>
               \/ \E w \in warnings : w[1] \in {"keyword", "keywords"}
               \/ Names(keywords) = Len(keywords.elements) - 1
================================================================================
