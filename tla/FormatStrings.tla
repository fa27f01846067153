------------------------------ MODULE FormatStrings ------------------------------
(***************************************************************************)
(* How libcpychecker reads the format strings of PyArg_ParseTuple and of   *)
(* Py_BuildValue: the loops of PyArgParseFmt.from_string and of            *)
(* PyBuildValueFmt.from_string, one character or unit at a time.           *)
(*                                                                         *)
(* A format string is a sequence of characters.  Of characters that are    *)
(* treated alike there is one: "i", "c" and "n" stand for all that have    *)
(* one argument of a number type, "s" for "z" too, ":" for ";" in the      *)
(* first of the two languages and for the other separators in the second,  *)
(* where "[" stands for "{" and "N" and "O" for "S".  Of those that only   *)
(* Python 3 has, "y" stands for "Z" and "p" for "C" and "Y" in the first,  *)
(* "y" for "U" and "p" for "C" in the second.                              *)
(***************************************************************************)
EXTENDS Integers, Sequences, SequencesExt

VARIABLES
    py3,        \* is_py3k: the code is checked for Python 3, and not for Python 2.7
    language,   \* "PyArg" or "Py_BuildValue"
    fmt,        \* the format string
    rest,       \* what of it is still to be read
    units,      \* the units read so far
    nesting,    \* the closing brackets that are due: the innermost one first
    parse       \* "reads", or how the reading has ended

reading == <<py3, language, fmt, rest, units, nesting, parse>>

InitReading(v, l, f) ==
    /\ py3 = v /\ language = l /\ fmt = f /\ rest = f
    /\ units = <<>> /\ nesting = <<>> /\ parse = "reads"

Simple == {"i", "c", "n"}

Reads(l) == parse = "reads" /\ language = l

C    == IF rest = <<>> THEN "end" ELSE Head(rest)
Peek == IF Len(rest) > 1 THEN rest[2] ELSE "end"

Unit(code) ==
    /\ units' = Append(units, code)
    /\ rest' = SubSeq(rest, Len(code) + 1, Len(rest))
    /\ UNCHANGED <<py3, language, fmt, nesting, parse>>

Skip(brackets) ==
    /\ rest' = Tail(rest) /\ nesting' = brackets
    /\ UNCHANGED <<py3, language, fmt, units, parse>>

\* The reading ends: a FormatStringWarning, an exception of another kind, or
\* everything is read.
Stop(how) == parse' = how /\ UNCHANGED <<py3, language, fmt, rest, units, nesting>>

\* A unit that may have one of the modifiers after it.
Modified(c, modifiers) ==
    /\ C = c
    /\ Unit(IF Peek \in modifiers THEN <<c, Peek>> ELSE <<c>>)

-----------------------------------------------------------------------------
(***************************************************************************)
(* PyArg_Parse and its like.                                               *)
(***************************************************************************)
ArgBracket ==
    \/ C = "(" /\ Skip(<<")">> \o nesting)
    \/ C = ")" /\ nesting # <<>> /\ Skip(Tail(nesting))
    \/ C = ")" /\ nesting = <<>> /\ Stop("MismatchedParentheses")

\* A colon or a semicolon ends the loop as the end of the string does.
ArgEnd ==
    C \in {":", "end"} /\ Stop(IF nesting = <<>> THEN "done" ELSE "MismatchedParentheses")

\* Mutant of ArgString: the modifier is not looked for.
ArgStringBare == C = "s" /\ Unit(<<"s">>)

ArgString == Modified("s", {"#", "*"})

\* An encoding, and a string or a buffer; without the "s" or "t" after it an
\* "e" is passed over.
ArgEncoded ==
    /\ C = "e"
    /\ IF Peek \in {"s", "t"}
       THEN Unit(<<"e", Peek>> \o (IF Len(rest) > 2 /\ rest[3] = "#" THEN <<"#">> ELSE <<>>))
       ELSE Skip(nesting)

\* The handler of "O?" mentions a variable that is not defined.
ArgObject ==
    \/ Peek # "?" /\ Modified("O", {"!", "&"})
    \/ C = "O" /\ Peek = "?" /\ Stop("NameError")

\* A "t" that is not a "t#" is passed over.
ArgReadBuffer ==
    C = "t" /\ IF Peek = "#" THEN Unit(<<"t", "#">>) ELSE Skip(nesting)

ArgKnown == {"(", ")", ":", "end", "|", "S", "U", "s", "e", "u", "O", "w", "t"} \cup Simple

ReadArg ==
    /\ Reads("PyArg")
    /\ \/ ArgBracket \/ ArgEnd
       \/ C = "|" /\ Skip(nesting)
       \/ C \in {"S", "U"} \cup Simple /\ Unit(<<C>>)
       \/ ArgString \/ ArgEncoded
       \/ Modified("u", {"#"})
       \/ ArgObject
       \/ Modified("w", {"#", "*"})
       \/ ArgReadBuffer
       \/ C \notin ArgKnown /\ Stop("UnknownFormatChar")

-----------------------------------------------------------------------------
(***************************************************************************)
(* Py_BuildValue.                                                          *)
(***************************************************************************)
Closing == [c \in {"(", "["} |-> IF c = "(" THEN ")" ELSE "]"]

\* arg_stack always has the outermost list, which has no closing bracket: the
\* attempt to look at it fails.
ValueClose ==
    /\ C \in {")", "]"}
    /\ IF nesting = <<>> THEN Stop("AttributeError")
       ELSE IF Head(nesting) = C THEN Skip(Tail(nesting)) ELSE Stop("MismatchedParentheses")

\* If brackets are open in the end the warning asks for a self that a class
\* method does not have.
ValueEnd == C = "end" /\ Stop(IF nesting = <<>> THEN "done" ELSE "NameError")

\* A converter is added without saying what it is.
ValueObject ==
    /\ C \in {"N", "O"}
    /\ IF Peek = "&" THEN Stop("TypeError") ELSE Unit(<<C>>)

ValueKnown == {"(", "[", ")", "]", "s", "u", "N", "O", ":", "end"} \cup Simple

ReadValue ==
    /\ Reads("Py_BuildValue")
    /\ \/ C \in Simple /\ Unit(<<C>>)
       \/ C \in {"(", "["} /\ Skip(<<Closing[C]>> \o nesting)
       \/ ValueClose
       \/ Modified("s", {"#"}) \/ Modified("u", {"#"})
       \/ ValueObject
       \/ C = ":" /\ Skip(nesting)
       \/ ValueEnd
       \/ C \notin ValueKnown /\ Stop("UnknownFormatChar")

Read == ReadArg \/ ReadValue

-----------------------------------------------------------------------------
(***************************************************************************)
(* The languages, as Python/getargs.c and Python/modsupport.c define them  *)
(* for Python 2.7 and for Python 3: pieces that are put together.          *)
(***************************************************************************)
ArgUnits(v) ==
    {<<c>> : c \in Simple} \cup {<<"s">>, <<"s", "#">>, <<"s", "*">>, <<"u">>, <<"u", "#">>, <<"S">>, <<"U">>,
     <<"O">>, <<"O", "!">>, <<"O", "&">>, <<"w", "*">>,
     <<"e", "s">>, <<"e", "s", "#">>, <<"e", "t">>, <<"e", "t", "#">>}
    \cup IF v THEN {<<"y">>, <<"y", "#">>, <<"y", "*">>, <<"p">>, <<"$">>}
         ELSE {<<"w">>, <<"w", "#">>, <<"t", "#">>, <<"O", "?">>}

ValueUnits(v) ==
    {<<c>> : c \in Simple} \cup {<<"s">>, <<"s", "#">>, <<"u">>, <<"u", "#">>, <<"N">>, <<"O">>, <<"N", "&">>,
     <<"O", "&">>}
    \cup IF v THEN {<<"y">>, <<"y", "#">>, <<"p">>} ELSE {}

Units(l)  == IF l = "PyArg" THEN ArgUnits(py3) ELSE ValueUnits(py3)
Others(l) == {<<c>> : c \in IF l = "PyArg" THEN {"(", ")", "|"} ELSE {"(", ")", "[", "]", ":"}}

\* The reader reads the same language for both versions.  These units it does not
\* have ("only implements a subset of the various cases")...
NotImplemented(l) ==
    {<<"y">>, <<"y", "#">>, <<"y", "*">>, <<"p">>}
      \cup IF l = "PyArg" THEN {<<"$">>, <<"O", "?">>} ELSE {<<"N", "&">>, <<"O", "&">>}

\* ... and these it takes for Python 3 too, which has them no more.
Gone(l) == IF l = "PyArg" THEN {<<"w">>, <<"w", "#">>, <<"t", "#">>} ELSE {}

\* All the ways to cut a string into pieces.
RECURSIVE Cuts(_, _)
Cuts(s, pieces) ==
    IF s = <<>> THEN {<<>>}
    ELSE UNION {{<<p>> \o cut : cut \in Cuts(SubSeq(s, Len(p) + 1, Len(s)), pieces)} :
                p \in {q \in pieces : IsPrefix(q, s)}}

\* Brackets match: pairs of neighbours are taken away until nothing is left.
RECURSIVE Balanced(_)
Balanced(brackets) ==
    \/ brackets = <<>>
    \/ \E i \in 1..Len(brackets) - 1 :
           /\ brackets[i] \in {<<"(">>, <<"[">>}
           /\ brackets[i + 1] = <<Closing[brackets[i][1]]>>
           /\ Balanced(SubSeq(brackets, 1, i - 1) \o SubSeq(brackets, i + 2, Len(brackets)))

\* What is before the name or the message.
Body(l, s) ==
    IF l = "PyArg" /\ Contains(s, ":") THEN SubSeq(s, 1, SelectInSeq(s, LAMBDA c : c = ":") - 1)
    ELSE s

\* The units of a string, in every way to read it.
Readings(l, s) ==
    LET known == Units(l) \cup Gone(l)
    IN  {SelectSeq(cut, LAMBDA p : p \in known) : cut \in
            {x \in Cuts(Body(l, s), known \cup Others(l)) :
                Balanced(SelectSeq(x, LAMBDA p : p \in {<<"(">>, <<")">>, <<"[">>, <<"]">>}))}}

\* What the checker takes that it should not: an "e" or a "t" of which nothing
\* more is there.
Lenient(s) ==
    \E i \in DOMAIN s :
        /\ s[i] \in {"e", "t"}
        /\ i = Len(s) \/ s[i + 1] \notin IF s[i] = "e" THEN {"s", "t"} ELSE {"#"}

\* When the reading has ended: the units are those of the only way to read the
\* string; or, if it ended before, what follows them in each way to read it is one
\* that is not implemented.  If there is none such, there is no way to read it.
RightlyRead ==
    /\ parse = "done" /\ ~Lenient(fmt) => Readings(language, fmt) = {units}
    /\ parse \notin {"reads", "done"} =>
           \A r \in Readings(language, fmt) :
               \E u \in NotImplemented(language) : IsPrefix(Append(units, u), r)

================================================================================
