--------------------------------- MODULE Reports ---------------------------------
(***************************************************************************)
(* From the traces of a function to the warnings that GCC prints and the   *)
(* files that are written: the pass of the checker runs over the functions *)
(* of a file (CpyCheckerGimplePass.execute), makes reports for the end of  *)
(* each trace (impl_check_refcounts), merges those that say the same       *)
(* (Reporter.remove_duplicates), flushes the others and dumps them.        *)
(*                                                                         *)
(* How a trace ends is taken as given: IterTraces finds the traces and     *)
(* RefcountFacet the references.  The text of a message is what tells two  *)
(* messages apart.                                                         *)
(***************************************************************************)
EXTENDS Integers, Sequences, SequencesExt

CONSTANTS
    Names,          \* names of functions: overloads of C++ share one
    Locs,           \* locations of statements that traces end at
    Objects, Descs, \* objects, and the descriptions that may be found for them
    Balances,       \* references to an object, against what is expected
    Complaints,     \* what may be said of the value that is returned
    MaxTraces       \* bounds: the traces of the first function of the file, the second...

\* The checks of the value that is returned, in their order.  Deallocated memory
\* is no NULL, and neither is negative; a function that is marked to set an
\* exception may be that for any value.
ReturnChecks ==
    {<<>>, <<"deallocated">>, <<"NULL">>, <<"sets">>, <<"negative">>,
     <<"deallocated", "sets">>, <<"NULL", "sets">>, <<"sets", "negative">>}

ASSUME BoundsAssumption ==
    MaxTraces \in Seq(Nat) /\ Balances \subseteq Int /\ Complaints \subseteq ReturnChecks

VARIABLES
    options,    \* of the pass, and whether the file includes Python.h
    pc,
    fun,        \* the functions analysed so far: their names
    traces,     \* the traces of the last one: how they end
    todo,       \* of the last trace: objects that are still to be checked
    made,       \* all the reports made for the function
    reports,    \* Reporter.reports, by their index in made
    duplicates, \* Report.duplicates
    outer, report, inner, \* the loops of remove_duplicates
    notes,      \* "found %i similar trace(s) to this"
    emitted,    \* the warnings given to GCC
    files       \* what the files for each name contain

loops == <<outer, report, inner>>
vars  == <<options, pc, fun, traces, todo, made, reports, duplicates, loops, notes, emitted, files>>

-----------------------------------------------------------------------------
Options ==
    [python : BOOLEAN, only_on_python_code : BOOLEAN, verify_refcounting : BOOLEAN,
     show_possible_null_derefs : BOOLEAN]

\* Ends of traces.  Objects have a balance against what is expected, and the
\* description that get_description_for_region finds first in a set.
Errors == [kind : {"error"}, msg : {"NULL", "other"}, definite : BOOLEAN, loc : Locs]
Exits  == [kind : {"exit"}, loc : Locs]
Returns ==
    [kind : {"return"}, loc : Locs, complaints : Complaints,
     balance : [Objects -> Balances], desc : [Objects -> Descs \cup {""}]]

\* An object that is neither leaked nor missing needs no description, and only
\* a NULL pointer or arithmetic is ever no more than a possible error.
Ends ==
    {e \in Errors : e.msg = "other" => e.definite} \cup Exits
      \cup {e \in Returns : \A o \in Objects :
               e.balance[o] = 0 <=> e.desc[o] = ""}

Message(loc, kind, desc) == [loc |-> loc, kind |-> kind, desc |-> desc]

\* Mutant of Suppressed: as if all errors were definite.
SuppressedNever(e) == FALSE

\* Reports on errors that may not happen are left out, on request.
Suppressed(e) ==
    /\ e.msg = "NULL" /\ ~e.definite
    /\ ~options.show_possible_null_derefs

ObjectMessage(e, o) ==
    Message(e.loc, IF e.balance[o] > 0 THEN "memory leak" ELSE "use-after-free",
            <<e.desc[o], e.balance[o]>>)

-----------------------------------------------------------------------------
Init ==
    /\ options \in Options
    /\ pc = "pass" /\ fun = <<>> /\ traces = <<>> /\ todo = {}
    /\ made = <<>> /\ reports = <<>> /\ duplicates = <<>>
    /\ outer = <<>> /\ report = 0 /\ inner = <<>>
    /\ notes = <<>> /\ emitted = <<>>
    /\ files = [n \in Names |-> {}]

\* make_warning, for each of a sequence of messages.
Make(messages) ==
    /\ made' = made \o messages
    /\ reports' = reports \o [i \in 1..Len(messages) |-> Len(made) + i]
    /\ duplicates' = duplicates \o [i \in 1..Len(messages) |-> <<>>]

\* The pass is run on a function: the checker looks at it, or not.  There is a
\* Reporter for each function.
Execute ==
    /\ pc = "pass" /\ Len(fun) < Len(MaxTraces)
    /\ \E n \in Names : fun' = Append(fun, n)
    /\ pc' = IF (options.only_on_python_code => options.python) /\ options.verify_refcounting
             THEN "traces" ELSE "pass"
    /\ traces' = <<>> /\ made' = <<>> /\ reports' = <<>> /\ duplicates' = <<>>
    /\ notes' = <<>> /\ emitted' = <<>>
    /\ UNCHANGED <<options, todo, loops, files>>

LastTrace == Last(traces)

\* The next trace.  Nothing more is asked of one that ends in an error or in a
\* function that does not return.
TakeTrace ==
    /\ pc = "traces" /\ Len(traces) < MaxTraces[Len(fun)]
    /\ \E e \in Ends :
           /\ traces' = Append(traces, e)
           /\ IF e.kind = "error" /\ ~Suppressed(e)
              THEN Make(<<Message(e.loc, e.msg, <<>>)>>) ELSE UNCHANGED <<made, reports, duplicates>>
           /\ IF e.kind = "return" THEN pc' = "objects" /\ todo' = Objects
              ELSE UNCHANGED <<pc, todo>>
    /\ UNCHANGED <<options, fun, loops, notes, emitted, files>>

\* The objects come in the order of a dictionary.
CheckObject ==
    /\ pc = "objects"
    /\ \E o \in todo :
           /\ todo' = todo \ {o}
           /\ IF LastTrace.balance[o] # 0 THEN Make(<<ObjectMessage(LastTrace, o)>>)
              ELSE UNCHANGED <<made, reports, duplicates>>
    /\ UNCHANGED <<options, pc, fun, traces, loops, notes, emitted, files>>

\* The value that is returned, and the exception: up to two reports.
CheckReturn ==
    /\ pc = "objects" /\ todo = {} /\ pc' = "traces"
    /\ Make([i \in DOMAIN LastTrace.complaints |->
                 Message(LastTrace.loc, LastTrace.complaints[i], <<>>)])
    /\ UNCHANGED <<options, fun, traces, todo, loops, notes, emitted, files>>

-----------------------------------------------------------------------------
(***************************************************************************)
(* remove_duplicates: both loops run over copies of the list, from which   *)
(* reports are removed.                                                    *)
(***************************************************************************)
IsDuplicate(r) == \E s \in DOMAIN duplicates : Contains(duplicates[s], r)

StartRemoval ==
    /\ pc = "traces" /\ pc' = "removal" /\ outer' = reports /\ inner' = <<>>
    /\ UNCHANGED <<options, fun, traces, todo, made, reports, duplicates, report, notes, emitted, files>>

NextReport ==
    /\ pc = "removal" /\ inner = <<>> /\ outer # <<>>
    /\ outer' = Tail(outer)
    /\ IF IsDuplicate(Head(outer)) THEN UNCHANGED <<report, inner>>
       ELSE report' = Head(outer) /\ inner' = reports
    /\ UNCHANGED <<options, pc, fun, traces, todo, made, reports, duplicates, notes, emitted, files>>

\* is_duplicate_of.
Same(r, s) == made[r] = made[s]

\* Mutant of NextCandidate: the loop runs over the list itself, which moves up
\* by one when a report is removed.
NextCandidateLive(removed) ==
    IF removed /\ Len(inner) > 1 THEN Tail(Tail(inner)) ELSE Tail(inner)

NextCandidate(removed) == Tail(inner)

\* Mutant of Removed: the duplicate is marked, but remains.
RemovedNever(candidate) == reports

Removed(candidate) ==
    RemoveAt(reports, CHOOSE i \in DOMAIN reports : reports[i] = candidate)

CompareCandidate ==
    /\ pc = "removal" /\ inner # <<>>
    /\ LET candidate == Head(inner)
           same == report # candidate /\ Same(candidate, report)
       IN  /\ inner' = NextCandidate(same)
           /\ IF same
              THEN /\ duplicates' = [duplicates EXCEPT ![report] = Append(@, candidate)]
                   /\ reports' = Removed(candidate)
              ELSE UNCHANGED <<duplicates, reports>>
    /\ UNCHANGED <<options, pc, fun, traces, todo, made, outer, report, notes, emitted, files>>

AddNotes ==
    /\ pc = "removal" /\ inner = <<>> /\ outer = <<>> /\ pc' = "flush"
    /\ notes' = [r \in ToSet(reports) |-> Len(duplicates[r])]
    /\ UNCHANGED <<options, fun, traces, todo, made, reports, duplicates, loops, emitted, files>>

-----------------------------------------------------------------------------
\* flush, and the files if there were any warnings.
Flush ==
    /\ pc = "flush" /\ pc' = "pass"
    /\ emitted' = [i \in DOMAIN reports |-> made[reports[i]]]
    /\ files' = IF made = <<>> THEN files
                ELSE [files EXCEPT ![Last(fun)] = {made[r] : r \in ToSet(reports)}]
    /\ UNCHANGED <<options, fun, traces, todo, made, reports, duplicates, loops, notes>>

Finished == pc = "pass" /\ Len(fun) = Len(MaxTraces) /\ UNCHANGED vars

Next ==
    \/ Execute \/ TakeTrace \/ CheckObject \/ CheckReturn
    \/ StartRemoval \/ NextReport \/ CompareCandidate \/ AddNotes
    \/ Flush \/ Finished

Spec == Init /\ [][Next]_vars

-----------------------------------------------------------------------------
(***************************************************************************)
(* Correctness.                                                            *)
(***************************************************************************)
\* Types.  A report is in the list or in that of its duplicates, once.
TypeOK ==
    /\ options \in Options
    /\ pc \in {"pass", "traces", "objects", "removal", "flush"}
    /\ fun \in Seq(Names) /\ ToSet(traces) \subseteq Ends /\ todo \subseteq Objects
    /\ Len(duplicates) = Len(made)
    /\ \A r \in DOMAIN made : Contains(reports, r) # IsDuplicate(r)
    /\ IsInjective(reports) /\ ToSet(reports) \subseteq DOMAIN made
    /\ ToSet(outer) \cup ToSet(inner) \subseteq DOMAIN made \/ pc # "removal"

\* OneOfEach: remove_duplicates keeps "the first Report within each class" and
\* nothing else, and leaves all the others of the class with it: it has the
\* number of them in its note, and no duplicate has duplicates of its own.
OneOfEach ==
    pc = "flush" =>
        /\ \A r, s \in ToSet(reports) : Same(r, s) => r = s
        /\ \A r \in ToSet(reports) :
               /\ ToSet(duplicates[r]) = {s \in DOMAIN made : s > r /\ Same(r, s)}
               /\ notes[r] = Len(duplicates[r]) /\ IsInjective(duplicates[r])
        /\ \A r \in DOMAIN made : IsDuplicate(r) => duplicates[r] = <<>>

\* What is to be said of a function, by how its traces end.
Faults ==
    {Message(e.loc, e.msg, <<>>) : e \in {t \in ToSet(traces) :
         t.kind = "error" /\ (t.definite \/ options.show_possible_null_derefs)}}
    \cup UNION {{ObjectMessage(e, o) : o \in {x \in Objects : e.balance[x] # 0}}
                  \cup {Message(e.loc, c, <<>>) : c \in ToSet(e.complaints)}
                : e \in {t \in ToSet(traces) : t.kind = "return"}}

\* SaidOnce: when a function is done, GCC has been given every warning that its
\* traces call for, none twice and no other, and they are what its files show.
SaidOnce ==
    pc = "pass" /\ fun # <<>> =>
        /\ ToSet(emitted) = Faults /\ IsInjective(emitted)
        /\ Faults # {} => files[Last(fun)] = Faults

==================================================================================
