------------------------------- MODULE Conversions -------------------------------
(***************************************************************************)
(* Conversions between the integer types of ValueRanges that do not narrow *)
(* the value: for these GCC uses a NopExpr, where ConvertExpr is for those *)
(* that truncate.  The execution converts as C does, so that a negative    *)
(* value wraps; eval_rhs takes the value that the operand has, its range   *)
(* and its type included.                                                  *)
(***************************************************************************)
EXTENDS ValueRanges

\* v = (type of v) w.
NopExpr(v, w) ==
    /\ stmt = NoStmt /\ typ[v] # typ[w]
    /\ \E n \in Values([op |-> "convert", lhs |-> v, a |-> w, b |-> w]) :
           val' = [val EXCEPT ![v] = n]
    /\ abs' = [abs EXCEPT ![v] = abs[w]]
    /\ same' = Sharing([op |-> "copy", lhs |-> v, b |-> w])
    /\ UNCHANGED <<typ, stmt>>

ConvertingNext == Next \/ \E v, w \in Vars : NopExpr(v, w)

ConvertingSpec == Init /\ [][ConvertingNext]_vars

\* ValuesKnown: "A value known to be within a given range" (WithinRange): the
\* values that variables have in the execution are within what is known of them,
\* also after they were converted.
ValuesKnown == \A v \in Vars : Contains(abs[v], val[v])
=============================================================================
