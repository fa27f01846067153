----------------------------- MODULE MCIterTraces -----------------------------
(***************************************************************************)
(* Functions for TLC to analyse: five shapes of control flow, each with    *)
(* every choice of a few statements for its open places.                   *)
(***************************************************************************)
EXTENDS ConcreteRuns

MCNodes  == 1..8
MCBlocks == {"E", "A", "B", "C", "D", "F"}

S(op, lhs, rhs) == [op |-> op, lhs |-> lhs, rhs |-> rhs]
Op(op) == S(op, "p", "p")

\* A StmtGraph from its rows <<block, statement, successors>>, node 1 first.
Graph(rows) ==
    [entry |-> 1,
     bb    |-> [n \in MCNodes |-> IF n <= Len(rows) THEN rows[n][1] ELSE "E"],
     stmt  |-> [n \in MCNodes |-> IF n <= Len(rows) THEN rows[n][2] ELSE Op("none")],
     succs |-> [n \in MCNodes |-> IF n <= Len(rows) THEN rows[n][3] ELSE <<>>]]

\* p and q are local pointers, a a pointer parameter, n a local integer.
Sources == {S("newref", "p", "p"), S("call", "p", "p"), S("assign", "p", "a"),
            S("null", "p", "p"), S("callneg", "n", "n")}
Middles == {S("assign", "q", "p"), S("null", "p", "p"), S("callneg", "n", "n"),
            S("pass", "n", "q"), S("addr", "q", "q")}
Sinks   == {S("deref", "p", "p"), S("deref", "p", "q"), S("deref", "p", "a"),
            S("callneg", "n", "n"), Op("nop")}
Tests   == {S("cond", "p", v) : v \in {"p", "a", "n"}}

Branch(s1, s2, s3, c, end) ==
    Graph(<< <<"E", Op("none"), <<2>> >>,
             <<"A", s1, <<3>> >>, <<"A", s2, <<4>> >>, <<"A", c, <<5, 7>> >>,
             <<"B", s3, <<6>> >>, <<"B", Op("return"), <<>> >>,
             <<"C", s3, <<8>> >>, <<"C", Op(end), <<>> >> >>)

Loop(s1, s2, s3, c) ==
    Graph(<< <<"E", Op("none"), <<2>> >>,
             <<"D", s1, <<3>> >>,
             <<"A", c, <<4, 6>> >>,
             <<"B", s2, <<5>> >>, <<"B", s3, <<3>> >>,
             <<"C", s3, <<7>> >>, <<"C", Op("return"), <<>> >> >>)

SelfLoop(s1, s2, s3, c) ==
    Graph(<< <<"E", Op("none"), <<2>> >>,
             <<"D", s1, <<3>> >>,
             <<"A", s2, <<4>> >>, <<"A", c, <<3, 5>> >>,
             <<"B", s3, <<6>> >>, <<"B", Op("return"), <<>> >> >>)

\* Block C is entered from A, from B and, at the end of its loop, from D.
TwoEntries(s1, s2, s3, c) ==
    Graph(<< <<"E", Op("none"), <<2>> >>,
             <<"A", s1, <<3>> >>, <<"A", c, <<4, 5>> >>,
             <<"B", s2, <<5>> >>,
             <<"C", s3, <<6>> >>,
             <<"D", S("cond", "p", "n"), <<5, 7>> >>,
             <<"F", Op("return"), <<>> >> >>)

\* The first case falls through into the second; the function falls out.
Switch(s1, s2, s3) ==
    Graph(<< <<"E", Op("none"), <<2>> >>,
             <<"A", s1, <<3>> >>, <<"A", Op("switch"), <<4, 5, 6>> >>,
             <<"B", s2, <<5>> >>,
             <<"C", s3, <<7>> >>,
             <<"D", s2, <<7>> >>,
             <<"F", Op("none"), <<>> >> >>)

MCPrograms ==
    UNION {{Branch(s1, s2, s3, c, "exit"), Loop(s1, s2, s3, c), SelfLoop(s1, s2, s3, c),
            TwoEntries(s1, s2, s3, c), Switch(s1, s2, s3)} :
               s1 \in Sources, s2 \in Middles, s3 \in Sinks, c \in Tests}
=============================================================================
