---------------------------- MODULE MCGraphQueries ----------------------------
EXTENDS GraphQueries, TLC

\* Blocks 0 and 1 are the entry and exit, as in GCC.
E(s, d) == [src |-> s, dst |-> d, complex |-> FALSE]
NoPhis(bs) == [b \in bs |-> <<>>]
Straight(body) ==
    [blocks |-> 0..2, entry |-> 0, exit |-> 1, phis |-> NoPhis(0..2),
     stmts |-> (0 :> <<>> @@ 1 :> <<>> @@ 2 :> body), edges |-> {E(0, 2), E(2, 1)}]
\* Two arms, the second one with a call; a block of no statements; a phi node.
Branching(cond, arm, phi, ret) ==
    [blocks |-> 0..5, entry |-> 0, exit |-> 1,
     phis |-> (5 :> phi) @@ NoPhis(0..5),
     stmts |-> (0 :> <<>> @@ 1 :> <<>> @@ 2 :> cond @@ 3 :> arm @@ 4 :> <<>> @@ 5 :> ret),
     edges |-> {E(0, 2), E(2, 3), E(2, 4), E(3, 5), E(4, 5), E(5, 1),
                [src |-> 3, dst |-> 1, complex |-> TRUE], E(2, 9)}]
Calls(s, f) == [stmt |-> s, callee |-> f]

\* main calls f twice, f calls g.
Nested ==
    [funs |-> ("main" :> Straight(<<"m1", "m2">>) @@ "f" :> Straight(<<"f1", "f2">>)
               @@ "g" :> Straight(<<"g1">>)),
     calls |-> {Calls("m1", "f"), Calls("m2", "f"), Calls("f1", "g"), Calls("g1", "puts")}]
\* f and g call each other, and g calls h.
Mutual ==
    [funs |-> ("f" :> Branching(<<"f1">>, <<"f2">>, <<"fp">>, <<"f3">>)
               @@ "g" :> Straight(<<"g1", "g2">>) @@ "h" :> Straight(<<"h1">>)),
     calls |-> {Calls("f2", "g"), Calls("g1", "f"), Calls("g2", "h")}]
\* main calls both others, of which one calls the other and itself.
Shared ==
    [funs |-> ("main" :> Straight(<<"m1", "m2">>) @@
               "f" :> Branching(<<"f1">>, <<"f2">>, <<>>, <<"f3">>) @@
               "g" :> Straight(<<"g1">>)),
     calls |-> {Calls("m1", "f"), Calls("m2", "g"), Calls("f2", "f"), Calls("f3", "g")}]
\* p and q call each other and nothing else.
Ring ==
    [funs |-> ("p" :> Straight(<<"p1">>) @@ "q" :> Straight(<<"q1">>)),
     calls |-> {Calls("p1", "q"), Calls("q1", "p")}]
\* k enters a ring, which calls h.
Entered ==
    [funs |-> ("k" :> Straight(<<"k1">>) @@ "f" :> Straight(<<"f1">>)
               @@ "g" :> Straight(<<"g1", "g2">>) @@ "h" :> Straight(<<"h1">>)),
     calls |-> {Calls("k1", "g"), Calls("g1", "f"), Calls("g2", "h"), Calls("f1", "g")}]
MCPrograms == {Nested, Mutual, Shared, Ring, Entered}
MCStmts == {"m1", "m2", "f1", "f2", "f3", "fp", "g1", "g2", "h1", "p1", "q1", "k1"}
=============================================================================
