------------------------------ MODULE StmtGraphs ------------------------------
(***************************************************************************)
(* The graph of the statements of a function (gccutils/graph/stmtgraph.py) *)
(* and the supergraph of a program (gccutils/graph/supergraph.py), as      *)
(* functions of GCC's control flow graphs and call graph.                  *)
(*                                                                         *)
(* A function is a record of its blocks, entry and exit, of the phi nodes  *)
(* and statements of each block, and of its edges: source, destination,    *)
(* whether it is "complex", the label of a switch it stands for.  No two   *)
(* statements are equal.  A program has functions, by name, and calls: the *)
(* edges of the call graph, each a statement and its callee.               *)
(***************************************************************************)
EXTENDS Naturals, Sequences, FiniteSets

CONSTANTS
    Stmts,      \* the statements
    NoStmt      \* the stmt of a node without one: None

ASSUME StmtsAssumption == NoStmt \notin Stmts

-----------------------------------------------------------------------------
(***************************************************************************)
(* StmtGraph.__init__, without split_phi_nodes.                            *)
(***************************************************************************)
\* What a block holds: its phi nodes, then its statements.
Body(fn, b) == fn.phis[b] \o fn.stmts[b]

\* A StmtNode, EntryNode or ExitNode.
StmtNode(b, s) == [bb |-> b, stmt |-> s]

EntryOfBB(fn, b) ==
    StmtNode(b, IF Body(fn, b) = <<>> THEN NoStmt ELSE Head(Body(fn, b)))

ExitOfBB(fn, b) ==
    StmtNode(b, IF Body(fn, b) = <<>> THEN NoStmt ELSE Body(fn, b)[Len(Body(fn, b))])

StmtNodes(fn) ==
    UNION {{EntryOfBB(fn, b)} \cup {StmtNode(b, Body(fn, b)[i]) : i \in DOMAIN Body(fn, b)}
           : b \in fn.blocks}

\* cfgedge is None within a block.
InnerEdges(fn) ==
    UNION {{[src |-> StmtNode(b, Body(fn, b)[i]), dst |-> StmtNode(b, Body(fn, b)[i + 1]),
             cfgedge |-> NoStmt] : i \in 1 .. Len(Body(fn, b)) - 1} : b \in fn.blocks}

\* The edges of the CFG that are followed: not those to blocks that are gone.
KeptEdges(fn, omitComplex) ==
    {e \in fn.edges : e.dst \in fn.blocks /\ ~(omitComplex /\ e.complex)}

\* Mutant of CrossEdges: an edge leaves the block where the block is entered.
CrossEdgesFromEntry(fn, omitComplex) ==
    {[src |-> EntryOfBB(fn, e.src), dst |-> EntryOfBB(fn, e.dst), cfgedge |-> e] :
        e \in KeptEdges(fn, omitComplex)}

CrossEdges(fn, omitComplex) ==
    {[src |-> ExitOfBB(fn, e.src), dst |-> EntryOfBB(fn, e.dst), cfgedge |-> e] :
        e \in KeptEdges(fn, omitComplex)}

StmtEdges(fn, omitComplex) == InnerEdges(fn) \cup CrossEdges(fn, omitComplex)

\* StmtNode.__eq__ and __hash__: nodes are what their statements are, so all
\* the empty nodes of a function are one key of a dictionary, one member of a set.
Key(node) == node.stmt

-----------------------------------------------------------------------------
(***************************************************************************)
(* Supergraph.__init__, without the fake entry node: with it, the          *)
(* dictionary supernode_for_stmtnode compares an empty node with None,     *)
(* and StmtNode.__eq__ raises AttributeError.                              *)
(***************************************************************************)
Funs(p) == DOMAIN p.funs

\* 1st pass.
IpCalls(p) == {c \in p.calls : c.callee \in Funs(p)}
IsIpCall(p, s) == \E c \in IpCalls(p) : c.stmt = s

SuperNode(f, s, kind) == [fun |-> f, stmt |-> s, kind |-> kind]

\* supernode_for_stmtnode, which has a CallNode and a ReturnNode for a call.
Arrival(p, f, node) ==
    SuperNode(f, Key(node), IF IsIpCall(p, Key(node)) THEN "call" ELSE "node")
Departure(p, f, node) ==
    SuperNode(f, Key(node), IF IsIpCall(p, Key(node)) THEN "return" ELSE "node")

Edge(src, dst, kind, inner) == [src |-> src, dst |-> dst, kind |-> kind, inner |-> inner]

\* 2nd pass.
SuperNodes(p) ==
    UNION {UNION {{Arrival(p, f, n), Departure(p, f, n)} : n \in StmtNodes(p.funs[f])}
           : f \in Funs(p)}
CloneEdges(p) ==
    UNION {{Edge(Departure(p, f, e.src), Arrival(p, f, e.dst), "inner", e.cfgedge)
            : e \in StmtEdges(p.funs[f], FALSE)} : f \in Funs(p)}

\* The function that a call is in.
Caller(p, s) ==
    CHOOSE f \in Funs(p) : \E n \in StmtNodes(p.funs[f]) : n.stmt = s

CallNode(p, c)   == SuperNode(Caller(p, c.stmt), c.stmt, "call")
ReturnNode(p, c) == SuperNode(Caller(p, c.stmt), c.stmt, "return")
Entry(p, f) == Arrival(p, f, EntryOfBB(p.funs[f], p.funs[f].entry))
Exit(p, f)  == Departure(p, f, EntryOfBB(p.funs[f], p.funs[f].exit))

\* Mutant of CallEdges: a function returns to before the call.
CallEdgesBack(p) ==
    UNION {{Edge(CallNode(p, c), ReturnNode(p, c), "callToReturn", NoStmt),
            Edge(CallNode(p, c), Entry(p, c.callee), "callToStart", NoStmt),
            Edge(Exit(p, c.callee), CallNode(p, c), "exitToReturn", NoStmt)}
           : c \in IpCalls(p)}

\* CallToReturnSiteEdge of the 2nd pass; CallToStart and ExitToReturnSite, 3rd.
CallEdges(p) ==
    UNION {{Edge(CallNode(p, c), ReturnNode(p, c), "callToReturn", NoStmt),
            Edge(CallNode(p, c), Entry(p, c.callee), "callToStart", NoStmt),
            Edge(Exit(p, c.callee), ReturnNode(p, c), "exitToReturn", NoStmt)}
           : c \in IpCalls(p)}

SuperEdges(p) == CloneEdges(p) \cup CallEdges(p)

-----------------------------------------------------------------------------
(***************************************************************************)
(* What GCC sees to: functions and blocks are finite, edges start in a     *)
(* block, nothing is in the exit block, and a statement, so a call, is in  *)
(* one function.  None is no edge.                                         *)
(***************************************************************************)
StmtsOf(fn) == UNION {{Body(fn, b)[i] : i \in DOMAIN Body(fn, b)} : b \in fn.blocks}

WellFormed(p) ==
    /\ IsFiniteSet(Funs(p))
    /\ \A f \in Funs(p) :
          LET fn == p.funs[f]
          IN  /\ IsFiniteSet(fn.blocks) /\ {fn.entry, fn.exit} \subseteq fn.blocks
              /\ \A b \in fn.blocks : Body(fn, b) \in Seq(Stmts)
              /\ Body(fn, fn.exit) = <<>>
              /\ \A e \in fn.edges : e.src \in fn.blocks
    /\ \A f, g \in Funs(p) : f # g => StmtsOf(p.funs[f]) \cap StmtsOf(p.funs[g]) = {}
    /\ \A c \in p.calls : \E f \in Funs(p) : c.stmt \in StmtsOf(p.funs[f])
    /\ NoStmt \notin SuperEdges(p)
=============================================================================
