----------------------------- MODULE GraphQueries -----------------------------
(***************************************************************************)
(* The supergraph of a program put to use: a run of the program that it    *)
(* has to follow, and the operations of gccutils.graph.Graph and of        *)
(* gccutils.topological_sort, of which sets leave the order open.          *)
(***************************************************************************)
EXTENDS StmtGraphs

CONSTANTS
    Programs,   \* the programs
    MaxDepth    \* bound: frames of the running program's stack

INFINITY == 1000    \* stands for 0x80000000: more than there are nodes

ASSUME ProgramsAssumption ==
    \A p \in Programs : WellFormed(p) /\ Cardinality(SuperNodes(p)) < INFINITY

VARIABLES
    prog, nodes, edges,
    task,       \* what is asked of the graph
    stack,      \* the running program
    heap,       \* get_shortest_path: items, the dead ones too
    dist, inedge, answer,
    frames,     \* topological_sort: calls of visit; remove_node: its loops
    visited, order

vars == <<prog, nodes, edges, task, stack, heap, dist, inedge, answer,
          frames, visited, order>>

search == <<heap, dist, inedge, answer>>
walk   == <<frames, visited, order>>

\* What something becomes in some rounds of a function.
Grown(step, start, rounds) ==
    LET grown[k \in 0 .. rounds] == IF k = 0 THEN start ELSE step[grown[k - 1]]
    IN  grown[rounds]

Top(s) == s[Len(s)]
Pop(s) == SubSeq(s, 1, Len(s) - 1)

Init ==
    /\ prog \in Programs
    /\ nodes = SuperNodes(prog) /\ edges = SuperEdges(prog)
    /\ task = [kind |-> "none"]
    /\ stack = <<>>
    /\ heap = {} /\ dist = <<>> /\ inedge = <<>>
    /\ answer = [state |-> "open", path |-> <<>>]
    /\ frames = <<>> /\ visited = {} /\ order = <<>>

-----------------------------------------------------------------------------
(***************************************************************************)
(* A run of the program, by its control flow graphs: a frame is in block   *)
(* bb, at its i-th statement; a call is at "call", then at "return".       *)
(***************************************************************************)
At(f, b) ==
    LET body == Body(prog.funs[f], b)
        call == body # <<>> /\ IsIpCall(prog, Head(body))
    IN  [fun |-> f, bb |-> b, i |-> IF body = <<>> THEN 0 ELSE 1,
         side |-> IF call THEN "call" ELSE "node"]

StmtAt(fr) == IF fr.i = 0 THEN NoStmt ELSE Body(prog.funs[fr.fun], fr.bb)[fr.i]

Start ==
    /\ task.kind = "none"
    /\ task' = [kind |-> "run"]
    /\ \E f \in Funs(prog) : stack' = <<At(f, prog.funs[f].entry)>>
    /\ UNCHANGED <<prog, nodes, edges, search, walk>>

Running == task.kind = "run" /\ stack # <<>>

Call ==
    /\ Running /\ Top(stack).side = "call" /\ Len(stack) < MaxDepth
    /\ \E c \in IpCalls(prog) :
           /\ c.stmt = StmtAt(Top(stack))
           /\ stack' = Append(stack, At(c.callee, prog.funs[c.callee].entry))
    /\ UNCHANGED <<prog, nodes, edges, task, search, walk>>

\* The next statement of the block, or the first one of a next block.
Advance ==
    /\ Running /\ Top(stack).side # "call"
    /\ LET fr == Top(stack)
           fn == prog.funs[fr.fun]
           at(i) == [fun |-> fr.fun, bb |-> fr.bb, i |-> i, side |->
                        IF IsIpCall(prog, Body(fn, fr.bb)[i]) THEN "call" ELSE "node"]
       IN  \/ /\ fr.i < Len(Body(fn, fr.bb))
              /\ stack' = Append(Pop(stack), at(fr.i + 1))
           \/ /\ fr.i = Len(Body(fn, fr.bb))
              /\ \E e \in fn.edges :
                     /\ e.src = fr.bb /\ e.dst \in fn.blocks
                     /\ stack' = Append(Pop(stack), At(fr.fun, e.dst))
    /\ UNCHANGED <<prog, nodes, edges, task, search, walk>>

Return ==
    /\ Running /\ Len(stack) > 1
    /\ Top(stack).bb = prog.funs[Top(stack).fun].exit
    /\ stack' = [Pop(stack) EXCEPT ![Len(stack) - 1].side = "return"]
    /\ UNCHANGED <<prog, nodes, edges, task, search, walk>>

-----------------------------------------------------------------------------
(***************************************************************************)
(* Graph.get_shortest_path.                                                *)
(***************************************************************************)
Item(n, d) == [node |-> n, dist |-> d]

\* A node of another graph.
Outside == SuperNode("other", NoStmt, "node")

AskPath(src, dst) ==
    /\ task.kind = "none"
    /\ task' = [kind |-> "path", src |-> src, dst |-> dst]
    /\ dist' = [n \in nodes |-> IF n = src THEN 0 ELSE INFINITY]
    /\ inedge' = [n \in nodes |-> NoStmt]
    /\ heap' = {Item(n, IF n = src THEN 0 ELSE INFINITY) : n \in nodes}
    /\ UNCHANGED <<prog, nodes, edges, stack, answer, walk>>

\* An item is live until a shorter distance is found, or it is popped.
Live(item) == dist[item.node] = item.dist

\* heappop: of equal distances, the node at the lower address.
Least(item) == \A other \in heap : item.dist <= other.dist

\* Back by the edges that the nodes were reached by.
Previous == [n \in nodes |-> IF inedge[n] = NoStmt THEN n ELSE inedge[n].src]
PathTo(dst) ==
    LET back(k) == Grown(Previous, dst, k)
        len == CHOOSE k \in 0 .. INFINITY :
                   /\ inedge[back(k)] = NoStmt
                   /\ \A j \in 0 .. k - 1 : inedge[back(j)] # NoStmt
    IN  [k \in 1 .. len |-> inedge[back(len - k)]]

\* Mutant of Relax: an edge is followed although as short a way is known.
RelaxAlways(n) ==
    \E e \in {e \in edges : e.src = n} :
        /\ dist' = [dist EXCEPT ![e.dst] = dist[n] + 1]
        /\ inedge' = [inedge EXCEPT ![e.dst] = e]
        /\ heap' = (heap \ {Item(n, dist[n])}) \cup {Item(e.dst, dist[n] + 1)}

\* Of two edges to the same node the one that the set gives first is kept.
Relax(n) ==
    LET out == {e \in edges : e.src = n}
        closer == {e.dst : e \in {e \in out : dist[n] + 1 < dist[e.dst]}}
    IN  /\ dist' = [m \in nodes |-> IF m \in closer THEN dist[n] + 1 ELSE dist[m]]
        /\ \E via \in [closer -> out] :
               /\ \A m \in closer : via[m].dst = m
               /\ inedge' = [m \in nodes |-> IF m \in closer THEN via[m] ELSE inedge[m]]
        /\ heap' = (heap \ {Item(n, dist[n])}) \cup {Item(m, dist[n] + 1) : m \in closer}

Searching == task.kind = "path" /\ answer.state = "open"

Answer(state, path) ==
    answer' = [state |-> state, path |-> path] /\ UNCHANGED <<heap, dist, inedge>>

PopItem ==
    /\ Searching
    /\ \E item \in heap :
           /\ Least(item)
           /\ IF ~Live(item)
              THEN heap' = heap \ {item} /\ UNCHANGED <<dist, inedge, answer>>
              ELSE IF item.node = task.dst THEN Answer("list", PathTo(task.dst))
              ELSE IF item.dist = INFINITY THEN Answer("None", <<>>)
              ELSE Relax(item.node) /\ UNCHANGED answer
    /\ UNCHANGED <<prog, nodes, edges, task, stack, walk>>

\* The heap is empty.
Disjoint ==
    /\ Searching /\ heap = {}
    /\ Answer("None", <<>>)
    /\ UNCHANGED <<prog, nodes, edges, task, stack, walk>>

-----------------------------------------------------------------------------
(***************************************************************************)
(* gccutils.topological_sort of the call graph (sorted_callgraph).         *)
(***************************************************************************)
Callers(f) == {g \in Funs(prog) \ {f} : \E c \in IpCalls(prog) :
                   c.callee = f /\ Caller(prog, c.stmt) = g}
Callees(f) == {g \in Funs(prog) \ {f} : f \in Callers(g)}

AskSort ==
    /\ task.kind = "none"
    /\ task' = [kind |-> "sort", todo |-> Funs(prog)]
    /\ UNCHANGED <<prog, nodes, edges, stack, search, walk>>

Sorting == task.kind = "sort"

\* Mutant of Visit: a node that was visited is visited again, once it is done.
VisitAgain(f, calls) ==
    IF f \in visited /\ f \notin {order[i] : i \in DOMAIN order}
    THEN frames' = calls /\ UNCHANGED <<visited, order>>
    ELSE /\ visited' = visited \cup {f}
         /\ frames' = Append(calls, [node |-> f, todo |-> Callers(f)])
         /\ UNCHANGED order

\* visit(n), up to its loop.
Visit(f, calls) ==
    IF f \in visited THEN frames' = calls /\ UNCHANGED <<visited, order>>
    ELSE /\ visited' = visited \cup {f}
         /\ frames' = Append(calls, [node |-> f, todo |-> Callers(f)])
         /\ UNCHANGED order

\* Mutant of Without: nothing is taken off.
WithoutNone(x) == frames

\* The top frame of a loop over a set, with one member less to do.
Without(x) == Append(Pop(frames), [Top(frames) EXCEPT !.todo = @ \ {x}])

\* The outer loop: functions that call no other.
SortRoot ==
    /\ Sorting /\ frames = <<>>
    /\ \E f \in task.todo :
           /\ task' = [task EXCEPT !.todo = @ \ {f}]
           /\ IF Callees(f) = {} THEN Visit(f, frames) ELSE UNCHANGED walk
    /\ UNCHANGED <<prog, nodes, edges, stack, search>>

SortCaller ==
    /\ Sorting /\ frames # <<>>
    /\ \E f \in Top(frames).todo : Visit(f, Without(f))
    /\ UNCHANGED <<prog, nodes, edges, task, stack, search>>

SortAppend ==
    /\ Sorting /\ frames # <<>> /\ Top(frames).todo = {}
    /\ order' = Append(order, Top(frames).node)
    /\ frames' = Pop(frames)
    /\ UNCHANGED <<prog, nodes, edges, task, stack, search, visited>>

-----------------------------------------------------------------------------
(***************************************************************************)
(* Graph.remove_node: a frame is the loop over the edges of a node, which  *)
(* are listed before the first of them is removed.                         *)
(***************************************************************************)
\* Mutant of Detach: the edges into the node stay.
DetachSuccs(n, calls) ==
    /\ nodes' = nodes \ {n}
    /\ frames' = Append(calls, [node |-> n, todo |-> {e \in edges' : e.src = n}])

Detach(n, calls) ==
    /\ nodes' = nodes \ {n}
    /\ frames' = Append(calls, [node |-> n, todo |-> {e \in edges' : n \in {e.src, e.dst}}])

AskRemove(n) ==
    /\ task.kind = "none" /\ n \in nodes
    /\ task' = [kind |-> "remove", node |-> n]
    /\ UNCHANGED edges
    /\ Detach(n, frames)
    /\ UNCHANGED <<prog, stack, search, visited, order>>

\* remove_edge, which removes the destination with its last edge.
RemoveEdge ==
    /\ task.kind = "remove" /\ frames # <<>>
    /\ \E e \in Top(frames).todo :
           IF e \notin edges THEN frames' = Without(e) /\ UNCHANGED <<nodes, edges>>
           ELSE /\ edges' = edges \ {e}
                /\ IF e.dst \in nodes /\ \A other \in edges' : other.dst # e.dst
                   THEN Detach(e.dst, Without(e))
                   ELSE frames' = Without(e) /\ UNCHANGED nodes
    /\ UNCHANGED <<prog, task, stack, search, visited, order>>

RemoveReturn ==
    /\ task.kind = "remove" /\ frames # <<>> /\ Top(frames).todo = {}
    /\ frames' = Pop(frames)
    /\ UNCHANGED <<prog, nodes, edges, task, stack, search, visited, order>>

-----------------------------------------------------------------------------
Next ==
    \/ Start \/ Call \/ Advance \/ Return
    \/ \E f \in Funs(prog), dst \in nodes \cup {Outside} : AskPath(Entry(prog, f), dst)
    \/ PopItem \/ Disjoint
    \/ AskSort \/ SortRoot \/ SortCaller \/ SortAppend
    \/ \E n \in nodes : AskRemove(n)
    \/ RemoveEdge \/ RemoveReturn

Spec == Init /\ [][Next]_vars /\ WF_vars(Next)

-----------------------------------------------------------------------------
\* The supernode of the statement that a frame is at.
Place(fr) == SuperNode(fr.fun, StmtAt(fr), fr.side)

Joined(graph, src, dst) == \E e \in graph : e.src = src /\ e.dst = dst

NodeAt(fr) == StmtNode(fr.bb, StmtAt(fr))

\* The graph that the checker follows has no complex edges.
Followed(fr, next) ==
    LET fn == prog.funs[fr.fun]
    IN  \/ Joined(StmtEdges(fn, TRUE), NodeAt(fr), NodeAt(next))
        \/ \E e \in fn.edges : e.complex /\ e.src = fr.bb /\ e.dst = next.bb

\* RunFollowed: whatever the program does, from statement to statement, into a
\* function and back to its caller, there is an edge of the supergraph for it,
\* and within a function one of its StmtGraph.
RunFollowed ==
    [][ stack # <<>> =>
          /\ Joined(edges, Place(Top(stack)), Place(Top(stack')))
          /\ Len(stack') = Len(stack) => Followed(Top(stack), Top(stack')) ]_stack

\* The nodes that k edges or less lead to.
Outward ==
    [near \in SUBSET nodes |-> near \cup {e.dst : e \in {e \in edges : e.src \in near}}]
Within(src, k) == Grown(Outward, {src}, k)

\* ShortestFound: the edges answered lead from src to dst, no fewer do, and when
\* there are none, either dst is src or nothing leads there.
ShortestFound ==
    (task.kind = "path" /\ ~Searching) =>
        IF answer.path = <<>>
        THEN task.src = task.dst \/ task.dst \notin Within(task.src, Cardinality(nodes))
        ELSE LET path == answer.path
             IN  /\ path[1].src = task.src /\ path[Len(path)].dst = task.dst
                 /\ \A i \in 1 .. Len(path) - 1 : path[i].dst = path[i + 1].src
                 /\ task.dst \notin Within(task.src, Len(path) - 1)

\* The functions from which f can be called.
Upward ==
    [near \in SUBSET Funs(prog) |-> near \cup UNION {Callers(g) : g \in near}]
CalledFrom(f) == Grown(Upward, Callers(f), Cardinality(Funs(prog)))

Before(f, g) == \E i, j \in DOMAIN order : i < j /\ order[i] = f /\ order[j] = g

\* CallersFirst: no function is listed twice, and before each one come those that
\* call it, unless they are called from it in turn.
CallersFirst ==
    /\ \A i, j \in DOMAIN order : i # j => order[i] # order[j]
    /\ \A i \in DOMAIN order : \A g \in Callers(order[i]) :
           order[i] \in CalledFrom(g) \/ Before(g, order[i])

\* What a removal leaves: a node goes if it is the one, or if all its edges come
\* from nodes that go.
Orphaned(p) ==
    [gone \in SUBSET SuperNodes(p) |->
        gone \cup {n \in SuperNodes(p) :
                     LET in == {e \in SuperEdges(p) : e.dst = n}
                     IN  in # {} /\ \A e \in in : e.src \in gone}]
Gone == Grown(Orphaned(prog), {task.node}, Cardinality(SuperNodes(prog)))

\* RemovedExactly: in whichever order edges are removed, what remains is what is
\* still reached, and no edge leads to or from a node that is gone.
RemovedExactly ==
    (task.kind = "remove" /\ frames = <<>>) =>
        LET gone == Gone
        IN  /\ nodes = SuperNodes(prog) \ gone
            /\ edges = {e \in SuperEdges(prog) : {e.src, e.dst} \cap gone = {}}

\* TasksEnd: queries are answered.
TasksEnd ==
    /\ Searching ~> ~Searching
    /\ (frames # <<>>) ~> (frames = <<>>)
=============================================================================
