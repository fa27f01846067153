# A TLA+ verification of gcc-python-plugin

gcc-python-plugin embeds CPython in GCC; its largest application is *cpychecker*, a static
analyser that follows every path of a C function which uses the CPython API and reports
reference-count errors. This directory models the parts of both that are hard to test.
Source paths below are relative to the repository, and `PROJECT.json` maps every definition
to the lines it stands for.

## 1. Inventory

| Component | State it keeps | Operations | What is hard |
|---|---|---|---|
| Trace search, `absinterp.iter_traces` | the stack of prefixes being extended, paths taken, `Limits.trans_seen` | `Trace.add`, `has_looped`, `on_transition`, recursion, `TooComplicated` | termination on loops, partial results carried out by an exception, a budget shared by the recursion |
| Abstract states, `absinterp.State` | values of regions, location, `return_rvalue` | `get_transitions` per kind of statement, splitting of values | copies of one value must be split together; a mark set at the split is read much later |
| Memory, `absinterp.State` and `Region` | one Region per variable, field and element, shared by all states; a value per Region and state | `eval_lvalue`, `get_store`, `assign`, pointer arithmetic, allocation, deallocation | a cell has several Regions, found by name, by known index, by the object that an index is; those made on one path are seen on another |
| CPython facet, `refcounts.py` | `RefcountValue` per object, exception, GIL | one `impl_*` handler per C API function, `check_refcount_for_one_object` | a reference moves through many calls; an account that is off by one cancels out in short tests |
| Attributes, `attributes.py` | tables by function name | registration callbacks during the parse | they are read by the facet much later |
| Ranges, `WithinRange` | minimum, maximum | arithmetic, comparison, splitting | operations that are not monotonic; containment |
| C API handlers, `refcounts.py` | references, exception, GIL | some 130 `impl_*` methods, one per API function | each follows by hand the conventions of its function, on every outcome |
| Format strings, `PyArg_ParseTuple.py`, `Py_BuildValue.py`, `formatstrings.py` | parser position, units, types expected | one step per format unit, one per argument | nested groups, look-ahead, units of two arguments of which the first decides the type of the second, `PY_SSIZE_T_CLEAN` |
| Reports, `diagnostics.py` | reports, duplicates | add, de-duplicate, flush | which of several similar reports survives |
| Graphs, `gccutils/graph/`, `gccutils/__init__.py` | nodes, edges, tables by block and statement | construction, supergraph, shortest path, removal, topological sort | node identity, edges into and out of calls, a search that keeps stale items, removal that recurses while it iterates |
| Wrappers, `gcc-python-wrapper.c` and the caches of `gcc-python-cfg.c` | doubly linked list of live wrappers, dictionaries keyed by address | track, untrack, dealloc, lazily create, mark | a wrapper that is not in the list lets GCC free what it wraps; addresses are reused |
| Callbacks, passes and attributes, `gcc-python-callbacks.c`, `-pass.c`, `-attribute.c`, `gcc-python.c` | `current_event`, `input_location`, the GIL, registered closures, pass cache | register, invoke, gate, execute, handle, finalize | nesting, errors on the way out, order at finalization |
| Code generators, build and tests | none at run time | print C source, run compilers | not concurrent, not stateful |

The plugin calls Python when GCC reaches an event or a pass; cpychecker's pass gets the
function, `stmtgraph` makes its graph, `iter_traces` walks it with a `State` whose `cpython`
facet interprets the calls, and `impl_check_refcounts` judges the traces and writes reports.
There is one thread. What is asynchronous is GCC's garbage collector, which runs between
any two statements of GCC and must find every object that Python still wraps.

What makes each component correct: the search finds exactly the paths of the function and
loses none; a state never follows an impossible path, and an error is called definite only if
it is; the facet's account of references agrees with what the calls do; ranges contain the
values they stand for; the list of wrappers is exactly the live ones; the event and the
location are restored whatever a callback does.

## 2. Plan

1. **IterTraces** (with `AbstractState` and `ConcreteRuns`): done, with proofs.
2. **RefcountFacet**: done for the calls that move references in different ways, with proofs.
3. **WrapperGC**: list, reference counts, caches and collector, refining `PinnedObjects`: done,
   with proofs.
4. **ValueRanges**: concrete and abstract arithmetic side by side: done, with proofs for the
   operations that are monotonic in each operand. `Conversions` adds the `NopExpr`. Left: shifts
   in the proofs.
5. **PluginEntries**: events, gate and execute, attributes, finalization: done, with proofs.
6. **StmtGraphs**, **GraphQueries**: statement graphs, the supergraph and what is asked of them: done,
   with proofs.
7. **ApiCalls**: every handler of the C API, refining the conventions of `ApiContract`: done,
   with proofs.
8. **FormatStrings**, **FormatArguments**: both languages and the checks of arguments: done.
9. **Reports**: from the ends of traces to warnings and files: done, with proofs.
10. **Regions**: arrays, structs, pointers into them and the values a state has for them: done,
    with proofs.

Composition: IterTraces uses AbstractState's transitions; RefcountFacet is the facet of the
same states along one path, Regions their memory; ApiCalls has the calls that RefcountFacet has representatives of;
Reports starts from how the traces of IterTraces end; GraphQueries and FormatArguments extend the
modules that build the graphs and read the strings.

## 3. What is modelled

### Trace search: `AbstractState`, `IterTraces`, `ConcreteRuns`

`AbstractState` has the states and transitions of a function over pointers and opaque
integers: an assignment, a dereference, a call that returns an unknown value, a call that
returns a new reference or fails, a test of a pointer or an integer, a return, an `abort`.
The values of pointers have an identity, as Python objects do, because a split replaces the
copies of one value by identity (`SplitValue.split`); each alternative carries `fromsplit`,
which decides whether an error is definite. A test of a parameter is not split by the code
(the region of a parameter is found through its declaration), which is why `Feasible`
does not ask anything of traces with such a test.

`IterTraces` has one action per step of the recursion. `frames` is Python's stack: a frame is
a call of `iter_traces` with its prefix, the transitions it loops over and the results it has.
`Return`, `CallPredictedError`, `CallExpand` and `CallNoTransitions` are the parts of the call
before the loop, `LoopRecurse`, `LoopTooComplicated` and `LoopEnd` the loop, `Receive` and
`Propagate` what a frame does with its callee's result or exception, and `Deliver` the
caller, `impl_check_refcounts`. The budget is always given, as that caller does
(`maxtrans` is 256 by default); the other caller, `refcounts.py:3826`, gives none.

`ConcreteRuns` is the reference: the executions of the same function, with real values for
what the abstract states leave open.

| Property | Says |
|---|---|
| `TypeOK` | what is passed, returned and raised is always a list of traces |
| `Complete` | every execution without a loop is described by exactly one returned trace, unless the budget tripped |
| `Feasible` | every returned trace describes an execution |
| `DefiniteIsInevitable` | an error called definite happens on every execution that reaches that point |
| `StopsCleanly` | nothing is explored once the budget is exceeded, the caller knows exactly when (`LimitsRespected`), and no prefix is then reported as a trace (`OnlyComplete`) |
| `NothingLost` | no step forgets a complete trace |
| `Terminates` | the search ends |

`Terminates` assumes weak fairness of the next step: the interpreter is one sequential
program that waits for nothing, so it takes its next step.

Runs: `itertraces` checks these on 1625 functions of five shapes (a branch, a loop, a node
with an edge to itself, a block with two entries, a switch), 6 to 7 nodes each, over every
choice of statements of the shape, with a budget of 6 transitions, which trips, and one of 40,
which does not. Two pointers, one parameter and one integer are enough for a copy, a
test of the copy and a use of the original. The entry block holds no statement, as in GCC.
That a trace never goes round a loop, as the docstring of `iter_traces` has it, is not so and not
stated: see section 5.

### Memory: `Regions`

The `Region`s of a function with an int `i`, an array `a`, a struct `s`, a pointer `p`, a global and an
object that it may allocate, and the values that a `State` has for them. `made` is what the Regions have in
their `fields`, which all states share; `path` is the state, `rest` those that are taken up later, depth
first (`Backtrack`). `LValue` finds the Region of a place: by name, by a known index, or by the
very object that an unknown index is (`At`, `In`); `GetStore` reads it, with the defaults from the whole
and `summarize_array`; `PlusRegion` is pointer arithmetic, `Forget` what a deallocation does to the
fields. Beside the path go the executions that take it (`runs`), in which every cell has its contents,
and the Region that it was last written through (`by`).

The code does not know that two Regions are one cell, so what it has for the others is stale after a
write through one of them. `Met` says of which places the properties speak: those last written through
the Region that they have now, as part of the whole that they default to, or, of a summary, through the
element's own. An execution in which a stale value was read is not followed any further (`Followed`), nor
is one on a path that says uninitialized of data that has been set.

The reverse happens too, that one Region is two cells. `summarize_array` gives back the very object that
the first of the elements is if nothing is known of that (`UnknownValue.union`), so that `i` and `j` may be one
object and two numbers, and `a[i]` and `a[j]` one Region. The last write through a Region counts (`Write`
takes it from the other cells). The same summary covers up an element that was never set: what is
found in memory that was never set, if the checker lets it pass, is some number (`Found`), the same from
then on.

| Property | Says |
|---|---|
| `ReadsRight` | what is read at a place, by whatever way and after whatever other path made its Region first, is what an execution has there |
| `PoisonReal` | what is called uninitialized or deallocated is so in every execution; for an index that is not known, an element that it may be was never set in any |

Bounds: an array of two elements and ints of three values, so that a range can be split, still be a
range, and reach beyond the array; an offset wraps at 16, which is more than an array has elements; four
statements on all paths together, enough for two paths of which one makes a Region that the other reads.
The proofs (section 4) have no such bound, and found what takes more: `ReadsRight` without `Found`
fails after thirteen statements, and without the `NoRegion` of `Write` after twelve.
An array is no larger than an int can count (`SizesAssumption`), so that an index of which nothing is known
may be beyond it.
The analysis stops at that bound, at the end of its paths or with a Python error, hence no check for
deadlock.

Not modelled: Regions for string literals, casts and bit fields, arrays of structs, nested calls.

### CPython facet: `RefcountFacet`

One path of one function: each action is one call of the C API or one statement, and does to
the checker's state what the handler does, and beside it to the *execution* what the call
really does (`count` is `ob_refcnt`, `held` what containers hold, `owed` how many references
the function still has to give up). Where the handler follows several outcomes the
execution chooses one of those that can happen. A handler stands for the others that
move references alike: `NewRef` for all that return a new reference or fail, `BorrowedRef`
for `PyDict_GetItem` and its like, `DictSetItem` for `PyDict_SetItemString`, and so on.

| Property | Says |
|---|---|
| `TypeOK` | the account's types; `external` never falls below zero |
| `LowerBound` | `relvalue + external.minvalue <= ob_refcnt`, also when unknown code keeps references |
| `FreedIsKnown` | an object is gone exactly if its region is marked deallocated |
| `NoSurprise` | what `PyTuple_SetItem` really does is among the outcomes followed |
| `VerdictExact` | the verdict at the return is the truth about what the function owes |

`LowerBound` and `FreedIsKnown` leave out the objects that a container or a failed call
dropped (`released`): there the account does go wrong (section 5). `VerdictExact` leaves out the objects at a `FIXME` of `impl_PyTuple_SetItem`, which the code
itself says it does not follow, and those in a container whose slot does not stand for
them, which are reported wrongly (section 5).

Bounds: two atoms, a list, a tuple, at most one of them an argument, tuples of length
1 (so that index 1 is out of range), one or two outside references to a borrowed object, five
statements and the return: enough to make a container and two objects and store both.
The run uses the symmetry of the atoms; all its properties are invariants.

Not modelled: containers inside containers, an object that two variables get from a
container, the failing outcomes of `PyList_SetItem` that the code keeps under `if 0`,
`PyString_Concat`, the GIL, the warning about NULL without an exception. Outside holders keep
their references while the function runs. The type of an argument is not known, so its
`tp_dealloc` is unknown and its region is never marked deallocated.

### Wrappers and the garbage collector: `WrapperGC`, `PinnedObjects`, `Pointers`

A Python wrapper holds a pointer into memory that GCC's collector manages. `next` and `prev` are
`wr_next` and `wr_prev` with the static `sentinel`; `pyrefs` counts the references of Python
code and `cache` and `passes` are the dictionaries, which hold one more reference and never
drop it. `alive`, `refs` and `roots` are GCC's heap, one pointer per object; `phase`, `marked`
and `iter` a collection: PLUGIN_GGC_START, GCC's roots, `my_walker` wrapper by wrapper,
PLUGIN_GGC_MARKING, the sweep. Python runs between the steps of GCC and in the two callbacks,
never during the walk. An address that was swept may be allocated again.

`WrapCached` and `WrapAgain` are the two ways through `PyGcc_LazilyCreateWrapper`, `WrapUncached`
the wrappers without a cache (instructions of RTL, functions, variables, and those of what is
not collected, for which the pointer is `NULL`), `WrapNew` a getter that makes a tree and wraps
it at once, `Construct` and `ObjectInit` the types Python code may instantiate, whose memory is
cleared and which are tracked only by `__init__`, and `Decref` the loss of a reference with
`PyGccWrapper_Dealloc`.

| Property | Says |
|---|---|
| `TypeOK` | types; `my_walker` never leaves the list |
| `ListIsLive` | `wr_next` leads to exactly the tracked objects that exist, `wr_prev` back |
| `WrappedSurvive` | what a live wrapper points at, and what that leads to, is not collected |
| `CacheIsCurrent` | a cache never returns a wrapper of what was at the address before (`gcc-python-tree.c:1159` asks "what about lifetimes?") |
| `Pins` | the wrappers implement `PinnedObjects`, the promise of `docs/0.9.rst` |
| `CollectionEnds` | a collection that starts ends |

`LiveAreMarked`, the promise of the header comment of `gcc-python-wrapper.c`, is proved and in no run,
since the walk of two wrappers is too short to tell it from `WrappedSurvive`.

`CollectionEnds` assumes weak fairness of the collector's own steps: it is uninterrupted C code,
and a callback made by it returns. Nothing is assumed of Python code or of the rest of GCC.

Bounds: the run `wrappers` has two wrappers, which with the sentinel make a ring of three, so
that an element's two neighbours differ; two addresses, so that a pointer can lead from one
object to another; two references, so that a cached wrapper is shared. `AllowReinit` says
whether Python code calls `__init__` on an object twice, which breaks the list (section 5); the
run and the theorems have it `FALSE`.

Not modelled: allocations that fail; the metaclass by which subclasses inherit `wrtp_mark`; the
wrapper of a `NULL` pointer, which is `None`; objects that GCC frees without a collection; a
collection forced from a callback of a collection.

### Ranges of integers: `ValueRanges`

One path of one function over integers: `abs` has what the state knows of each variable, a
`ConcreteValue` or a `WithinRange`, and `val` the value in one execution, computed by the rules
of C (division towards zero, unsigned wrapping, no execution beyond a signed overflow).
The statements that may come next are the constant `Stmts`. `Assign`, `Branch` and `Raise` are
what a statement does, `Split` is a `SplitValue` exception: the world in which the execution
is goes on with an alternative, and the same statement is evaluated again (`stmt`). `same` is
the identity of the Python objects, since `SplitValue.split` replaces a value by identity: a
copy shares the object, an operation makes a new one.

| Property | Says |
|---|---|
| `TypeOK` | a range is within the limits of its type |
| `Sound` | the value in the execution is within what is known; sharers agree in value |
| `SplitsRight` | one of the alternatives of a split is that of the execution (`SplitsCover`), the assertion in `ConcreteValue.eval_comparison` holds for it (`PartsAgree`), and after it the statement has nothing left to split (`SplitsSettle`) |
| `OutcomesReal` | of a condition the branch the execution takes is among those followed (`BranchesFollowed`), and an arithmetic error is predicted where the execution has one, and only there (`ErrorsReal`) |
| `ValuesKnown` | `Sound` with conversions; violated (finding 2) |

Bounds: a signed type of -3..2 and an unsigned one of 0..3, so that a range has a value
below, at, beside and above the compared one and that the types overlap but neither contains
the other; two variables, so that one is copied, split and compared with its copy; the
constants 0, 1 and 2. Any sequence of statements may be executed, so nothing bounds the length.
A path may end in an error or an undefined overflow, hence no check for deadlock.

`ranges` leaves out, by the choice of its statements, what the corners of two ranges do not
bound, although a comment at `absinterp.py:787` assumes that they do: remainders, `abs`, signed
division, and the unsigned operations that wrap; and comparisons that are assigned, and ranges
compared for equality, which go wrong (section 5). A constant stored where nothing was known is in
the run but not among the statements of the theorems.

`Conversions` adds the `NopExpr`, by which GCC converts between integer types that do not narrow
the value (a `ConvertExpr` truncates). The execution wraps as C does, the checker keeps the value it had.
The run `ranges_nop` has types of the same width, three bits: -4..3 and 0..7.

Not modelled: bitwise operators, floating point, `ExactDivExpr`, unions of values, pointers.

### Entries into Python code: `PluginEntries`

GCC comes into Python code by four ways: the script that `plugin_init` runs, a callback of an
event, `gate` and `execute` of a pass, the handler of an attribute. All of it is one thread, but
entries nest, since Python code may call `gcc._force_garbage_collection()` and the collection
signals `PLUGIN_GGC_START`, `_MARKING` and `_END`. `stack` has GCC at the bottom and above it an
element per entry that has not returned, with the C locals of its function (`saved_loc`,
`saved_event`); `place`, `event` and `held` are history and say what the location, the current
event and the count of `PyGILState_Ensure` should be while the code of that entry runs.
`fire` and `queue` are GCC's loop over the events and their callbacks (`callbacks`).

`Invoke` is `PyGcc_FinishInvokingCallback` up to the call, `InvokeFails` its way through `goto
cleanup` when the wrapper or the arguments cannot be made; `Gate`, `Ungated`, `Execute` and
`HandleAttribute` the other entries. `Return` is every way out: `Value`, `Raise`
(`PyGcc_PrintException`), `Untestable` and `Overflow` (a conversion of the result raises),
`Exit` (the script failed, or the exception was a `SystemExit`); all but the last go through
`Leave`. `OnPluginFinish` finalizes Python. That GCC invokes the callbacks of an event in the
reverse order of their registration is GCC's, and noted in
`tests/plugin/callbacks/PLUGIN_FINISH/script.py:30`.

| Property | Says |
|---|---|
| `TypeOK` | types; the GIL is never released more often than taken |
| `Restored` | the code that runs finds the location, event and GIL as it or its entry left them |
| `FinishesInOrder` | before `Py_Finalize` every callback of PLUGIN_FINISH was invoked (`FinishersCalled`), after it GCC has none left to invoke (`FinalizedLast`) |
| `Ends` | compilation ends, with Python finalized or the process gone |

`Ends` assumes that the Python code of each entry returns (strong fairness of `Return` at each
depth, since other entries come and go above it), that GCC goes on with the loop over the
callbacks, runs a pass that its gate let through, and comes to the end of what it compiles
(strong fairness of `Execute` and `Finish`). Collections at the deepest level are cut off by
`MaxDepth`; without that a callback of PLUGIN_GGC_START that forces a collection would recurse
for ever, as it would in the plugin.

Bounds: two closures, so that one fails before another and one nests in another; an event
outside collections, one within, and PLUGIN_FINISH; two locations, of which one is the start
of the function; depth 4, which is GCC, an entry, a callback of a collection it forces, and one
more within that.

Not modelled: the arguments of callbacks, registrations that run out of memory (they change
nothing), unregistering (there is none), other threads, the order of GCC's passes,
`pre_genericize` and its like as different functions, the exit status.

### Graphs: `StmtGraphs`, `GraphQueries`

`StmtGraphs` is what `StmtGraph.__init__` and `Supergraph.__init__` build, as sets of nodes and edges:
a node per statement and one for an empty block, for a call of a known function a `CallNode` and a
`ReturnNode`. A node is equal to another if the statements are, so all the empty nodes of a
function, its entry and exit among them, become one supernode (section 5).

`GraphQueries` uses that supergraph. `Start`, `Call`, `Advance` and `Return` run the program by its
control flow graphs alone; `AskPath`, `PopItem` and `Disjoint` are `get_shortest_path` with its heap, in which
items stay that were improved since; `AskSort`, `SortRoot`, `SortCaller` and `SortAppend` are
`sorted_callgraph`, with a frame per call of `visit`; `AskRemove`, `RemoveEdge` and `RemoveReturn` the
recursion of `remove_node` and `remove_edge`. Where the code iterates over a Python set, or pops the
smallest of equal items, any order is possible.

| Property | Says |
|---|---|
| `RunFollowed` | each step of a run, into a function and back to its caller, has its edge in the supergraph, and those within a function in the `StmtGraph` that the checker follows, unless they are complex |
| `ShortestFound` | the path answered leads from one node to the other and none is shorter; without one, nothing leads there |
| `CallersFirst` | of the sorted functions none is listed twice, and before each come those that call it, unless they are called from it in turn |
| `RemovedExactly` | a removal takes the nodes that nothing else leads to, with their edges, and no others, in any order |
| `TasksEnd` | searches, sorts and removals end |

`TasksEnd` assumes weak fairness of the next step: each query is a sequential program that waits for
nothing.

`CallersFirst` is about direct callers. It does not hold of all those from which a function can be
called: a function that enters a cycle may be listed after a member of the cycle that `visit` came to
by another one.

Bounds: five programs, a chain of calls with a function called twice, a recursion through two
functions with a third, a self-recursive function that shares a callee, two functions that only
call each other, and a function that enters such a ring, which calls another one; blocks with branches, a complex edge, an edge to a block that is gone, a phi node and
an empty block; four frames, so that a recursion returns through its own call site.
`INFINITY` (0x80000000 in the code) is 1000, more than there are nodes. A task may end or a run stop
at `MaxDepth`, hence no check for deadlock.

Not modelled: `split_phi_nodes`, whose `SplitPhiNode` defines `__eq__` alone and so is not hashable in
Python 3; the interprocedural graph of `ivpgraph.py`, because `Supergraph(add_fake_entry_node=True)`, which it is
made from, raises `AttributeError` at the first empty block, as GCC's entry block is; `query.py`, which uses
it; `Graph.topologically_sorted_nodes`, whose loop never starts, so that it always returns `[]`.

### The handlers of the C API: `ApiCalls`, `ApiContract`

RefcountFacet looks closely at how references move and has one handler for each way.
`ApiCalls` is the other half: an operator for *every* `impl_*` handler of `refcounts.py`, named as it
is, with its outcomes: what is returned, which references the function gains, gives up or lends,
whether the exception is set, the `NULL` arguments at which the analysis ends, the Python errors in
the handler itself. `UnknownFunction` and `MarkedFunction` are the calls of other
functions, without and with the checker's attributes, and `Return` the warnings about `NULL` or
-1 without an exception.

`ApiContract` does not know the functions, only the conventions of the C API: `Succeeds`, `Fails`,
`FailsSilently`, `Raises`, `Clears`, `Asks`, `Stops` and `Returns`. Sets name the functions for which the
API's documentation makes exceptions: those that fail without an exception, that report failure as 0,
that may release what they are given. `Contract == INSTANCE ApiContract WITH own <- rel, lent <- ext,
raised <- exception, ...` is the refinement.

| Property | Says |
|---|---|
| `TypeOK` | types; what the function does not know yet has no references |
| `KeepsContract` | ApiCalls implements ApiContract: a handler that fails sets the exception and moves nothing, one that succeeds leaves it alone, a new object comes with one reference, references given to a call are held elsewhere afterwards, and at the return every broken promise about exceptions is reported, but for an iterator at its end (`Excused`) |
| `AllChecked` | the objects that the function knows are checked at the return; violated (finding 1) |

Bounds: two objects and one block of memory, of which one object and the block may be given to the
function (a block: a pointer that it has tested, which `raise_split_value` gives a region), two calls and the return:
a handler acts on what the one before it left, an object or NULL, an exception or none, a
known type or not, and `ApiContract` constrains each step for itself. Formats have up to two
arguments, so that a NULL comes before or after an object. The run `api` uses the symmetry of the two objects,
which no handler tells apart; the refinement is a property of steps, which symmetry keeps.

`Excused` is where the contract gives way to the code: `warn_about_NULL_without_exception` returns as a whole
when a `tp_iternext` function returns NULL without an exception (`refcounts.py:4165`), so that one which is
marked `cpychecker_sets_exception` is not told that it broke its word (Section 5).

What the code does that a reader should know: `PyErr_SetNone` and `PyErr_SetObject` count an external
reference that `PyErr_Clear` does not take back; `has_gil` is recorded and never read; the handlers
that ask for `stmt.lhs.type` (`Py_AtExit`, `PyCapsule_GetPointer`, `PyDict_Size`, `PyMapping_Size`,
`PyObject_AsFileDescriptor`, `_PyObject_New`, `PyStructSequence_New`) fail with an `AttributeError` if
the result is not used, and that of `PyString_Size` with a `NameError`; `PyTuple_Pack` adds no references to its
items (a FIXME); `PySequence_SetItem` and `PyList_SetItem` are taken to succeed;
`PyNumber_Remainder`'s handler is misspelt and never found.
`PyList_Append` and `PyTuple_SetItem` are in RefcountFacet only. Not modelled: what handlers store in
memory other than objects, the fields of types.

### Reports: `Reports`

The checker's pass over the functions of a file: `Execute` makes a `Reporter` for a function,
`TakeTrace`, `CheckObject` and `CheckReturn` are the loop of `impl_check_refcounts` over the traces, of
which the ends are arbitrary, and `make_warning`; `StartRemoval`, `NextReport`, `CompareCandidate` and
`AddNotes` are `remove_duplicates`, with its two loops over copies of a list from which reports are
removed meanwhile; `Flush` gives the rest to GCC and writes the files.

| Property | Says |
|---|---|
| `TypeOK` | types; each report is in the list or among the duplicates of one, never in both |
| `OneOfEach` | after the removal the first report of each class is left, with all others of the class as its duplicates, and their number in its note |
| `SaidOnce` | when a function is done GCC has been given every warning that its traces call for, none twice and no other, and its files show the same |

Bounds: two traces for the first function, each with up to four reports (two objects, which may be leaked,
missing or neither, and two of the returned value), so that a class has four members or classes
overlap in the list, and one trace for the second function, which shows what is left over from the first; two
descriptions; the run uses the symmetry of objects and descriptions; of the eight combinations that the checks
of a returned value may report (`ReturnChecks`) four, of which two share a message; one name, so that the second function
overwrites the files of the first. That overwriting is what overloads of a C++ function do to each
other's reports (`SaidOnce` asks for the files of the last one). "found N similar trace(s)" also
counts two objects of one trace. Not modelled: the contents of the HTML and JSON files.

### Format strings: `FormatStrings`, `FormatArguments`

`FormatStrings` reads a string one unit at a time as `PyArgParseFmt.from_string` and
`PyBuildValueFmt.from_string` do; of characters that are treated alike there is one.
The reference is what CPython accepts, given as all the ways to cut a string into the units of
Python 2.7 or of Python 3 (`py3`, which `is_py3k` tells the checker), with
matching brackets. The reader reads one language for both: it has none of the units that are new in Python 3
nor some others (`NotImplemented`; the docstrings at `PyArg_ParseTuple.py:281` and `Py_BuildValue.py:204` admit
a subset), and for Python 3 it still takes `w`, `w#` and `t#` (`Gone`). `FormatArguments` adds the call: `Start` checks the list of keywords, `ReadOn`
reads, `EndReading` compares the numbers of arguments, `CheckArgument` their types one by one. `bound` is what the
first argument of an `O!` or `O&` leaves in the object that it shares with the second.

| Property | Says |
|---|---|
| `ReadRight` | a string that was read has exactly these units, in the only way to cut it; one that was not read to its end is none of the language, or was read as far as the first unit that is not implemented |
| `CallsJudged` | exactly the arguments that do not fit are reported, the number if it is wrong, and if nothing is said of the keywords the API sees all of them and their end |

Bounds: all strings of three characters of the alphabet and of four of the more interesting ones, for both
versions of Python, enough for a unit of three characters after a bracket or at the end of the string, and two nested
brackets; for the arguments every unit, alone, in brackets and after an optional marker, three
arguments and two units `O!` in a row (so that what the first one binds could reach the second), some
twenty types and one known and one unknown type object, all in Python 3.

Where the reader fails: `O?` and an unclosed bracket in `Py_BuildValue` raise `NameError`
(`PyArg_ParseTuple.py:367`, `Py_BuildValue.py:278`), an unmatched `)` there `AttributeError`, `O&` and
`N&` `TypeError`; a lone `e` or `t` is passed over (`Lenient`); an empty format string is not checked
at all. Describing the object that was expected raises `NotImplementedError` after the warning is printed, and
the arguments after it are not checked. An empty list of keywords raises `IndexError`. The length of
the array of keywords is not looked at, so one that is ended by an implicit NULL is wrongly
warned about, which `CallsJudged` allows. `char *` and `const char *` are exchanged also where they are
written to, as for `w`; `Alike` has it so. Not modelled: the wording, and which characters are treated alike.

## 4. What is proved

`IterTraces_proofs` proves with TLAPS, for every set of nodes, variables and functions and
every budget: `TypeCorrect` (`TypeOK`), `StoppedCleanly` (`StopsCleanly`, from `Limited` and
`AllComplete` for its two parts) and `NeverLost` (`NothingLost`). The type invariant alone is not inductive:
between two steps there is exactly one trace in `val` when a call is about to start and none
while a loop goes on, the stack is not empty in a loop, and the result is empty until the
end, which `Positions` adds to `TypeOK` (`TypeInv`). `Budget` adds to it
that the count exceeds the budget by at most one and only while an exception is raised.
`NothingLost` is an action property, proved from `TypeInv` with the lemmas on what a stack of
frames holds when a frame is pushed or popped. The assumptions are those of the modules: finite
sets of names, well-formed functions, budgets that are natural numbers.

What the traces say of real executions is `TracesFeasible` (`Feasible`) and `DefiniteInevitable`
(`DefiniteIsInevitable`). Both rest on `Building`: every trace, from the initial state on, goes from
each state to one of its transitions (`Linked`), whatever the search did with it in between. The
abstract states are `Sound` (a copy of an unknown value has the type of the original, a value marked
by a split is known), and `StepCases` has the ways in which a state leads to the next. For `Feasible`
the argument goes backwards: a configuration `Fits` a state if it has the values that are known and
one value for all copies of an unknown one, and each that fits a state is reached from one that fits
the state before; so from the end of the trace to its beginning. It has to go backwards, since a
split only later says which executions were meant. For `DefiniteIsInevitable` it goes forwards: what
a state knows other than by a split (`Tells`) is so in all executions that come the same way with the
same allocations failing. The assumption is that GIMPLE is typed: a copy does not make a pointer of an
integer, and what is allocated is a pointer.

`TracesComplete` (`Complete`) says that none is missing, and none is there twice. A run `Follows` a
trace if the two agree as far as the trace goes. The transitions of a state exclude each other and
leave nothing out (`OneMatches`), so exactly one extension of a trace is followed by a run that follows
it (`OneFollows`). What `has_looped` stops is followed by no run without a loop, as `paths_taken` has only
edges that the trace did cross (`Taking`, `LoopedLoops`, `FollowsFree`); the crossings that it misses (Section 5)
cost time and no trace. A complete trace covers the runs that follow it (`CoversFollows`). The invariant is
`Accounted`: each run that follows the prefix of a frame is accounted for exactly once, by a result,
a transition still to be tried or the call that the frame waits for; in the end the first frame has only
results. The assumption is that no block follows another twice (GCC makes one edge
between two blocks), or a run would not say which way it went.

`States_proofs` has two parts. Of the account of references it proves, for every set of objects, every choice of arguments and paths of
every length: `TypeCorrect` (`TypeOK`), `AccountIsBound` (`LowerBound`), `FreedExactly`
(`FreedIsKnown`), `TupleForeseen` (`NoSurprise`) and `VerdictIsTrue` (`VerdictExact`), so all
that `refcount_facet` checks on four objects and five statements. The inductive invariant is
`IInv`, the conjunction of these with

* `Known`: nothing is stored, held or dead that the function has not seen;
* `Flat`: no container is in a container, so that only atoms are dropped by one;
* `OwnExact`: of an object that nobody but the function, and no argument, refers to, the account
  is exact and not only a bound, which is why a last `Py_DECREF` is never missed;
* `Balance`: `rel + Stolen = owed + PersistentRefs` for each object, at every step and not only
  at the return. The verdict compares `rel` with what the slots and the global account for;
  a step that moves a reference into a slot changes both sides, and only `Balance` ties them.

The one assumption is `ConstantsAssumption` of the module: finitely many objects, of disjoint
kinds, and a positive length of tuples.

Of the memory `States_proofs` proves the two properties of the run `regions`, for any number of elements,
ints, paths and statements: `ReadsAreRight` (`ReadsRight`) and `PoisonIsReal` (`PoisonReal`), from
`MemoryRight`, the inductive invariant `AllRight`. It says of the State of the path and of each that is set
aside that it is well formed (`StateOK`: its values are of objects made so far, all the parts it has
values for are in `made`) and right for each execution (`RunOK`):

* `SaidOf`: of every cell, the Region it was last written through is of the same variable, and its
  value is right. `Holds` says when: a range contains the contents, and all that have one object have one
  number. For an execution there is one such choice of numbers (`obj`), which a new object extends
  (`RunAgrees`) and a split hands on to one of its halves (`ReplaceOK`);
* `Lifetime`: freed or absent memory is that of the object, and no field has a value of its own then;
* `Aim`: `p` points where its Region is. If it was moved back, or its Region is of an index, the execution
  does not know that exactly, and a known index beyond the array is of no cell;
* `Entered`: as long as the array is not set as a whole, an element with a value of its own was written,
  so a summary speaks of elements that were.

A read is then right by where its value comes from (`ReadCases`): the Region's own value, the default from the
whole, or a summary, which is none of a value more than its elements say (`SummaryIs`). The action lemmas
(`LoadStep`, `AssignStep`, `AdvanceStep`, ...) go by way of `WriteOK`, `FillOK` and `AimOK`, what a write through a
Region, of a whole, and of the pointer do to all of this. The assumption is `SizesAssumption`.

`WrapperGC_proofs` proves, for any number of Python and GCC objects and references and under the
assumption `AllowReinit = FALSE`: `WrappersTyped` (`TypeOK`), `ListStaysLive` (`ListIsLive`),
`WrappedSurvives` (`WrappedSurvive`), `CacheStaysCurrent` (`CacheIsCurrent`), `WalkMarksLive`
(`LiveAreMarked`) and the refinement `WrappersPin` (`Pins`). The inductive invariant `IInv` adds
to the types

* `Linked`: `next` and `prev` are inverse on the tracked objects and the sentinel. This allows
  several separate rings, so it does not say that the list is one list;
* `ListOrdered`: there is a strict total order on the tracked objects in which `next` leads to
  the following one. An append puts the new object last, an unlink leaves the order alone.
  During a walk everything before `iter` in that order is marked (`Walked`), so everything is
  when `iter` comes back to the sentinel;
* `AllMarked`, `Closed(refs, alive)`: what is marked, or exists, leads only to such objects;
* `WrapsTracked`, `FreeIsClear`, `CacheOfLive`: what wraps an object is in the list, memory that
  is no object wraps nothing, what is cached exists and wraps the address it is cached by.

That every tracked object is reached from the sentinel (`RingIsReached`) needs that the objects
are finitely many: among those that are not reached one has fewest before it, but the one
`prev` names is not reached either and has fewer.

`ValueRanges_proofs` proves the four properties of the run `ranges` for integer types of any
size and any number of variables: `RangesTyped` (`TypeOK`), `Soundness` (`Sound`), `SplitsAreRight`
(`SplitsRight`, from `Coverage`, `Agreement` and `Settling`) and `OutcomesAreReal` (`OutcomesReal`, from
`Following` and `Errors`). Each assumes of the statements what `Bounded` says: copies, calls,
conversions and comparisons, minima and maxima, signed sums, differences, products, negations and
complements, unsigned quotients; `OutcomesAreReal` also that two ranges are not compared for
equality. The invariant `IInv` is `TypeOK`, `Sound` and `Shared`, that `same` is
an equivalence: without it a split could reach a variable that is no copy. Soundness of an
operation is `BinaryContains`: the result lies between two of its corners (`PythonCorners`,
with monotonicity of products and quotients as lemmas), and what is in the type survives the
clamping. The parts of a range rest on `PartOneSided`, that between two boundaries nothing
changes sides of the compared value, and `PartsCover`, that every value is in a part. Shifts are
only model-checked: the provers know nothing of `2^b`.

`PluginEntries_proofs` proves, for any closures, events, locations and depth: `EntriesTyped`
(`TypeOK`), `RestoredAlways` (`Restored`) and `FinishedInOrder` (`FinishesInOrder`, from
`FinalizedIsLast` and `FinishersAllCalled`). `Restored` speaks of the innermost entry only; what
makes it inductive is `Saved`, that what each entry saved is what the one below it is to find.
For the finalization `Lists` says that `on_plugin_finish` is the last of PLUGIN_FINISH's callbacks
and in no other list, `QuietAbove` that no entry above GCC has it or PLUGIN_FINISH still to do,
and `Finishing` that every callback that is due was invoked or is still in GCC's queue, which
`on_plugin_finish` ends. Steps are classed by what they do to the stack (`Touch`, `Push`, `Pop`).
The assumption is `EntriesAssumption`; the order in which GCC invokes callbacks is part of the
model.

`ApiCalls_proofs` proves the two properties of the run `api` for any number of objects, blocks,
arguments of a format and calls on a path: `ApiTyped` (`TypeOK`) and the refinement
`HandlersKeepContract` (`KeepsContract`). `TypeOK` is inductive, and with it each step is one of
`ApiContract`'s or leaves its state alone. `Kept` is that for one step; it is shown for each outcome
that the handlers are made of (`NewRefKept`, `FailsKept`, `KeepsKept`, `ReleasesKept`, ...) and then
for the handlers, group by group, of which most are `Ordinary`. The references come in as `Amount`s
by object: `Moving` for those that are kept or given up, `NewObject` for an object that arrives
while others move. That `Py_BuildValue` takes no more from the function than it keeps elsewhere is
`PassedMore`, about the cardinalities of sets of arguments. The assumption is
`ConstantsAssumption`: finitely many objects and blocks, told apart from each other and from the
other results.

`Reports_proofs` proves the three properties of the run `reports` for any number of functions,
traces, objects and reports: `ReportsTyped` (`TypeOK`), `OneReportOfEach` (`OneOfEach`) and
`EachFaultSaidOnce` (`SaidOnce`). Reports are numbered as they are made, and the list is in that
order, which every removal keeps (`Ordered`, `OrderedRemove`). The inductive invariant `Inv` adds to
the types

* `Listed`, `Merged`: a report is in the list or a duplicate of one that is, and a duplicate comes
  later and says the same;
* `Early`: until the removal starts the list has all the reports and no duplicates;
* `Removing`: those that the outer loop is still to come to have no duplicates, and those it has
  dealt with have all of their class (`OuterLoop`); the class of the one that is being compared is
  what was found of it and what the inner loop is still to compare (`InnerLoop`). Both loops run over
  copies, so the outer loop meets reports that were removed meanwhile, and leaves them out;
* `Settled`: when the loops are done every report in the list has all of its class;
* `Collected`: what is said, and what is still due of the trace that is being checked, is what the
  traces call for; `Flushed`: GCC was given what was said, once.

That two reports of one class are never both left is `Representative`: the later one would be a
duplicate of the earlier. The assumption is `BoundsAssumption` of the module.

`GraphQueries_proofs` proves the four safety properties of the run `graphs`, for all programs and any
depth of the stack. `TaskInvariant` says that one task is on at a time, and that only a removal changes
the graph.

* `RunsFollowed` (`RunFollowed`): each frame below the top is at a call of the function above it
  (`StackOK`), so a return finds its return node; each of `Start`, `Call`, `Advance` and `Return` then has
  its edge.
* `PathsShortest` (`ShortestFound`): `PathOK` is what makes the search right though dead items stay in the
  heap. A node is `Settled` when the heap has no item with its present distance; a settled node is no
  farther than anything in the heap, its edges have been followed, and a node was reached from a
  settled one that is one nearer. So no settled node is ever improved (`RelaxKeeps`), the edges lead back
  to the start (`WayBack`), and what so many edges lead to is settled before anything farther is popped
  (`NearSettled`).
* `SortsCallersFirst` (`CallersFirst`): the active calls of `visit` are a chain of callers, so a caller that
  was visited and is not listed yet is called from the one that is being listed.
* `RemovesExactly` (`RemovedExactly`): what is gone is within the least set that holds the node and all
  that is entered only from it, and every edge that has lost an end is still to come in one of the
  loops (`Removing`); when the loops are done, none is left, and what is gone is closed.

The assumptions are `ProgramsAssumption`, of which `WellFormed` is what GCC sees to (finitely many
functions and blocks, edges that start in a block, an empty exit block, a call in one function), and
fewer nodes than `INFINITY`; and that `None` is no statement. The reference definitions, the nodes
within so many edges and the least sets, are rounds of a function (`Grown`), about which `GrownDef`,
`GrownClosed` and `GrownInside` say what induction gives.

What fairness is not needed for is proved of three of the liveness properties, that each step leaves less
to do, so that the system has only to keep going:

* `IterTraces_proofs`, `SearchEndsInTime`: `StepsLeft`, four for each transition of the budget, two for each
  active call and what is left of the current one, is a natural number and less after each step
  (for `Terminates`; from `TypeInv` and `Budget`).
* `WrapperGC_proofs`, `WalkEndsInTime`: what `wr_next` leads to before the sentinel gets less with each step
  of the walk (for `CollectionEnds`). This is where the order `R` of `ListOrdered` is needed once more: by the links alone
  the list is a ring.
* `GraphQueries_proofs`, for `TasksEnd`: `SearchEndsInTime`, a pop either reaches nodes that were not
  reached or leaves the heap smaller; a node that was reached came from a settled one, which is no farther
  than what is popped, so it cannot get nearer (`PathOK`). `SortEndsInTime`: the functions not visited,
  the roots to do, the active calls and the callers in the innermost one, of which the first that changes
  gets less. `RemovalEndsInTime`: likewise the nodes, the loops and the edges of the innermost one.

Only model-checked: `Terminates`, `CollectionEnds`, `Ends` and `TasksEnd` themselves, which need fairness;
and `ReadRight` and `CallsJudged` of the formats. A format is read by recursion, and that a reader and its
reference agree on all formats is by induction over them, which these provers cannot do: the bounds of
`formats` are given instead.

## 5. Findings

Shown by a run:

1. `api_untracked`: an object that `PyArg_ParseTuple` stores through an `O` or `O!` is entered in the
   region table of the state before the call, so its references are not checked at the return.
2. `ranges_nop`: a value converted by a `NopExpr` keeps the range and type it had, so that a branch
   which only a wrapped value takes is not followed.

Known divergences that the models have as the code has them, without a run of their own. The
properties above leave these cases out, by name where it matters:

* `Trace.add` looks at the transition's own source (`absinterp.py:2715`), not at the trace's last
  state, so some crossings are not recorded and a trace may go once more round a loop, against the
  docstring of `iter_traces`.
* The account of an object is no lower bound of `ob_refcnt` (`refcounts.py:284`) after the container
  that held it is deallocated (`:452`) or the item replaced (`:2384`).
* References held by a list that is an argument, or by a list that got a second item, are not
  discounted (`refcounts.py:2271`, `:2293`): a false "memory leak".
* A second `__init__` of a pass or an option (`gcc-python-pass.c:286`, `gcc-python-option.c:52`) links
  it into the list again and cuts off the wrappers that stood behind it: what they wrap is no longer
  marked.
* A comparison that cannot be decided is assigned as 1 (`absinterp.py:2487`): `eval_condition` returns
  an object, not the `None` of its docstring, and the object counts as true.
* Two ranges of which the second contains the first are said to be different (`absinterp.py:832`).
* A `tp_iternext` function that is marked `cpychecker_sets_exception` and returns NULL without an exception is
  not reported (`refcounts.py:4165` leaves the function before the check at `:4176`), though
  `docs/cpychecker.rst:350` says of a marked function that the checker will "verify that `raise_error()` actually
  behaves this way". `KeepsContract` excuses it by name (`Excused`).
* The units that Python 3 added to the formats (`y`, `y#`, `y*`, `p`, `C`, `Y`, `Z`, `$`; in `Py_BuildValue` `y`, `y#`,
  `C`, `U`) are warned about as unknown, as `PyArg_ParseTuple` and `Py_BuildValue` of Python 3 are checked with the units of
  Python 2.7; `w`, `w#` and `t#`, which Python 3 does not have any more, are accepted.
* `sorted_callgraph` omits functions that only call each other (`gccutils/__init__.py:641` promises a
  topological sort of all); `CallersFirst` is about those that it lists.
* The entry and exit nodes of a function are equal if both blocks are empty, as they are in GCC
  (`stmtgraph.py:25`, `:217`): the supergraph has paths from the exit of a call back to the callee's
  entry.
* `PyObject_CallFunction`, `PyObject_CallMethod` and the `PY_SSIZE_T_CLEAN` variant of `Py_BuildValue`
  are listed at `docs/cpychecker.rst:388` and not checked; the last is misspelt at
  `formatstrings.py:468`.

* An exception that is raised while the result of `gate` is tested, or that of `execute` is converted
  (`Untestable`, `Overflow`), is neither printed nor an error, against `docs/basics.rst:233`, and stays
  pending in GCC. The handler of an attribute and `plugin_init` do not restore what
  `gcc.set_location` set, against `docs/basics.rst:261`.
* A value written through one Region leaves those of other Regions of the same cell as they were: an
  element at an unknown index and the elements at known ones, an index whose object a split has replaced,
  what a pointer to either leads to (`Met`). After `a = {}` an element that was written later is passed
  over when `a` is read at an unknown index, since only an uninitialized array is summarized. What an
  unknown function was given a pointer to becomes unknown as a whole, but fields and elements keep the
  values they had, and elements without one that are next to it stay uninitialized.
* Of the Python errors that end an analysis (`Crashes`): `summarize_array` raises `KeyError` when another
  path made the Region of an element to which this one gave no value, as it takes the Region for
  a sign that the element is initialized (`absinterp.py:1727`); the union of a constant and an unknown value is not implemented;
  an uninitialized index, and arithmetic on a pointer to an element of unknown index, raise `TypeError`.
* A summary of elements of which the first is unknown is that very object (`absinterp.py:1736`, `:354`): two reads at an unknown
  index are then one object though they may be two numbers, and an element that is uninitialized goes
  unnoticed beside it.
* A negative offset of a pointer is a large unsigned number (`Wrap`), so `p - 1` is a Region of its own.
  `dereference` and `read_field_by_name` make an unknown value of uninitialized memory (`Peek`). A write
  to memory that is deallocated is not noticed.

## 6. Running

| Run | Command |
|---|---|
| `itertraces` | `tlc -config MCIterTraces.cfg MCIterTraces` |
| `refcount_facet` | `tlc -config MCRefcountFacet.cfg MCRefcountFacet` |
| `wrappers` | `tlc -config MCWrapperGC.cfg MCWrapperGC` |
| `ranges` | `tlc -config MCValueRanges.cfg MCValueRanges` |
| `ranges_nop` (violation) | `tlc -config Conversions_known.cfg MCConversions` |
| `plugin_entries` | `tlc -config MCPluginEntries.cfg MCPluginEntries` |
| `graphs` | `tlc -config MCGraphQueries.cfg MCGraphQueries` |
| `api` | `tlc -config MCApiCalls.cfg MCApiCalls` |
| `api_untracked` (violation) | `tlc -config ApiCalls_AllChecked.cfg MCApiCalls` |
| `reports` | `tlc -config MCReports.cfg MCReports` |
| `regions` | `tlc -config MCRegions.cfg MCRegions` |
| `formats` | `tlc -config MCFormatArguments.cfg MCFormatArguments` |

The proofs: `tlapm` on `IterTraces_proofs.tla`, `States_proofs.tla`, `WrapperGC_proofs.tla`,
`ValueRanges_proofs.tla`, `PluginEntries_proofs.tla`, `ApiCalls_proofs.tla`, `Reports_proofs.tla` and
`GraphQueries_proofs.tla`. Each property of a run
has a mutant: an operator beside the code's own, marked "Mutant of", that a plausible mistake would turn it into and
with which TLC finds the property violated.

Not modelled at all: the initializer checks and the visualizations (stateless passes over data, or
formatting), the accessors for GCC's data (getters, whose wrappers are those of WrapperGC), the code
generators, the build and its tests.
