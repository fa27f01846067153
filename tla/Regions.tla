-------------------------------- MODULE Regions --------------------------------
(***************************************************************************)
(* The memory of a State of libcpychecker/absinterp.py: Regions, found by  *)
(* what they are part of, and the AbstractValues the State has for them.   *)
(* The Regions are shared by all the States of an analysis, the values are *)
(* not.  The paths through a function are taken depth first; with each go  *)
(* the executions that take it, in which every cell has its real contents. *)
(*                                                                         *)
(* The function has an int i, an array a and a struct s of ints, a pointer *)
(* p, the global g, and an object h that it may allocate.                  *)
(***************************************************************************)
EXTENDS Integers, SequencesExt

CONSTANTS
    Size,     \* the elements of a
    MaxInt,   \* an int is in 0..MaxInt
    Wrap,     \* the type of an offset is unsigned: -1 is Wrap - 1
    MaxSteps  \* bound: the statements executed, on all paths together

ASSUME SizesAssumption ==
    /\ Size \in Nat \ {0} /\ MaxInt \in Nat \ {0} /\ MaxSteps \in Nat
    /\ Wrap \in Nat /\ Size < Wrap
    /\ Size <= MaxInt   \* an int may be beyond the array

Ints == 0..MaxInt

\* A global and a heap object are Regions without a parent, variables are on the stack.
Globals == {"g"}
Heap    == {"h"}
Locals  == {"i", "a", "s"}
Cells   == {<<"a", k>> : k \in 0..(Size - 1)}
               \cup ((Globals \cup Heap \cup (Locals \ {"a"})) \X {0})

\* The contents of a cell that no statement gave a value; memory that is freed,
\* or not allocated yet.
Garbage == -1
Freed   == -2
Absent  == -3

VARIABLES
    made,   \* the Regions in the fields of others: by index, or by name
    path,   \* the State: what it has for Regions, and for p
    rest,   \* the States yet to be continued, and their executions
    runs,   \* the executions that take this path
    fresh,  \* AbstractValue objects created so far
    err,    \* how the evaluation of a statement failed
    steps

memory == <<made, path, rest, runs, fresh, err, steps>>

-----------------------------------------------------------------------------
(***************************************************************************)
(* Values.  A ConcreteValue is known by what it is; the others are objects.*)
(***************************************************************************)
Con(c)         == [kind |-> "con", id |-> 0, lo |-> c, hi |-> c]
Rng(n, lo, hi) == [kind |-> "rng", id |-> n, lo |-> lo, hi |-> hi]
Unknown(n)     == [kind |-> "unknown", id |-> n, lo |-> 0, hi |-> 0]
Uninit         == [kind |-> "uninit", id |-> 0, lo |-> 0, hi |-> 0]
Dead           == [kind |-> "dead", id |-> 0, lo |-> 0, hi |-> 0]
None           == [kind |-> "none", id |-> 0, lo |-> 0, hi |-> 0]
Crash          == [kind |-> "crash", id |-> 0, lo |-> 0, hi |-> 0]

UnknownInt(n)   == Rng(n, 0, MaxInt)
Make(n, lo, hi) == IF lo = hi THEN Con(lo) ELSE Rng(n, lo, hi)

High(x, y) == IF x < y THEN y ELSE x

\* AbstractValue.union: a value that is not known stays what it is; apart from
\* these it is implemented for numbers only.
Ranges      == {"con", "rng"}
Unites(v, w) == v.kind = "unknown" \/ {v.kind, w.kind} \subseteq Ranges

\* extract_from_parent: what a whole says of a part that has no value of its own.
Extract(n, v) ==
    CASE v.kind = "unknown" -> UnknownInt(n)
      [] v.kind = "rng" -> Rng(n, v.lo, v.hi)
      [] OTHER -> v

-----------------------------------------------------------------------------
(***************************************************************************)
(* Regions: of a variable or object, or of a part of one.  A part is found *)
(* by the name of the field, by a known index, or by the very object that  *)
(* the index is.                                                           *)
(***************************************************************************)
Field == <<"field", 0>>
At(k) == <<"at", k>>
In(v) == <<"in", v>>
NoRegion == <<>>

Root(r) == <<r[1]>>
Part(root, key) == <<root, key>>
Has(s, r) == r \in DOMAIN s.vals
Put(s, r, v) ==
    [s EXCEPT !.vals = [q \in DOMAIN s.vals \cup {r} |-> IF q = r THEN v ELSE s.vals[q]]]

\* _array_region and make_field_region.
MakeRegion(r) == made' = made \cup (IF Len(r) = 2 THEN {r} ELSE {})

\* summarize_array, from the first element of the range to the last: None at one
\* that has no Region, a KeyError at one that has no value in this State, and an
\* exception at a value that cannot be united with those before it.
SummarizeArray(s, root, rng, n) ==
    LET range    == rng.lo..rng.hi
        region(k) == Part(root, At(k))
        value(k) == s.vals[region(k)]
        first    == value(rng.lo)
        stops    == {k \in range : \/ region(k) \notin made
                                  \/ ~Has(s, region(k))
                                  \/ /\ k # rng.lo /\ Has(s, region(rng.lo))
                                     /\ ~Unites(first, value(k))}
    IN  IF stops # {}
        THEN IF \E k \in stops : region(k) \notin made /\ \A j \in stops : k <= j
             THEN None ELSE Crash
        ELSE IF first.kind = "unknown" \/ range = {rng.lo} THEN first
        ELSE Make(n, Min({value(k).lo : k \in range}), Max({value(k).hi : k \in range}))

\* Mutant of GetStore: arrays are not summarized.
GetStoreUnsummarized(s, r, n) ==
    LET whole == s.vals[Root(r)]
    IN  IF Has(s, r) THEN s.vals[r]
        ELSE IF ~Has(s, Root(r)) THEN UnknownInt(n)
        ELSE Extract(n, whole)

\* get_store: the Region's own value, or the default from its parent.
GetStore(s, r, n) ==
    LET whole   == s.vals[Root(r)]
        summary == SummarizeArray(s, r[1], r[2][2], n)
    IN  IF Has(s, r) THEN s.vals[r]
        ELSE IF ~Has(s, Root(r)) THEN UnknownInt(n)
        ELSE IF /\ whole.kind = "uninit" /\ r[2][1] = "in"
                /\ r[2][2].kind = "rng" /\ summary # None
             THEN summary
        ELSE Extract(n, whole)

\* The places a statement may name: a[k], a[i], s.f, *p, p->f, g and i.
Places == ({"elem"} \X (0..(Size - 1))) \cup
          ({"index", "field", "deref", "arrow", "global", "local"} \X {0})

Index(s) == s.vals[<<"i">>]

\* p is of the type that the place asks for; an index is a number.
Fits(s, pl) ==
    /\ pl[1] \in {"deref", "arrow"} => s.p # NoRegion
    /\ pl[1] = "deref" => s.p[1] \in {"a", "g"}
    /\ pl[1] = "arrow" => s.p[1] \in {"s", "h"}
Indexable(s, pl) == pl[1] = "index" => Index(s).kind # "uninit"

\* eval_lvalue.
LValue(s, pl) ==
    CASE pl[1] = "elem"   -> Part("a", At(pl[2]))
      [] pl[1] = "index"  -> Part("a", IF Index(s).kind = "con" THEN At(Index(s).lo)
                                                                ELSE In(Index(s)))
      [] pl[1] = "field"  -> Part("s", Field)
      [] pl[1] = "deref"  -> s.p
      [] pl[1] = "arrow"  -> Part(s.p[1], Field)
      [] pl[1] = "global" -> <<"g">>
      [] pl[1] = "local"  -> <<"i">>

-----------------------------------------------------------------------------
(***************************************************************************)
(* Executions: the contents of the cells, the Region each was last written *)
(* through, where p points, and whether the checker can know that exactly. *)
(***************************************************************************)
Cell(m, pl) ==
    CASE pl[1] = "elem"   -> <<"a", pl[2]>>
      [] pl[1] = "index"  -> <<"a", m.val[<<"i", 0>>]>>
      [] pl[1] = "field"  -> <<"s", 0>>
      [] pl[1] = "deref"  -> m.p
      [] pl[1] = "arrow"  -> <<m.p[1], 0>>
      [] pl[1] = "global" -> <<"g", 0>>
      [] pl[1] = "local"  -> <<"i", 0>>

\* The place is there, and is not in freed memory.  Beyond a there is nothing but
\* garbage; an execution that reads it is left unless the checker says so.
Legal(m, pl) == Cell(m, pl) \in Cells
Writable(m, pl) == Legal(m, pl) /\ m.val[Cell(m, pl)] # Freed
Readable(m, pl, v) == Legal(m, pl) \/ (Cell(m, pl)[1] = "a" /\ v = Uninit)
Contents(m, pl) == IF Legal(m, pl) THEN m.val[Cell(m, pl)] ELSE Garbage

\* The one Region that a cell has, if places are known.
Canonical(c) ==
    CASE c[1] = "a" -> Part("a", At(c[2]))
      [] c[1] \in {"s", "h"} -> Part(c[1], Field)
      [] OTHER -> <<c[1]>>

Exact(s, m, pl) ==
    /\ pl[1] = "index" => Index(s).kind = "con"
    /\ pl[1] = "deref" => m.exact

Through(s, m, pl) == IF Exact(s, m, pl) THEN Canonical(Cell(m, pl)) ELSE LValue(s, pl)

\* A Region that is used for another cell is no longer that of the one before:
\* an index that nothing is known of may be one object with two contents.
Write(s, m, pl, c) ==
    LET here == Cell(m, pl)
        r    == Through(s, m, pl)
        by(d) == IF d = here THEN r ELSE IF m.by[d] = r THEN NoRegion ELSE m.by[d]
    IN  [m EXCEPT !.val[here] = c, !.by = [d \in Cells |-> by(d)]]

SetI(m, c) == [m EXCEPT !.val[<<"i", 0>>] = c, !.by[<<"i", 0>>] = <<"i">>]

\* All the cells of a variable or an object are written, through one Region.
Fill(m, root, r, c) ==
    [m EXCEPT !.val = [d \in Cells |-> IF d[1] = root THEN c ELSE m.val[d]],
              !.by = [d \in Cells |-> IF d[1] = root THEN r ELSE m.by[d]]]

\* Where p points, in the State and in an execution.
SetP(s, r) == [s EXCEPT !.p = r]
MoveP(m, cell, exact) == [m EXCEPT !.p = cell, !.exact = exact]

(***************************************************************************)
(* A State does not know that two Regions are the same cell, and a write   *)
(* through one leaves what it has for the others.  What it says of a place *)
(* is held against an execution if the cell was last written through the   *)
(* Region that the place has now, or as a part of the whole it defaults to;*)
(* or, if the value is a summary, through the element's own.               *)
(***************************************************************************)
Met(s, m, pl) ==
    LET r == LValue(s, pl)
        c == Cell(m, pl)
    IN  \/ m.val[c] = Freed \/ m.by[c] = Through(s, m, pl)
        \/ ~Has(s, r) /\ m.by[c] = Root(r)
        \/ /\ ~Has(s, r) /\ m.by[c] = Canonical(c)
           /\ s.vals[Root(r)] = Uninit /\ r[2] = In(Index(s)) /\ Index(s).hi < Size

\* Where it has gone wrong, an execution is not followed any further; nor is the
\* path, if data is called uninitialized that may not be; if it is, the execution
\* goes on that has reached such data.
Followed(pl, v) ==
    LET astray == {m \in runs : Legal(m, pl) /\ ~Met(path, m, pl)}
        there  == {m \in runs \ astray : /\ Readable(m, pl, v) /\ Contents(m, pl) # Freed
                                         /\ v = Uninit => Contents(m, pl) = Garbage}
    IN  IF v = Uninit /\ astray # {} THEN {} ELSE there

\* What a read that the checker lets pass gives: data that was never set is some number.
Found(m, pl, v) ==
    IF v # Uninit /\ Contents(m, pl) = Garbage THEN Ints ELSE {Contents(m, pl)}

-----------------------------------------------------------------------------
\* init_for_function; i is a parameter.
MemoryInit ==
    /\ made = {} /\ rest = <<>> /\ err = "none" /\ steps = 0 /\ fresh = 1
    /\ path = [vals |-> [r \in {<<v>> : v \in Locals} |->
                            IF r = <<"i">> THEN UnknownInt(1) ELSE Uninit],
               p |-> NoRegion]
    /\ runs = {[val |-> [c \in Cells |-> CASE c[1] = "i" -> j [] c[1] \in Globals -> g
                                      [] c[1] \in Heap -> Absent [] OTHER -> Garbage],
                by |-> [c \in Cells |-> <<c[1]>>], p |-> <<"null", 0>>, exact |-> TRUE] :
               j \in Ints, g \in Ints}

Executes == err = "none" /\ runs # {} /\ steps < MaxSteps /\ steps' = steps + 1

\* A Python exception other than the checker's own ends the analysis.
Crashes == err' = "crash" /\ UNCHANGED <<made, path, rest, runs, fresh>>

\* i = input()
Input ==
    /\ Executes
    /\ fresh' = fresh + 1
    /\ path' = Put(path, <<"i">>, UnknownInt(fresh + 1))
    /\ runs' = {SetI(m, c) : m \in runs, c \in Ints}
    /\ UNCHANGED <<made, rest, err>>

\* assign: place = c, or place = i; contents[m] is what that is in an execution.
Assign(pl, v, contents) ==
    /\ Executes
    /\ Fits(path, pl)
    /\ IF ~Indexable(path, pl) THEN Crashes
       ELSE /\ \E m \in runs : Writable(m, pl)
            /\ MakeRegion(LValue(path, pl))
            /\ path' = Put(path, LValue(path, pl), v)
            /\ runs' = {Write(path, m, pl, contents[m]) : m \in {x \in runs : Writable(x, pl)}}
            /\ UNCHANGED <<rest, fresh, err>>

SetTo(pl, c) == Assign(pl, Con(c), [m \in runs |-> c])
CopyI(pl) == Assign(pl, Index(path), [m \in runs |-> m.val[<<"i", 0>>]])

\* i = place: the first time that a global is read, its value is entered.
Load(pl) ==
    LET r == LValue(path, pl)
        v == GetStore(path, r, fresh + 1)
        s == IF pl[1] = "global" THEN Put(path, r, v) ELSE path
    IN  /\ Executes
        /\ Fits(path, pl)
        /\ IF ~Indexable(path, pl) THEN Crashes
           ELSE IF v = Crash THEN Crashes
           ELSE /\ MakeRegion(r)
                /\ fresh' = High(fresh, v.id)
                /\ IF v.kind = "dead"
                   THEN err' = "dead" /\ UNCHANGED <<path, runs>>
                   ELSE /\ Followed(pl, v) # {}
                        /\ path' = Put(s, <<"i">>, v)
                        /\ runs' = UNION {{SetI(m, c) : c \in Found(m, pl, v)} :
                                             m \in Followed(pl, v)}
                        /\ UNCHANGED err
                /\ UNCHANGED rest

\* dereference and read_field_by_name, as the functions of the CPython API use
\* them: a Region without a value of its own gets a new unknown one, also if it
\* is uninitialized: what is found there is some number.
Peek(pl) ==
    LET r == LValue(path, pl)
        v == IF Has(path, r) THEN path.vals[r] ELSE UnknownInt(fresh + 1)
    IN  /\ Executes
        /\ Fits(path, pl)
        /\ v # Dead
        /\ Followed(pl, v) # {}
        /\ MakeRegion(r)
        /\ fresh' = High(fresh, v.id)
        /\ path' = Put(Put(path, r, v), <<"i">>, v)
        /\ runs' = UNION {{SetI(Write(path, m, pl, c), c) : c \in Found(m, pl, v)} :
                             m \in Followed(pl, v)}
        /\ UNCHANGED <<rest, err>>

\* p = &place; for &a that is the region of a[0].
PointTo(pl) ==
    LET r == IF pl[1] = "field" THEN <<"s">> ELSE LValue(path, pl)
        there == {m \in runs : Cell(m, pl)[2] \in 0..Size}
    IN  /\ Executes
        /\ IF ~Indexable(path, pl) THEN Crashes
           ELSE /\ there # {}
                /\ MakeRegion(r)
                /\ path' = SetP(path, r)
                /\ runs' = {MoveP(m, Cell(m, pl), Exact(path, m, pl)) : m \in there}
                /\ UNCHANGED <<rest, fresh, err>>

\* pointer_plus_region: an array goes on from the element pointed to.
PlusRegion(r, k) ==
    IF Len(r) = 2 THEN Part(r[1], At(r[2][2] + (k % Wrap))) ELSE Part(r[1], At(k % Wrap))

\* p = p + k
Advance(k) ==
    LET limit == IF path.p[1] = "a" THEN Size ELSE 1
        there == {m \in runs : m.p[2] + k \in 0..limit}
    IN  /\ Executes
        /\ path.p # NoRegion /\ path.p[1] \in {"a", "g"}
        /\ there # {}
        /\ IF Len(path.p) = 2 /\ path.p[2][1] = "in" THEN Crashes
           ELSE /\ MakeRegion(PlusRegion(path.p, k))
                /\ path' = SetP(path, PlusRegion(path.p, k))
                /\ runs' = {MoveP(m, <<m.p[1], m.p[2] + k>>, m.exact /\ 0 < k) : m \in there}
                /\ UNCHANGED <<rest, fresh, err>>

\* p = a new object: make_heap_region.
Allocate(m, c) == [MoveP(m, <<"h", 0>>, TRUE) EXCEPT !.val[<<"h", 0>>] = c]

Alloc ==
    /\ Executes
    /\ \A m \in runs : m.val[<<"h", 0>>] = Absent
    /\ path' = SetP(path, <<"h">>)
    /\ runs' = {Allocate(m, c) : m \in runs, c \in Ints}
    /\ UNCHANGED <<made, rest, fresh, err>>

\* Mutant of Forget: the values of the fields outlive the object.
ForgetNothing(s, root) == s

\* deallocate_region forgets the values of the fields.
Forget(s, root) ==
    [s EXCEPT !.vals = Restrict(s.vals, DOMAIN s.vals \ {r \in made : r[1] = root})]

Dealloc ==
    /\ Executes
    /\ path.p = <<"h">>
    /\ \E m \in runs : m.val[<<"h", 0>>] # Freed
    /\ path' = Put(Forget(path, "h"), <<"h">>, Dead)
    /\ runs' = {[m EXCEPT !.val[<<"h", 0>>] = Freed, !.by[<<"h", 0>>] = NoRegion] :
                  m \in {x \in runs : x.val[<<"h", 0>>] # Freed}}
    /\ UNCHANGED <<made, rest, fresh, err>>

\* a = {}: a Constructor is the default value for the whole.
Clear ==
    /\ Executes
    /\ path' = Put(path, <<"a">>, Con(0))
    /\ runs' = {Fill(m, "a", <<"a">>, 0) : m \in runs}
    /\ UNCHANGED <<made, rest, fresh, err>>

\* apply_fncall_side_effects, of an unknown function given p: it may write what
\* p points to, and all that this is part of.
Call ==
    LET pl == IF path.p[1] \in {"a", "g"} THEN "deref" ELSE "arrow"
    IN  /\ Executes
        /\ path.p # NoRegion
        /\ IF Has(path, path.p) /\ path.vals[path.p] = Dead
           THEN err' = "dead" /\ UNCHANGED <<path, runs, fresh>>
           ELSE /\ \E m \in runs : Writable(m, <<pl, 0>>)
                /\ fresh' = fresh + 1
                /\ path' = Put(path, path.p, Unknown(fresh + 1))
                /\ runs' = {Fill(m, m.p[1], path.p, w) :
                               m \in {x \in runs : Writable(x, <<pl, 0>>)}, w \in Ints}
                /\ UNCHANGED err
        /\ UNCHANGED <<made, rest>>

\* A branch on what is not known: both edges, and the State is copied.
Fork ==
    /\ Executes
    /\ rest' = Append(rest, [path |-> path, runs |-> runs])
    /\ UNCHANGED <<made, path, runs, fresh, err>>

\* SplitValue.split: the object is replaced wherever it is.
Replace(s, v, w) ==
    [s EXCEPT !.vals = [r \in DOMAIN s.vals |-> IF s.vals[r] = v THEN w ELSE s.vals[r]]]

\* i < k, for a range that has both.
Split(k) ==
    LET v == Index(path)
        low == Replace(path, v, Make(fresh + 1, v.lo, k - 1))
        high == Replace(path, v, Make(fresh + 2, k, v.hi))
        below == {m \in runs : m.val[<<"i", 0>>] < k}
    IN  /\ Executes
        /\ v.kind = "rng" /\ v.lo < k /\ k <= v.hi
        /\ fresh' = fresh + 2
        /\ path' = low /\ runs' = below
        /\ rest' = Append(rest, [path |-> high, runs |-> runs \ below])
        /\ UNCHANGED <<made, err>>

\* The path has returned, or its last statement failed: the next one is taken
\* up where it was left, with the Regions made in the meantime.
Backtrack ==
    /\ err \in {"none", "dead"}
    /\ rest # <<>>
    /\ path' = Last(rest).path /\ runs' = Last(rest).runs
    /\ rest' = Front(rest)
    /\ err' = "none"
    /\ UNCHANGED <<made, fresh, steps>>

MemoryNext ==
    \/ Input \/ Alloc \/ Dealloc \/ Clear \/ Call \/ Fork \/ Backtrack
    \/ \E pl \in Places \ {<<"local", 0>>} :
         \/ SetTo(pl, 1)
         \/ CopyI(pl)
         \/ Load(pl)
         \/ pl[1] \in {"deref", "arrow"} /\ Peek(pl)
         \/ pl[1] \in {"elem", "index", "field", "global"} /\ PointTo(pl)
    \/ \E k \in {-1, 1} : Advance(k)
    \/ \E k \in Ints : Split(k)

MemorySpec == MemoryInit /\ [][MemoryNext]_memory

-----------------------------------------------------------------------------
\* The contents of a cell are not freed, and are what the value says if it says more.
Stands(v, c) ==
    /\ c # Freed
    /\ v.kind = "unknown" \/ (v.kind \in Ranges /\ v.lo <= c /\ c <= v.hi)

\* What would be read at each place.
Readings(s) ==
    {<<pl, GetStore(s, LValue(s, pl), fresh + 1)>> :
        pl \in {q \in Places : Fits(s, q) /\ Indexable(s, q)}}

\* ReadsRight: on no path does the checker take a variable, an element or a
\* field for something it is not, however it was reached: by name, by a known
\* index, through a pointer that was moved, or by way of another path that made
\* its Region first.
ReadsRight ==
    \A x \in Readings(path) :
        x[2].kind \notin {"crash", "uninit", "dead"} =>
            \A m \in runs :
                Legal(m, x[1]) /\ Met(path, m, x[1]) => Stands(x[2], Contents(m, x[1]))

\* The numbers that an index may be, and an element of which nothing is known
\* that was written to it, or which is not there.
Possible(v) == IF v.kind = "rng" THEN v.lo..v.hi ELSE Ints

NeverSet(k) ==
    k < Size => \A m \in runs :
                    m.by[<<"a", k>>] \in {<<"a">>, Canonical(<<"a", k>>)} =>
                        m.val[<<"a", k>>] = Garbage

\* PoisonReal: data is called uninitialized, or deallocated, only if it is; where
\* the index is not known, only if there is an element that it may be and that
\* was never set (_get_store_recursive: "If we're indexing to an unknown
\* location, don't falsely say it's unitialized").
PoisonReal ==
    \A x \in Readings(path) :
        LET r == LValue(path, x[1])
        IN  x[2] \in {Uninit, Dead} =>
                IF ~Has(path, r) /\ r[2][1] = "in"
                THEN \E k \in Possible(r[2][2]) : NeverSet(k)
                ELSE \A m \in runs :
                         Legal(m, x[1]) /\ Met(path, m, x[1]) =>
                             Contents(m, x[1]) = IF x[2] = Dead THEN Freed ELSE Garbage
================================================================================
