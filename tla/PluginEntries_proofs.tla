-------------------------- MODULE PluginEntries_proofs --------------------------
(***************************************************************************)
(* Theorems about PluginEntries, for any closures, locations and bounds.   *)
(***************************************************************************)
EXTENDS PluginEntries, SequenceTheorems, TLAPS

Items == Closures \cup {OnFinish}

\* A list that on_plugin_finish ends, and one it is not in.
EndsIn(q) == Len(q) > 0 /\ \A k \in 1..Len(q) : q[k] = OnFinish <=> k = Len(q)
Clean(q) == \A k \in 1..Len(q) : q[k] # OnFinish
Holds(q, c) == \E k \in 1..Len(q) : q[k] = c

\* What each entry saved is what the one below it is to find again.
SavedBelow(f, g) ==
    /\ f.kind \in Restoring => f.saved_loc = g.place
    /\ f.kind = "callback" => f.saved_event = g.event
    /\ f.kind # "callback" => f.event = g.event
    /\ f.held = g.held + (IF f.kind \in Ensuring THEN 1 ELSE 0)

Saved == /\ stack[1].held = 1
         /\ \A i \in 2..Depth : SavedBelow(stack[i], stack[i - 1])

Lists ==
    /\ EndsIn(callbacks["FINISH"])
    /\ \A e \in Events \ {"FINISH"} : Clean(callbacks[e])
    /\ \A e \in Events : \A k \in 1..Len(callbacks[e]) :
          callbacks[e][k] \in Closures => closure_event[callbacks[e][k]] = e

\* Only GCC itself, and only at the end, has PLUGIN_FINISH on its list.
Quiet(f) ==
    /\ Clean(f.queue)
    /\ \A k \in 1..Len(f.fire) : f.fire[k] # "FINISH"

QuietAbove == \A i \in 1..Depth : i > 1 \/ phase = "running" => Quiet(stack[i])

Announced ==
    /\ Depth = 1 /\ stack[1].fire = <<"FINISH">> /\ stack[1].queue = <<>>
    /\ \A c \in due : Holds(callbacks["FINISH"], c)

UnderWay(q) ==
    /\ stack[1].fire = <<>> /\ EndsIn(q)
    /\ \A k \in 1..Len(q) : q[k] \in Closures => closure_event[q[k]] = "FINISH"
    /\ \A c \in due : c \in called \/ Holds(q, c)

Finishing == phase = "finishing" => Announced \/ UnderWay(stack[1].queue)

IInv ==
    /\ TypeOK /\ Restored /\ Saved /\ Lists /\ QuietAbove /\ Finishing
    /\ FinalizedLast /\ FinishersCalled

-----------------------------------------------------------------------------
(* Sequences.                                                              *)

\* The innermost entry changes.
LEMMA Changed ==
    ASSUME NEW S, NEW s \in Seq(S), s # <<>>, NEW f \in S
    PROVE  LET t == [s EXCEPT ![Len(s)] = f]
           IN  /\ t \in Seq(S) /\ Len(t) = Len(s) /\ t # <<>>
               /\ \A i \in 1..(Len(s) - 1) : t[i] = s[i]
               /\ t[Len(s)] = f
  OBVIOUS

\* An entry begins.
LEMMA Pushed ==
    ASSUME NEW S, NEW s \in Seq(S), NEW f \in S
    PROVE  LET t == Append(s, f)
           IN  /\ t \in Seq(S) /\ Len(t) = Len(s) + 1 /\ t # <<>>
               /\ \A i \in 1..Len(s) : t[i] = s[i]
               /\ t[Len(s) + 1] = f
  OBVIOUS

\* The innermost entry ends.
LEMMA Popped ==
    ASSUME NEW S, NEW s \in Seq(S), Len(s) > 1
    PROVE  LET t == Front(s)
           IN  /\ t \in Seq(S) /\ Len(t) = Len(s) - 1 /\ t # <<>>
               /\ \A i \in 1..(Len(s) - 1) : t[i] = s[i]
  <1>1. Len(s) \in Nat /\ Len(s) - 1 \in Nat /\ Len(s) - 1 > 0 OBVIOUS
  <1> DEFINE t == SubSeq(s, 1, Len(s) - 1)
  <1>2. /\ t \in Seq(S) /\ Len(t) = Len(s) - 1
        /\ \A i \in 1..(Len(s) - 1) : t[i] = s[i]
    BY <1>1, SubSeqProperties
  <1>3. Front(s) = t BY DEF Front
  <1> HIDE DEF t
  <1>4. t # <<>> BY <1>1, <1>2, EmptySeq
  <1> QED BY <1>2, <1>3, <1>4

\* A callback is taken from a list.
LEMMA Dequeue ==
    ASSUME NEW q \in Seq(Items), q # <<>>
    PROVE  /\ Tail(q) \in Seq(Items) /\ Head(q) \in Items
           /\ Clean(q) => Clean(Tail(q)) /\ Head(q) # OnFinish
           /\ EndsIn(q) /\ Head(q) # OnFinish => EndsIn(Tail(q))
           /\ EndsIn(q) /\ Head(q) = OnFinish => Tail(q) = <<>> /\ \A c \in Closures : ~Holds(q, c)
           /\ \A c : Holds(q, c) => c = Head(q) \/ Holds(Tail(q), c)
  <1>1. /\ Tail(q) \in Seq(Items) /\ Head(q) \in Items /\ Head(q) = q[1]
        /\ Len(q) \in Nat /\ Len(q) > 0 /\ 1 \in 1..Len(q) /\ Len(Tail(q)) = Len(q) - 1
        /\ \A k \in 1..Len(Tail(q)) : Tail(q)[k] = q[k + 1]
    OBVIOUS
  <1>2. Clean(q) => Clean(Tail(q)) /\ Head(q) # OnFinish
    BY <1>1 DEF Clean
  <1>3. ASSUME EndsIn(q), Head(q) # OnFinish PROVE EndsIn(Tail(q))
    <2>1. q[1] = OnFinish <=> 1 = Len(q) BY <1>1, <1>3 DEF EndsIn
    <2>2. Len(Tail(q)) > 0 BY <1>1, <1>3, <2>1
    <2>3. \A k \in 1..Len(Tail(q)) : k + 1 \in 1..Len(q) /\ (k + 1 = Len(q) <=> k = Len(Tail(q)))
      BY <1>1
    <2> QED BY <1>1, <1>3, <2>2, <2>3 DEF EndsIn
  <1>4. ASSUME EndsIn(q), Head(q) = OnFinish
        PROVE  Tail(q) = <<>> /\ \A c \in Closures : ~Holds(q, c)
    <2>0. q[1] = OnFinish <=> 1 = Len(q) BY <1>1, <1>4 DEF EndsIn
    <2>1. Len(q) = 1 BY <1>1, <1>4, <2>0
    <2>2. Tail(q) = <<>>
      <3>1. Len(Tail(q)) = 0 BY <1>1, <2>1
      <3> QED BY <1>1, <3>1, EmptySeq
    <2>3. \A c \in Closures : ~Holds(q, c)
      BY <1>1, <1>4, <2>1, EntriesAssumption DEF Holds
    <2> QED BY <2>2, <2>3
  <1>5. ASSUME NEW c, Holds(q, c) PROVE c = Head(q) \/ Holds(Tail(q), c)
    <2>1. PICK k \in 1..Len(q) : q[k] = c BY <1>5 DEF Holds
    <2>2. CASE k = 1 BY <2>1, <2>2, <1>1
    <2>3. CASE k # 1
      <3>1. k - 1 \in 1..Len(Tail(q)) /\ Tail(q)[k - 1] = c BY <2>1, <2>3, <1>1
      <3> QED BY <3>1 DEF Holds
    <2> QED BY <2>2, <2>3
  <1> QED BY <1>1, <1>2, <1>3, <1>4, <1>5

\* GCC puts a callback before those it has.
LEMMA Prepended ==
    ASSUME NEW q \in Seq(Items), NEW c \in Closures
    PROVE  LET r == <<c>> \o q
           IN  /\ r \in Seq(Items) /\ Len(r) = Len(q) + 1 /\ r[1] = c
               /\ \A k \in 2..Len(r) : r[k] = q[k - 1]
               /\ Clean(q) => Clean(r)
               /\ EndsIn(q) => EndsIn(r)
  <1> DEFINE r == <<c>> \o q
  <1>1. /\ r \in Seq(Items) /\ Len(r) = Len(q) + 1 /\ r[1] = c /\ Len(q) \in Nat
        /\ \A k \in 2..Len(r) : r[k] = q[k - 1]
    BY DEF Items
  <1>2. c # OnFinish BY EntriesAssumption
  <1> HIDE DEF r
  <1>3. Clean(q) => Clean(r) BY <1>1, <1>2 DEF Clean
  <1>4. ASSUME EndsIn(q) PROVE EndsIn(r)
    <2>1. Len(r) > 1 BY <1>1, <1>4 DEF EndsIn
    <2>2. ASSUME NEW k \in 1..Len(r) PROVE r[k] = OnFinish <=> k = Len(r)
      <3>1. CASE k = 1 BY <1>1, <1>2, <2>1, <3>1
      <3>2. CASE k # 1
        <4>1. k - 1 \in 1..Len(q) /\ r[k] = q[k - 1] BY <1>1, <3>2
        <4>2. q[k - 1] = OnFinish <=> k - 1 = Len(q) BY <1>4, <4>1 DEF EndsIn
        <4> QED BY <1>1, <4>1, <4>2
      <3> QED BY <3>1, <3>2
    <2> QED BY <2>1, <2>2 DEF EndsIn
  <1> QED BY <1>1, <1>3, <1>4 DEF r

-----------------------------------------------------------------------------
(* The stack, as each kind of step leaves it.                              *)

Stacked ==
    /\ stack \in Seq(Frame) /\ stack # <<>>
    /\ \A i \in 1..Depth : stack[i].kind = "gcc" <=> i = 1
    /\ Saved

LEMMA Tops ==
    ASSUME stack \in Seq(Frame), stack # <<>>
    PROVE  /\ Depth \in Nat /\ Depth >= 1 /\ Depth \in 1..Depth
           /\ top = stack[Depth] /\ top \in Frame
           /\ \A i \in 1..Depth : stack[i] \in Frame
  BY EmptySeq DEF top, Depth, Last

\* A step that rewrites what the innermost entry is doing, and its place.
LEMMA Touch ==
    ASSUME Stacked, NEW f \in Frame, stack' = [stack EXCEPT ![Depth] = f],
           f.kind = top.kind, f.event = top.event, f.held = top.held,
           f.saved_loc = top.saved_loc, f.saved_event = top.saved_event
    PROVE  /\ Stacked' /\ Depth' = Depth /\ top' = f
           /\ \A i \in 1..(Depth - 1) : stack'[i] = stack[i]
           /\ stack'[Depth] = f
  <1>1. /\ Depth \in Nat /\ Depth >= 1 /\ top = stack[Depth]
    BY Tops DEF Stacked
  <1>2. /\ stack' \in Seq(Frame) /\ Depth' = Depth /\ stack' # <<>>
        /\ \A i \in 1..(Depth - 1) : stack'[i] = stack[i]
        /\ stack'[Depth] = f
    BY Changed DEF Stacked, Depth
  <1>3. top' = f BY <1>2 DEF top, Last, Depth
  <1>4. \A i \in 1..Depth : stack'[i].kind = "gcc" <=> i = 1
    BY <1>1, <1>2 DEF Stacked
  <1>5. Saved'
    <2>1. stack'[1].held = 1 BY <1>1, <1>2 DEF Stacked, Saved
    <2>2. ASSUME NEW i \in 2..Depth PROVE SavedBelow(stack'[i], stack'[i - 1])
      <3>1. SavedBelow(stack[i], stack[i - 1]) BY DEF Stacked, Saved
      <3>2. stack'[i - 1] = stack[i - 1] BY <1>1, <1>2
      <3>3. CASE i < Depth BY <3>1, <3>2, <3>3, <1>1, <1>2
      <3>4. CASE i = Depth BY <3>1, <3>2, <3>4, <1>1, <1>2 DEF SavedBelow
      <3> QED BY <3>3, <3>4, <1>1
    <2> QED BY <2>1, <2>2, <1>2 DEF Saved
  <1> QED BY <1>2, <1>3, <1>4, <1>5 DEF Stacked

\* A step on which an entry begins, when the one below is doing g.
LEMMA PushKeeps ==
    ASSUME Stacked, NEW g \in Frame, NEW f \in Frame, f.kind # "gcc", SavedBelow(f, g),
           g.kind = top.kind, g.event = top.event, g.held = top.held,
           g.saved_loc = top.saved_loc, g.saved_event = top.saved_event,
           stack' \in Seq(Frame), Depth' = Depth + 1, stack' # <<>>,
           \A i \in 1..(Depth - 1) : stack'[i] = stack[i],
           stack'[Depth] = g, stack'[Depth + 1] = f
    PROVE  Stacked' /\ top' = f
  <1>1. /\ Depth \in Nat /\ Depth >= 1 /\ top = stack[Depth]
    BY Tops DEF Stacked
  <1>2. top' = f BY DEF top, Last, Depth
  <1>3. \A i \in 1..(Depth + 1) : stack'[i].kind = "gcc" <=> i = 1
    <2> TAKE i \in 1..(Depth + 1)
    <2>1. CASE i < Depth BY <2>1, <1>1 DEF Stacked
    <2>2. CASE i = Depth BY <2>2, <1>1 DEF Stacked
    <2>3. CASE i = Depth + 1 BY <2>3, <1>1
    <2> QED BY <2>1, <2>2, <2>3, <1>1
  <1>4. Saved'
    <2>0. \A i \in 2..Depth : SavedBelow(stack[i], stack[i - 1]) BY DEF Stacked, Saved
    <2>1. stack'[1].held = 1
      <3>1. CASE Depth = 1 BY <3>1, <1>1 DEF Stacked, Saved
      <3>2. CASE Depth > 1 BY <3>2, <1>1 DEF Stacked, Saved
      <3> QED BY <3>1, <3>2, <1>1
    <2>2. ASSUME NEW i \in 2..(Depth + 1) PROVE SavedBelow(stack'[i], stack'[i - 1])
      <3>1. CASE i < Depth
        <4>0. i \in 1..(Depth - 1) /\ i - 1 \in 1..(Depth - 1) /\ i \in 2..Depth
          BY <3>1, <1>1
        <4>1. SavedBelow(stack[i], stack[i - 1]) BY <4>0, <2>0
        <4>2. stack'[i] = stack[i] /\ stack'[i - 1] = stack[i - 1] BY <4>0
        <4> QED BY <4>1, <4>2
      <3>2. CASE i = Depth
        <4>0. i - 1 \in 1..(Depth - 1) /\ i \in 2..Depth BY <3>2, <1>1
        <4>1. SavedBelow(top, stack[i - 1]) BY <3>2, <4>0, <2>0, <1>1
        <4>2. stack'[i] = g /\ stack'[i - 1] = stack[i - 1] BY <3>2, <4>0, <1>1
        <4> QED BY <4>1, <4>2 DEF SavedBelow
      <3>3. CASE i = Depth + 1 BY <3>3, <1>1
      <3> QED BY <3>1, <3>2, <3>3, <1>1
    <2> QED BY <2>1, <2>2 DEF Saved
  <1> QED BY <1>2, <1>3, <1>4 DEF Stacked

\* (Named so that the provers see its consequences, in place of Append itself.)
Begins(f) == stack' = Append(stack, f)

LEMMA Push ==
    ASSUME Stacked, NEW f \in Frame, Begins(f),
           f.kind # "gcc", SavedBelow(f, top)
    PROVE  /\ Stacked' /\ Depth' = Depth + 1 /\ top' = f
           /\ \A i \in 1..Depth : stack'[i] = stack[i]
           /\ stack'[Depth + 1] = f
  <1>1. /\ stack' \in Seq(Frame) /\ Depth' = Depth + 1 /\ stack' # <<>>
        /\ \A i \in 1..Depth : stack'[i] = stack[i]
        /\ stack'[Depth + 1] = f
    BY Pushed DEF Stacked, Depth, Begins
  <1>2. Depth \in Nat /\ Depth \in 1..Depth /\ top = stack[Depth] /\ top \in Frame
    BY Tops DEF Stacked
  <1>3. \A n \in Nat : (\A i \in 1..n : stack'[i] = stack[i]) =>
           (\A i \in 1..(n - 1) : stack'[i] = stack[i])
    OBVIOUS
  <1> QED BY <1>1, <1>2, <1>3, PushKeeps

\* A step on which the innermost entry ends; the place of the one below may change.
LEMMA PopKeeps ==
    ASSUME Stacked, Depth > 1, NEW f \in Frame, f.kind = stack[Depth - 1].kind,
           f.event = stack[Depth - 1].event, f.held = stack[Depth - 1].held,
           f.saved_loc = stack[Depth - 1].saved_loc,
           f.saved_event = stack[Depth - 1].saved_event,
           stack' \in Seq(Frame), Depth' = Depth - 1, stack' # <<>>,
           \A i \in 1..(Depth - 2) : stack'[i] = stack[i],
           stack'[Depth - 1] = f
    PROVE  Stacked' /\ top' = f
  <1>1. Depth \in Nat BY Tops DEF Stacked
  <1>2. top' = f BY DEF top, Last, Depth
  <1>3. \A i \in 1..(Depth - 1) : stack'[i].kind = "gcc" <=> i = 1
    <2> TAKE i \in 1..(Depth - 1)
    <2>1. CASE i < Depth - 1 BY <2>1, <1>1 DEF Stacked
    <2>2. CASE i = Depth - 1 BY <2>2, <1>1 DEF Stacked
    <2> QED BY <2>1, <2>2, <1>1
  <1>4. Saved'
    <2>1. stack'[1].held = 1
      <3>1. CASE Depth = 2 BY <3>1 DEF Stacked, Saved
      <3>2. CASE Depth > 2 BY <3>2, <1>1 DEF Stacked, Saved
      <3> QED BY <3>1, <3>2, <1>1
    <2>2. ASSUME NEW i \in 2..(Depth - 1) PROVE SavedBelow(stack'[i], stack'[i - 1])
      <3>1. SavedBelow(stack[i], stack[i - 1]) BY <1>1 DEF Stacked, Saved
      <3>2. stack'[i - 1] = stack[i - 1] BY <1>1
      <3>3. CASE i < Depth - 1
        <4>1. stack'[i] = stack[i] BY <3>3, <1>1
        <4> QED BY <3>1, <3>2, <4>1
      <3>4. CASE i = Depth - 1 BY <3>1, <3>2, <3>4, <1>1 DEF SavedBelow
      <3> QED BY <3>3, <3>4, <1>1
    <2> QED BY <2>1, <2>2 DEF Saved
  <1> QED BY <1>2, <1>3, <1>4 DEF Stacked

LEMMA Pop ==
    ASSUME Stacked, Depth > 1, NEW loc \in Locs,
           \/ stack' = Front(stack) /\ loc = stack[Depth - 1].place
           \/ stack' = [Front(stack) EXCEPT ![Depth - 1].place = loc]
    PROVE  /\ Stacked' /\ Depth' = Depth - 1
           /\ top' = [stack[Depth - 1] EXCEPT !.place = loc]
           /\ \A i \in 1..(Depth - 2) : stack'[i] = stack[i]
           /\ stack'[Depth - 1] = top'
  <1> DEFINE g == stack[Depth - 1]
             f == [g EXCEPT !.place = loc]
  <1>1. /\ Depth \in Nat /\ Depth - 1 \in 1..Depth /\ g \in Frame
    BY Tops DEF Stacked
  <1>2. /\ Front(stack) \in Seq(Frame) /\ Len(Front(stack)) = Depth - 1 /\ Front(stack) # <<>>
        /\ \A i \in 1..(Depth - 1) : Front(stack)[i] = stack[i]
    BY Popped DEF Stacked, Depth
  <1> HIDE DEF g
  <1>3. /\ f \in Frame /\ f.kind = g.kind /\ f.event = g.event /\ f.held = g.held
        /\ f.saved_loc = g.saved_loc /\ f.saved_event = g.saved_event
        /\ loc = g.place => f = g
    BY <1>1 DEF Frame
  <1> HIDE DEF f
  <1>4. /\ stack' \in Seq(Frame) /\ Depth' = Depth - 1 /\ stack' # <<>>
        /\ \A i \in 1..(Depth - 2) : stack'[i] = stack[i]
        /\ stack'[Depth - 1] = f
    <2>1. CASE stack' = Front(stack) /\ loc = stack[Depth - 1].place
      <3>1. f = stack[Depth - 1] BY <2>1, <1>3 DEF g
      <3> QED BY <2>1, <3>1, <1>1, <1>2 DEF Depth
    <2>2. CASE stack' = [Front(stack) EXCEPT ![Depth - 1].place = loc]
      <3>1. Front(stack)[Depth - 1] = g BY <1>1, <1>2 DEF g
      <3>2. stack' = [Front(stack) EXCEPT ![Depth - 1] = f]
        BY <2>2, <3>1 DEF f
      <3>3. stack' = [Front(stack) EXCEPT ![Len(Front(stack))] = f]
        BY <3>2, <1>2
      <3>4. /\ stack' \in Seq(Frame) /\ Len(stack') = Len(Front(stack)) /\ stack' # <<>>
            /\ \A i \in 1..(Len(Front(stack)) - 1) : stack'[i] = Front(stack)[i]
            /\ stack'[Len(Front(stack))] = f
        BY <3>3, <1>2, <1>3, Changed
      <3> QED BY <3>4, <1>1, <1>2 DEF Depth
    <2> QED BY <2>1, <2>2
  <1>5. Stacked' /\ top' = f BY <1>3, <1>4, PopKeeps DEF g
  <1> QED BY <1>4, <1>5 DEF f, g

-----------------------------------------------------------------------------
(* The invariant.                                                          *)

LEMMA Facts ==
    ASSUME IInv
    PROVE  /\ Stacked /\ Depth \in Nat /\ Depth >= 1 /\ Depth \in 1..Depth
           /\ top = stack[Depth] /\ top \in Frame
           /\ \A i \in 1..Depth : stack[i] \in Frame
  <1>1. Stacked BY DEF IInv, TypeOK, Stacked
  <1> QED BY <1>1, Tops DEF Stacked

\* While it is under way, what Python code and the entries do leaves GCC's work alone.
LEMMA Others ==
    ASSUME IInv, phase \in {"running", "finishing"}, phase = "finishing" => Depth > 1,
           phase' = phase, closure_event' = closure_event, callbacks' = callbacks,
           due' = due, called \subseteq called', Depth' \in Nat, Depth' >= 1,
           \A i \in 1..Depth' :
              \/ /\ i <= Depth
                 /\ stack'[i].fire = stack[i].fire /\ stack'[i].queue = stack[i].queue
              \/ (i > 1 \/ phase = "running") /\ Quiet(stack'[i])
    PROVE  /\ Lists' /\ QuietAbove' /\ Finishing'
           /\ FinalizedLast' /\ FinishersCalled'
  <1>0. Depth \in Nat /\ Depth >= 1 BY Facts
  <1>1. Lists' BY DEF IInv, Lists
  <1>2. QuietAbove'
    <2>1. ASSUME NEW i \in 1..Depth', i > 1 \/ phase' = "running" PROVE Quiet(stack'[i])
      <3>1. CASE /\ i <= Depth
                 /\ stack'[i].fire = stack[i].fire /\ stack'[i].queue = stack[i].queue
        <4>1. Quiet(stack[i]) BY <1>0, <2>1, <3>1 DEF IInv, QuietAbove
        <4> QED BY <3>1, <4>1 DEF Quiet
      <3> QED BY <3>1
    <2> QED BY <2>1 DEF QuietAbove
  <1>3. Finishing'
    <2> SUFFICES ASSUME phase = "finishing" PROVE UnderWay(stack[1].queue)'
      BY DEF Finishing
    <2>1. UnderWay(stack[1].queue) BY DEF IInv, Finishing, Announced
    <2>2. stack'[1].fire = stack[1].fire /\ stack'[1].queue = stack[1].queue
      OBVIOUS
    <2> QED BY <2>1, <2>2 DEF UnderWay
  <1>4. FinalizedLast' /\ FinishersCalled' BY DEF FinalizedLast, FinishersCalled
  <1> QED BY <1>1, <1>2, <1>3, <1>4

LEMMA Initial == ASSUME Init PROVE IInv
  <1>1. PICK loc \in Locs :
        /\ input_location = loc /\ current_event = BAD_EVENT
        /\ gil = 1 /\ pending = FALSE
        /\ cfun = FALSE /\ gated = FALSE /\ passes = FALSE /\ attributes = FALSE
        /\ closure_event = [c \in Closures |-> BAD_EVENT]
        /\ callbacks = [e \in Events |-> IF e = "FINISH" THEN <<OnFinish>> ELSE <<>>]
        /\ stack = [i \in 1..2 |->
              [kind |-> IF i = 1 THEN "gcc" ELSE "script", place |-> loc,
               event |-> BAD_EVENT, held |-> 1, saved_loc |-> loc,
               saved_event |-> BAD_EVENT, fire |-> <<>>, queue |-> <<>>]]
        /\ phase = "running" /\ due = {} /\ called = {}
    BY DEF Init
  <1>2. \A i \in 1..2 : stack[i] \in Frame
    BY <1>1 DEF Frame, Kinds
  <1>3. stack \in Seq(Frame) /\ Depth = 2 /\ stack # <<>>
    BY <1>1, <1>2 DEF Depth
  <1>4. top = stack[2] BY <1>3 DEF top, Last, Depth
  <1>5. \A e \in Events : callbacks[e] \in Seq(Items) BY <1>1 DEF Items
  <1>6. TypeOK
    <2>1. callbacks \in [Events -> Seq(Closures \cup {OnFinish})] BY <1>1, <1>5 DEF Items
    <2>2. \A i \in 1..Depth : stack[i].kind = "gcc" <=> i = 1 BY <1>1, <1>3
    <2>3. closure_event \in [Closures -> Events \cup {BAD_EVENT}] BY <1>1
    <2>4. gil \in Nat \ {0} BY <1>1
    <2> QED BY <1>1, <1>3, <2>1, <2>2, <2>3, <2>4 DEF TypeOK
  <1>7. Restored BY <1>1, <1>4 DEF Restored
  <1>8. Saved BY <1>1, <1>3 DEF Saved, SavedBelow, Restoring, Ensuring
  <1>9. Lists
    <2>1. EndsIn(callbacks["FINISH"]) BY <1>1 DEF EndsIn, Events
    <2>2. \A e \in Events \ {"FINISH"} : Clean(callbacks[e]) BY <1>1 DEF Clean
    <2>3. \A e \in Events : \A k \in 1..Len(callbacks[e]) : callbacks[e][k] \notin Closures
      BY <1>1, EntriesAssumption
    <2> QED BY <2>1, <2>2, <2>3 DEF Lists
  <1>10. QuietAbove BY <1>1, <1>3 DEF QuietAbove, Quiet, Clean
  <1>11. Finishing /\ FinalizedLast /\ FinishersCalled
    BY <1>1 DEF Finishing, FinalizedLast, FinishersCalled
  <1> QED BY <1>6, <1>7, <1>8, <1>9, <1>10, <1>11 DEF IInv

\* Nothing but tables that Python code fills.
LEMMA RegisterKeeps ==
    ASSUME IInv, RegisterPass \/ RegisterAttribute PROVE IInv'
  <1>1. /\ PythonRuns
        /\ UNCHANGED <<indicators, pending, gcc, closure_event, callbacks, stack, phase, history>>
        /\ passes' \in BOOLEAN /\ attributes' \in BOOLEAN
    BY DEF RegisterPass, RegisterAttribute, IInv, TypeOK
  <1>2. Depth' = Depth /\ top' = top BY <1>1 DEF Depth, top
  <1>3. TypeOK' BY <1>1, <1>2 DEF IInv, TypeOK, indicators, gcc, history
  <1>4. Restored' /\ Saved'
    BY <1>1, <1>2 DEF IInv, Restored, Saved, indicators
  <1>5. /\ Lists' /\ QuietAbove' /\ Finishing' /\ FinalizedLast' /\ FinishersCalled'
    BY <1>1, <1>2, Others, Facts DEF PythonRuns, history
  <1> QED BY <1>3, <1>4, <1>5 DEF IInv

LEMMA RegisterCallbackKeeps ==
    ASSUME IInv, NEW c \in Closures, NEW e \in Listened, RegisterCallback(c, e) PROVE IInv'
  <1>1. /\ PythonRuns /\ closure_event[c] = BAD_EVENT
        /\ closure_event' = [closure_event EXCEPT ![c] = e]
        /\ callbacks' = [callbacks EXCEPT ![e] = <<c>> \o @]
        /\ UNCHANGED <<indicators, pending, gcc, passes, attributes, stack, phase, history>>
    BY DEF RegisterCallback
  <1>2. Depth' = Depth /\ top' = top BY <1>1 DEF Depth, top
  <1>3. /\ e \in Events /\ BAD_EVENT \notin Events
        /\ closure_event \in [Closures -> Events \cup {BAD_EVENT}]
        /\ callbacks \in [Events -> Seq(Items)]
    BY EntriesAssumption DEF IInv, TypeOK, Items
  <1> DEFINE r == <<c>> \o callbacks[e]
  <1>4. /\ r \in Seq(Items) /\ Len(r) = Len(callbacks[e]) + 1 /\ r[1] = c
        /\ \A k \in 2..Len(r) : r[k] = callbacks[e][k - 1]
        /\ Clean(callbacks[e]) => Clean(r)
        /\ EndsIn(callbacks[e]) => EndsIn(r)
    BY <1>3, Prepended
  <1>5. callbacks' = [callbacks EXCEPT ![e] = r] BY <1>1
  <1> HIDE DEF r
  <1>6. TypeOK'
    <2>1. callbacks' \in [Events -> Seq(Items)] BY <1>3, <1>4, <1>5
    <2>2. closure_event' \in [Closures -> Events \cup {BAD_EVENT}] BY <1>1, <1>3
    <2> QED BY <1>1, <1>2, <2>1, <2>2 DEF IInv, TypeOK, Items, indicators, gcc, history
  <1>7. Restored' /\ Saved'
    BY <1>1, <1>2 DEF IInv, Restored, Saved, indicators
  <1>8. Lists'
    <2>1. EndsIn(callbacks'["FINISH"]) BY <1>3, <1>4, <1>5 DEF IInv, Lists
    <2>2. \A x \in Events \ {"FINISH"} : Clean(callbacks'[x])
      BY <1>3, <1>4, <1>5 DEF IInv, Lists
    <2>3. ASSUME NEW x \in Events, NEW k \in 1..Len(callbacks'[x]), callbacks'[x][k] \in Closures
          PROVE  closure_event'[callbacks'[x][k]] = x
      <3>1. \A j \in 1..Len(callbacks[x]) : callbacks[x][j] \in Closures =>
               callbacks[x][j] # c /\ closure_event[callbacks[x][j]] = x
        BY <1>1, <1>3 DEF IInv, Lists
      <3>2. CASE x # e BY <3>1, <3>2, <2>3, <1>1, <1>3, <1>5
      <3>3. CASE x = e /\ k = 1 BY <3>3, <1>1, <1>3, <1>4, <1>5
      <3>4. CASE x = e /\ k # 1
        <4>1. callbacks'[x] = r /\ Len(callbacks[x]) \in Nat BY <3>4, <1>3, <1>5
        <4>2. k \in 2..Len(r) /\ k - 1 \in 1..Len(callbacks[x])
          BY <3>4, <4>1, <1>4
        <4>3. callbacks'[x][k] = callbacks[x][k - 1] BY <3>4, <4>1, <4>2, <1>4
        <4> QED BY <3>1, <4>2, <4>3, <2>3, <1>1, <1>3
      <3> QED BY <3>2, <3>3, <3>4
    <2> QED BY <2>1, <2>2, <2>3 DEF Lists
  <1>9. QuietAbove' BY <1>1, <1>2 DEF IInv, QuietAbove
  <1>10. Finishing'
    <2> SUFFICES ASSUME phase = "finishing" PROVE UnderWay(stack[1].queue)'
      BY <1>1 DEF Finishing
    <2>1. UnderWay(stack[1].queue)
      BY <1>1 DEF IInv, Finishing, Announced, PythonRuns
    <2>2. \A k \in 1..Len(stack[1].queue) : stack[1].queue[k] \in Closures =>
             closure_event'[stack[1].queue[k]] = "FINISH"
      BY <2>1, <1>1, <1>3 DEF UnderWay, Events
    <2> QED BY <2>1, <2>2, <1>1 DEF UnderWay, history
  <1>11. FinalizedLast' /\ FinishersCalled'
    BY <1>1 DEF FinalizedLast, FinishersCalled, PythonRuns
  <1> QED BY <1>6, <1>7, <1>8, <1>9, <1>10, <1>11 DEF IInv

LEMMA TopNext == Stacked' => (top \in Frame)'
  <1>1. Stacked => top \in Frame BY Tops DEF Stacked
  <1> QED BY <1>1, PTL

\* The rest of the type invariant, for the steps that leave the tables alone.
LEMMA StillTyped ==
    ASSUME IInv, Stacked', UNCHANGED tables, Restored',
           pending' \in BOOLEAN, cfun' \in BOOLEAN, gated' \in BOOLEAN,
           phase' \in {"running", "finishing", "finalized", "exited"},
           gil' # 0, due' \subseteq Closures, called' \subseteq Closures
    PROVE  TypeOK' /\ Saved'
  <1>1. top' \in Frame BY TopNext
  <1>2. input_location' \in Locs /\ current_event' \in Events \cup {BAD_EVENT} /\ gil' \in Nat
    BY <1>1 DEF Restored, Frame
  <1> QED BY <1>2 DEF IInv, TypeOK, Stacked, tables

LEMMA SetLocationKeeps ==
    ASSUME IInv, NEW loc \in Locs, SetLocation(loc) PROVE IInv'
  <1> DEFINE f == [top EXCEPT !.place = loc]
  <1>1. /\ PythonRuns /\ input_location' = loc
        /\ stack' = [stack EXCEPT ![Depth].place = loc]
        /\ UNCHANGED <<current_event, gil, pending, gcc, tables, phase, history>>
    BY DEF SetLocation
  <1>2. stack' = [stack EXCEPT ![Depth] = f] BY <1>1, Facts
  <1>3. /\ f \in Frame /\ f.kind = top.kind /\ f.event = top.event /\ f.held = top.held
        /\ f.saved_loc = top.saved_loc /\ f.saved_event = top.saved_event
        /\ f.place = loc /\ f.fire = top.fire /\ f.queue = top.queue
    BY Facts DEF Frame
  <1> HIDE DEF f
  <1>4. /\ Stacked' /\ Depth' = Depth /\ top' = f
        /\ \A i \in 1..(Depth - 1) : stack'[i] = stack[i]
        /\ stack'[Depth] = f
    BY <1>2, <1>3, Facts, Touch
  <1>5. Restored' BY <1>1, <1>3, <1>4 DEF IInv, Restored
  <1>6. TypeOK' /\ Saved'
    BY <1>1, <1>4, <1>5, StillTyped DEF IInv, TypeOK, gcc, history
  <1>7. Lists' /\ QuietAbove' /\ Finishing' /\ FinalizedLast' /\ FinishersCalled'
    <2>1. \A i \in 1..Depth' :
             i <= Depth /\ stack'[i].fire = stack[i].fire /\ stack'[i].queue = stack[i].queue
      BY <1>3, <1>4, Facts
    <2> QED BY <1>1, <1>4, <2>1, Others, Facts DEF PythonRuns, history, tables
  <1> QED BY <1>5, <1>6, <1>7 DEF IInv

LEMMA CollectKeeps ==
    ASSUME IInv, Collect PROVE IInv'
  <1> DEFINE f == [top EXCEPT !.fire = Collection]
  <1>1. /\ PythonRuns \/ GccRuns
        /\ stack' = [stack EXCEPT ![Depth].fire = Collection]
        /\ UNCHANGED <<indicators, pending, gcc, tables, phase, history>>
    BY DEF Collect
  <1>2. stack' = [stack EXCEPT ![Depth] = f] BY <1>1, Facts
  <1>3. /\ f \in Frame /\ f.kind = top.kind /\ f.event = top.event /\ f.held = top.held
        /\ f.saved_loc = top.saved_loc /\ f.saved_event = top.saved_event
        /\ f.place = top.place /\ f.fire = Collection /\ f.queue = top.queue
    <2>1. Collection \in Seq(Events) BY DEF Collection, Events
    <2> QED BY <2>1, Facts DEF Frame
  <1> HIDE DEF f
  <1>4. /\ Stacked' /\ Depth' = Depth /\ top' = f
        /\ \A i \in 1..(Depth - 1) : stack'[i] = stack[i]
        /\ stack'[Depth] = f
    BY <1>2, <1>3, Facts, Touch
  <1>5. Restored' BY <1>1, <1>3, <1>4 DEF IInv, Restored, indicators
  <1>6. TypeOK' /\ Saved'
    BY <1>1, <1>4, <1>5, StillTyped DEF IInv, TypeOK, indicators, gcc, history
  <1>7. Lists' /\ QuietAbove' /\ Finishing' /\ FinalizedLast' /\ FinishersCalled'
    <2>1. Quiet(f)
      <3>1. top.queue = <<>> BY <1>1 DEF PythonRuns, GccRuns, Idle
      <3>2. \A k \in 1..Len(Collection) : Collection[k] # "FINISH" BY DEF Collection
      <3> QED BY <1>3, <3>1, <3>2 DEF Quiet, Clean
    <2>2. Depth > 1 \/ phase = "running" BY <1>1 DEF PythonRuns, GccRuns
    <2>3. \A i \in 1..Depth' :
             \/ i <= Depth /\ stack'[i].fire = stack[i].fire /\ stack'[i].queue = stack[i].queue
             \/ (i > 1 \/ phase = "running") /\ Quiet(stack'[i])
      BY <1>4, <2>1, <2>2, Facts
    <2> QED BY <1>1, <1>4, <2>2, <2>3, Others, Facts
        DEF PythonRuns, GccRuns, history, tables
  <1> QED BY <1>5, <1>6, <1>7 DEF IInv

LEMMA GccMovesKeeps ==
    ASSUME IInv, NEW loc \in Locs, NEW fun \in BOOLEAN, GccMoves(loc, fun) PROVE IInv'
  <1> DEFINE f == [top EXCEPT !.place = loc]
  <1>1. /\ GccRuns /\ Depth = 1 /\ input_location' = loc /\ cfun' = fun
        /\ stack' = [stack EXCEPT ![1].place = loc]
        /\ UNCHANGED <<current_event, gil, pending, gated, tables, phase, history>>
    BY DEF GccMoves, GccRuns
  <1>2. stack' = [stack EXCEPT ![Depth] = f] BY <1>1, Facts
  <1>3. /\ f \in Frame /\ f.kind = top.kind /\ f.event = top.event /\ f.held = top.held
        /\ f.saved_loc = top.saved_loc /\ f.saved_event = top.saved_event
        /\ f.place = loc /\ f.fire = top.fire /\ f.queue = top.queue
    BY Facts DEF Frame
  <1> HIDE DEF f
  <1>4. /\ Stacked' /\ Depth' = Depth /\ top' = f /\ stack'[Depth] = f
    BY <1>2, <1>3, Facts, Touch
  <1>5. Restored' BY <1>1, <1>3, <1>4 DEF IInv, Restored
  <1>6. TypeOK' /\ Saved'
    BY <1>1, <1>4, <1>5, StillTyped DEF IInv, TypeOK, gcc, history
  <1>7. Lists' /\ QuietAbove' /\ Finishing' /\ FinalizedLast' /\ FinishersCalled'
    <2>1. \A i \in 1..Depth' :
             i <= Depth /\ stack'[i].fire = stack[i].fire /\ stack'[i].queue = stack[i].queue
      BY <1>1, <1>3, <1>4, Facts
    <2> QED BY <1>1, <1>4, <2>1, Others, Facts DEF GccRuns, history, tables
  <1> QED BY <1>5, <1>6, <1>7 DEF IInv

LEMMA SignalKeeps ==
    ASSUME IInv, NEW e \in Signals, Signal(e) PROVE IInv'
  <1> DEFINE f == [top EXCEPT !.fire = <<e>>]
  <1>1. /\ GccRuns /\ Depth = 1
        /\ stack' = [stack EXCEPT ![1].fire = <<e>>]
        /\ UNCHANGED <<indicators, pending, gcc, tables, phase, history>>
    BY DEF Signal, GccRuns
  <1>2. stack' = [stack EXCEPT ![Depth] = f] BY <1>1, Facts
  <1>3. /\ f \in Frame /\ f.kind = top.kind /\ f.event = top.event /\ f.held = top.held
        /\ f.saved_loc = top.saved_loc /\ f.saved_event = top.saved_event
        /\ f.place = top.place /\ f.fire = <<e>> /\ f.queue = top.queue
    <2>1. <<e>> \in Seq(Events) BY DEF Signals, Events
    <2> QED BY <2>1, Facts DEF Frame
  <1> HIDE DEF f
  <1>4. /\ Stacked' /\ Depth' = Depth /\ top' = f /\ stack'[Depth] = f
    BY <1>2, <1>3, Facts, Touch
  <1>5. Restored' BY <1>1, <1>3, <1>4 DEF IInv, Restored, indicators
  <1>6. TypeOK' /\ Saved'
    BY <1>1, <1>4, <1>5, StillTyped DEF IInv, TypeOK, indicators, gcc, history
  <1>7. Lists' /\ QuietAbove' /\ Finishing' /\ FinalizedLast' /\ FinishersCalled'
    <2>1. Quiet(f)
      <3>1. top.queue = <<>> /\ e # "FINISH"
        BY <1>1 DEF GccRuns, Idle, Signals, Wrapping
      <3> QED BY <1>3, <3>1 DEF Quiet, Clean
    <2>2. \A i \in 1..Depth' : (i > 1 \/ phase = "running") /\ Quiet(stack'[i])
      BY <1>1, <1>4, <2>1 DEF GccRuns
    <2> QED BY <1>1, <1>4, <2>2, Others, Facts DEF GccRuns, history, tables
  <1> QED BY <1>5, <1>6, <1>7 DEF IInv

LEMMA FinishKeeps ==
    ASSUME IInv, Finish PROVE IInv'
  <1> DEFINE f == [top EXCEPT !.fire = <<"FINISH">>]
  <1>1. /\ GccRuns /\ Depth = 1 /\ top.queue = <<>> /\ phase' = "finishing"
        /\ stack' = [stack EXCEPT ![1].fire = <<"FINISH">>]
        /\ due' = ToSet(callbacks["FINISH"]) \cap Closures
        /\ UNCHANGED <<indicators, pending, gcc, tables, called>>
    BY DEF Finish, GccRuns, Idle
  <1>2. stack' = [stack EXCEPT ![Depth] = f] BY <1>1, Facts
  <1>3. /\ f \in Frame /\ f.kind = top.kind /\ f.event = top.event /\ f.held = top.held
        /\ f.saved_loc = top.saved_loc /\ f.saved_event = top.saved_event
        /\ f.place = top.place /\ f.fire = <<"FINISH">> /\ f.queue = top.queue
    <2>1. <<"FINISH">> \in Seq(Events) BY DEF Events
    <2> QED BY <2>1, Facts DEF Frame
  <1> HIDE DEF f
  <1>4. /\ Stacked' /\ Depth' = Depth /\ top' = f /\ stack'[1] = f
    BY <1>1, <1>2, <1>3, Facts, Touch
  <1>5. Restored' BY <1>1, <1>3, <1>4 DEF IInv, Restored, indicators
  <1>6. TypeOK' /\ Saved'
    BY <1>1, <1>4, <1>5, StillTyped DEF IInv, TypeOK, indicators, gcc
  <1>7. Lists' BY <1>1 DEF IInv, Lists, tables
  <1>8. QuietAbove' BY <1>1, <1>4 DEF QuietAbove
  <1>9. Finishing'
    <2>1. \A c \in due' : Holds(callbacks["FINISH"], c)
      <3>1. callbacks["FINISH"] \in Seq(Items) BY DEF IInv, TypeOK, Items, Events
      <3> QED BY <1>1, <3>1 DEF ToSet, Holds
    <2> QED BY <1>1, <1>3, <1>4, <2>1 DEF Finishing, Announced, tables
  <1>10. FinalizedLast' /\ FinishersCalled'
    BY <1>1 DEF FinalizedLast, FinishersCalled
  <1> QED BY <1>5, <1>6, <1>7, <1>8, <1>9, <1>10 DEF IInv

LEMMA FireKeeps ==
    ASSUME IInv, Fire PROVE IInv'
  <1> DEFINE e == Head(top.fire)
             f == [top EXCEPT !.queue = callbacks[e], !.fire = Tail(top.fire)]
  <1>1. /\ phase # "exited" /\ top.queue = <<>> /\ top.fire # <<>>
        /\ stack' = [stack EXCEPT ![Depth].queue = callbacks[Head(top.fire)],
                                  ![Depth].fire = Tail(@)]
        /\ UNCHANGED <<indicators, pending, gcc, tables, phase, history>>
    BY DEF Fire
  <1>2. stack' = [stack EXCEPT ![Depth] = f] BY <1>1, Facts DEF Frame
  <1>3. /\ e \in Events /\ Tail(top.fire) \in Seq(Events) /\ callbacks[e] \in Seq(Items)
        /\ top.fire \in Seq(Events)
    <2>1. top.fire \in Seq(Events) BY Facts DEF Frame
    <2> QED BY <1>1, <2>1 DEF IInv, TypeOK, Items
  <1>4. /\ f \in Frame /\ f.kind = top.kind /\ f.event = top.event /\ f.held = top.held
        /\ f.saved_loc = top.saved_loc /\ f.saved_event = top.saved_event
        /\ f.place = top.place /\ f.fire = Tail(top.fire) /\ f.queue = callbacks[e]
    BY <1>3, Facts DEF Frame, Items
  <1> HIDE DEF f
  <1>5. /\ Stacked' /\ Depth' = Depth /\ top' = f /\ stack'[Depth] = f
        /\ \A i \in 1..(Depth - 1) : stack'[i] = stack[i]
    BY <1>2, <1>4, Facts, Touch
  <1>6. Restored' BY <1>1, <1>4, <1>5 DEF IInv, Restored, indicators
  <1>7. TypeOK' /\ Saved'
    BY <1>1, <1>5, <1>6, StillTyped DEF IInv, TypeOK, indicators, gcc, history
  <1>8. phase \in {"running", "finishing"}
    BY <1>1 DEF IInv, TypeOK, FinalizedLast, Idle
  <1>9. CASE Depth > 1 \/ phase = "running"
    <2>1. Quiet(top) BY <1>9, Facts DEF IInv, QuietAbove
    <2>2. e # "FINISH"
      BY <1>1, <1>3, <2>1 DEF Quiet
    <2>3. Clean(callbacks[e]) BY <1>3, <2>2 DEF IInv, Lists
    <2>4. Quiet(f)
      <3>1. \A k \in 1..Len(Tail(top.fire)) : Tail(top.fire)[k] # "FINISH"
        BY <1>1, <1>3, <2>1 DEF Quiet
      <3> QED BY <1>4, <2>3, <3>1 DEF Quiet
    <2>5. \A i \in 1..Depth' :
             \/ i <= Depth /\ stack'[i].fire = stack[i].fire /\ stack'[i].queue = stack[i].queue
             \/ (i > 1 \/ phase = "running") /\ Quiet(stack'[i])
      BY <1>5, <1>9, <2>4, Facts
    <2>6. Lists' /\ QuietAbove' /\ Finishing' /\ FinalizedLast' /\ FinishersCalled'
      BY <1>1, <1>5, <1>8, <1>9, <2>5, Others, Facts DEF history, tables
    <2> QED BY <1>6, <1>7, <2>6 DEF IInv
  <1>10. CASE Depth = 1 /\ phase = "finishing"
    <2>1. Announced BY <1>1, <1>10, Facts DEF IInv, Finishing, UnderWay
    <2>2. e = "FINISH" /\ Tail(top.fire) = <<>>
      <3>1. top.fire = <<"FINISH">> BY <1>10, <2>1, Facts DEF Announced
      <3>2. Head(<<"FINISH">>) = "FINISH" /\ Tail(<<"FINISH">>) = <<>> OBVIOUS
      <3> QED BY <3>1, <3>2
    <2>3. stack'[1].fire = <<>> /\ stack'[1].queue = callbacks["FINISH"]
      BY <1>4, <1>5, <1>10, <2>2
    <2>4. Lists' BY <1>1 DEF IInv, Lists, tables
    <2>5. QuietAbove' BY <1>1, <1>5, <1>10 DEF QuietAbove
    <2>6. UnderWay(stack[1].queue)'
      <3> DEFINE q == callbacks["FINISH"]
      <3>1. "FINISH" \in Events BY DEF Events
      <3>2. /\ EndsIn(q)
            /\ \A k \in 1..Len(q) : q[k] \in Closures => closure_event[q[k]] = "FINISH"
        BY <3>1 DEF IInv, Lists
      <3>3. \A c \in due : Holds(q, c) BY <2>1 DEF Announced
      <3> HIDE DEF q
      <3>4. closure_event' = closure_event /\ due' = due /\ called' = called
        BY <1>1 DEF tables, history
      <3>5. stack'[1].fire = <<>> /\ stack'[1].queue = q BY <2>3 DEF q
      <3> QED BY <3>2, <3>3, <3>4, <3>5 DEF UnderWay
    <2>7. Finishing' /\ FinalizedLast' /\ FinishersCalled'
      BY <1>1, <1>10, <2>6 DEF Finishing, FinalizedLast, FinishersCalled
    <2> QED BY <1>6, <1>7, <2>4, <2>5, <2>7 DEF IInv
  <1> QED BY <1>8, <1>9, <1>10, Facts

\* What the three steps that take a callback from the list have in common.
LEMMA Dequeuing ==
    ASSUME IInv, NEW c, NextCallback(c)
    PROVE  LET f == [top EXCEPT !.queue = Tail(top.queue)]
           IN  /\ Dequeued = [stack EXCEPT ![Depth] = f] /\ f \in Frame
               /\ f.kind = top.kind /\ f.event = top.event /\ f.held = top.held
               /\ f.saved_loc = top.saved_loc /\ f.saved_event = top.saved_event
               /\ f.place = top.place /\ f.fire = top.fire /\ f.queue = Tail(top.queue)
               /\ top.queue \in Seq(Items) /\ top.queue # <<>> /\ c = Head(top.queue)
               /\ Clean(top.queue) => Clean(Tail(top.queue)) /\ c # OnFinish
               /\ phase \in {"running", "finishing"}
               /\ Depth > 1 \/ phase = "running" => Quiet(top) /\ Quiet(f)
               /\ Depth = 1 /\ phase = "finishing" => UnderWay(top.queue)
  <1> DEFINE q == top.queue
             f == [top EXCEPT !.queue = Tail(q)]
  <1>1. phase # "exited" /\ q # <<>> /\ Head(q) = c BY DEF NextCallback
  <1>2. q \in Seq(Items) BY Facts DEF Frame, Items
  <1>3. Tail(q) \in Seq(Items) /\ (Clean(q) => Clean(Tail(q)) /\ c # OnFinish)
    BY <1>1, <1>2, Dequeue
  <1>4. Dequeued = [stack EXCEPT ![Depth] = f] BY Facts DEF Dequeued
  <1>5. /\ f \in Frame /\ f.kind = top.kind /\ f.event = top.event /\ f.held = top.held
        /\ f.saved_loc = top.saved_loc /\ f.saved_event = top.saved_event
        /\ f.place = top.place /\ f.fire = top.fire /\ f.queue = Tail(q)
    BY <1>3, Facts DEF Frame, Items
  <1> HIDE DEF f
  <1>6. phase \in {"running", "finishing"}
    BY <1>1 DEF IInv, TypeOK, FinalizedLast, Idle
  <1>7. ASSUME Depth > 1 \/ phase = "running" PROVE Quiet(top) /\ Quiet(f)
    <2>1. Quiet(top) BY <1>7, Facts DEF IInv, QuietAbove
    <2> QED BY <2>1, <1>3, <1>5 DEF Quiet
  <1>8. ASSUME Depth = 1, phase = "finishing" PROVE UnderWay(q)
    BY <1>1, <1>8, Facts DEF IInv, Finishing, Announced
  <1> QED BY <1>1, <1>2, <1>3, <1>4, <1>5, <1>6, <1>7, <1>8 DEF f

LEMMA OnPluginFinishKeeps ==
    ASSUME IInv, OnPluginFinish PROVE IInv'
  <1> DEFINE q == top.queue
             f == [top EXCEPT !.queue = Tail(q)]
  <1>1. /\ NextCallback(OnFinish) /\ phase' = "finalized" /\ stack' = Dequeued
        /\ UNCHANGED <<indicators, pending, gcc, tables, history>>
    BY DEF OnPluginFinish
  <1>2. /\ Dequeued = [stack EXCEPT ![Depth] = f] /\ f \in Frame
        /\ f.kind = top.kind /\ f.event = top.event /\ f.held = top.held
        /\ f.saved_loc = top.saved_loc /\ f.saved_event = top.saved_event
        /\ f.place = top.place /\ f.fire = top.fire /\ f.queue = Tail(q)
        /\ q \in Seq(Items) /\ q # <<>> /\ Head(q) = OnFinish
        /\ Clean(q) => FALSE
        /\ phase \in {"running", "finishing"}
        /\ Depth > 1 \/ phase = "running" => Quiet(top)
        /\ Depth = 1 /\ phase = "finishing" => UnderWay(q)
    BY <1>1, Dequeuing
  <1> HIDE DEF f
  <1>3. /\ Stacked' /\ Depth' = Depth /\ top' = f /\ stack'[Depth] = f
    BY <1>1, <1>2, Facts, Touch
  <1>4. Restored' BY <1>1, <1>2, <1>3 DEF IInv, Restored, indicators
  <1>5. TypeOK' /\ Saved'
    BY <1>1, <1>3, <1>4, StillTyped DEF IInv, TypeOK, indicators, gcc, history
  <1>6. Depth = 1 /\ phase = "finishing" BY <1>2, Facts DEF Quiet
  <1>7. UnderWay(q) BY <1>2, <1>6
  <1>8. Tail(q) = <<>> /\ \A c \in Closures : ~Holds(q, c)
    BY <1>2, <1>7, Dequeue DEF UnderWay
  <1>9. Lists' BY <1>1 DEF IInv, Lists, tables
  <1>10. QuietAbove' BY <1>1, <1>3, <1>6 DEF QuietAbove
  <1>11. Finishing' BY <1>1 DEF Finishing
  <1>12. FinalizedLast'
    <2>1. top.fire = <<>> BY <1>6, <1>7, Facts DEF UnderWay
    <2>2. Idle' BY <1>2, <1>3, <1>8, <2>1 DEF Idle
    <2> QED BY <1>3, <1>6, <2>2 DEF FinalizedLast
  <1>13. FinishersCalled'
    BY <1>1, <1>7, <1>8 DEF FinishersCalled, UnderWay, IInv, TypeOK, history
  <1> QED BY <1>4, <1>5, <1>9, <1>10, <1>11, <1>12, <1>13 DEF IInv

LEMMA InvokeFailsKeeps ==
    ASSUME IInv, NEW c \in Closures, InvokeFails(c) PROVE IInv'
  <1> DEFINE q == top.queue
             f == [top EXCEPT !.queue = Tail(q)]
  <1>1. /\ NextCallback(c) /\ closure_event[c] \in Wrapping
        /\ pending' = TRUE /\ stack' = Dequeued
        /\ UNCHANGED <<indicators, gcc, tables, phase, history>>
    BY DEF InvokeFails
  <1>2. /\ Dequeued = [stack EXCEPT ![Depth] = f] /\ f \in Frame
        /\ f.kind = top.kind /\ f.event = top.event /\ f.held = top.held
        /\ f.saved_loc = top.saved_loc /\ f.saved_event = top.saved_event
        /\ f.place = top.place /\ f.fire = top.fire /\ f.queue = Tail(q)
        /\ q \in Seq(Items) /\ q # <<>> /\ c = Head(q)
        /\ phase \in {"running", "finishing"}
        /\ Depth > 1 \/ phase = "running" => Quiet(f)
        /\ Depth = 1 /\ phase = "finishing" => UnderWay(q)
    BY <1>1, Dequeuing
  <1> HIDE DEF f
  <1>3. /\ Stacked' /\ Depth' = Depth /\ top' = f /\ stack'[Depth] = f
        /\ \A i \in 1..(Depth - 1) : stack'[i] = stack[i]
    BY <1>1, <1>2, Facts, Touch
  <1>4. Restored' BY <1>1, <1>2, <1>3 DEF IInv, Restored, indicators
  <1>5. TypeOK' /\ Saved'
    BY <1>1, <1>3, <1>4, StillTyped DEF IInv, TypeOK, indicators, gcc, history
  <1>6. Depth > 1 \/ phase = "running"
    <2> SUFFICES ASSUME Depth = 1, phase = "finishing" PROVE FALSE
      BY <1>2, Facts
    <2>1. q[1] = c /\ 1 \in 1..Len(q) BY <1>2
    <2>2. closure_event[c] = "FINISH" BY <1>2, <2>1 DEF UnderWay
    <2> QED BY <1>1, <2>2 DEF Wrapping
  <1>7. \A i \in 1..Depth' :
           \/ i <= Depth /\ stack'[i].fire = stack[i].fire /\ stack'[i].queue = stack[i].queue
           \/ (i > 1 \/ phase = "running") /\ Quiet(stack'[i])
    BY <1>2, <1>3, <1>6, Facts
  <1>8. Lists' /\ QuietAbove' /\ Finishing' /\ FinalizedLast' /\ FinishersCalled'
    BY <1>1, <1>2, <1>3, <1>6, <1>7, Others, Facts DEF history, tables
  <1> QED BY <1>4, <1>5, <1>8 DEF IInv

LEMMA InvokeKeeps ==
    ASSUME IInv, NEW c \in Closures, Invoke(c) PROVE IInv'
  <1> DEFINE q == top.queue
             g == [top EXCEPT !.queue = Tail(q)]
             f == Entry("callback", Override, closure_event[c], gil + 1)
  <1>1. /\ NextCallback(c)
        /\ input_location' = Override /\ current_event' = closure_event[c] /\ gil' = gil + 1
        /\ stack' = Append(Dequeued, f)
        /\ called' = IF closure_event[c] = "FINISH" THEN called \cup {c} ELSE called
        /\ UNCHANGED <<pending, gcc, tables, phase, due>>
    BY DEF Invoke
  <1>2. /\ Dequeued = [stack EXCEPT ![Depth] = g] /\ g \in Frame
        /\ g.kind = top.kind /\ g.event = top.event /\ g.held = top.held
        /\ g.saved_loc = top.saved_loc /\ g.saved_event = top.saved_event
        /\ g.place = top.place /\ g.fire = top.fire /\ g.queue = Tail(q)
        /\ q \in Seq(Items) /\ q # <<>> /\ c = Head(q)
        /\ phase \in {"running", "finishing"}
        /\ Depth > 1 \/ phase = "running" => Quiet(g)
        /\ Depth = 1 /\ phase = "finishing" => UnderWay(q)
    BY <1>1, Dequeuing
  <1>3. /\ f \in Frame /\ f.kind = "callback" /\ f.place = Override
        /\ f.event = closure_event[c] /\ f.held = gil + 1
        /\ f.saved_loc = input_location /\ f.saved_event = current_event
        /\ f.fire = <<>> /\ f.queue = <<>>
    <2>1. Override \in Locs BY EntriesAssumption DEF Override, IInv, TypeOK
    <2>2. /\ input_location \in Locs /\ current_event \in Events \cup {BAD_EVENT}
          /\ closure_event[c] \in Events \cup {BAD_EVENT} /\ gil + 1 \in Nat \ {0}
      BY DEF IInv, TypeOK
    <2> QED BY <2>1, <2>2 DEF Entry, Frame, Kinds
  <1> HIDE DEF f, g
  <1>4. /\ Dequeued \in Seq(Frame) /\ Len(Dequeued) = Depth
        /\ \A i \in 1..(Depth - 1) : Dequeued[i] = stack[i]
        /\ Dequeued[Depth] = g
    BY <1>2, Facts, Changed DEF Stacked, Depth
  <1>5. /\ stack' \in Seq(Frame) /\ Depth' = Depth + 1 /\ stack' # <<>>
        /\ \A i \in 1..Depth : stack'[i] = Dequeued[i]
        /\ stack'[Depth + 1] = f
    <2>1. /\ stack' \in Seq(Frame) /\ Len(stack') = Len(Dequeued) + 1 /\ stack' # <<>>
          /\ \A i \in 1..Len(Dequeued) : stack'[i] = Dequeued[i]
          /\ stack'[Len(Dequeued) + 1] = f
      BY <1>1, <1>3, <1>4, Pushed
    <2> QED BY <2>1, <1>4 DEF Depth
  <1>6. stack'[Depth] = g /\ \A i \in 1..(Depth - 1) : stack'[i] = stack[i]
    BY <1>4, <1>5, Facts
  <1>7. SavedBelow(f, g)
    BY <1>2, <1>3 DEF SavedBelow, IInv, Restored, Restoring, Ensuring
  <1>8. Stacked' /\ top' = f
    BY <1>2, <1>3, <1>5, <1>6, <1>7, PushKeeps, Facts
  <1>9. Restored' BY <1>1, <1>3, <1>8 DEF Restored
  <1>10. TypeOK' /\ Saved'
    <2>1. called' \subseteq Closures BY <1>1 DEF IInv, TypeOK
    <2>2. gil' # 0 BY <1>1 DEF IInv, TypeOK
    <2> QED BY <1>1, <1>8, <1>9, <2>1, <2>2, StillTyped DEF IInv, TypeOK, gcc
  <1>11. Quiet(f) BY <1>3 DEF Quiet, Clean
  <1>12. CASE Depth > 1 \/ phase = "running"
    <2>1. \A i \in 1..Depth' :
             \/ i <= Depth /\ stack'[i].fire = stack[i].fire /\ stack'[i].queue = stack[i].queue
             \/ (i > 1 \/ phase = "running") /\ Quiet(stack'[i])
      <3> TAKE i \in 1..Depth'
      <3>1. CASE i < Depth BY <3>1, <1>5, <1>6, Facts
      <3>2. CASE i = Depth BY <3>2, <1>2, <1>6, <1>12, Facts
      <3>3. CASE i = Depth + 1 BY <3>3, <1>5, <1>11, Facts
      <3> QED BY <3>1, <3>2, <3>3, <1>5, Facts
    <2>2. Depth' \in Nat /\ Depth' >= 1 BY <1>5, Facts
    <2>3. Lists' /\ QuietAbove' /\ Finishing' /\ FinalizedLast' /\ FinishersCalled'
      BY <1>1, <1>2, <1>12, <2>1, <2>2, Others DEF tables
    <2> QED BY <1>9, <1>10, <2>3 DEF IInv
  <1>13. CASE Depth = 1 /\ phase = "finishing"
    <2>1. UnderWay(q) BY <1>2, <1>13
    <2>2. stack'[1] = g /\ stack'[2] = f /\ Depth' = 2 BY <1>5, <1>6, <1>13
    <2>3. Lists' BY <1>1 DEF IInv, Lists, tables
    <2>4. QuietAbove'
      <3> SUFFICES ASSUME NEW i \in 1..2, i > 1 \/ phase' = "running" PROVE Quiet(stack'[i])
        BY <2>2 DEF QuietAbove
      <3>1. i = 2 BY <1>1, <1>13
      <3> QED BY <3>1, <2>2, <1>11
    <2>5. UnderWay(stack[1].queue)'
      <3>1. q[1] = c /\ 1 \in 1..Len(q) BY <1>2
      <3>2. closure_event[c] = "FINISH" /\ c # OnFinish
        BY <2>1, <3>1, EntriesAssumption DEF UnderWay
      <3>3. EndsIn(Tail(q)) BY <1>2, <2>1, <3>2, Dequeue DEF UnderWay
      <3>4. \A k \in 1..Len(Tail(q)) : Tail(q)[k] \in Closures =>
               closure_event[Tail(q)[k]] = "FINISH"
        <4>1. /\ Len(q) \in Nat /\ Len(Tail(q)) = Len(q) - 1
              /\ \A k \in 1..Len(Tail(q)) : Tail(q)[k] = q[k + 1]
          BY <1>2
        <4> QED BY <2>1, <4>1 DEF UnderWay
      <3>5. \A d \in due : d \in called' \/ Holds(Tail(q), d)
        BY <1>1, <1>2, <2>1, <3>2, Dequeue DEF UnderWay
      <3>6. top.fire = <<>> BY <1>13, <2>1, Facts DEF UnderWay
      <3>7. stack'[1].fire = <<>> /\ stack'[1].queue = Tail(q) BY <1>2, <2>2, <3>6
      <3>8. due' = due /\ closure_event' = closure_event BY <1>1 DEF tables
      <3> HIDE DEF q
      <3> QED BY <3>3, <3>4, <3>5, <3>7, <3>8 DEF UnderWay
    <2>6. Finishing' /\ FinalizedLast' /\ FinishersCalled'
      BY <1>1, <1>13, <2>5 DEF Finishing, FinalizedLast, FinishersCalled
    <2> QED BY <1>9, <1>10, <2>3, <2>4, <2>6 DEF IInv
  <1> QED BY <1>2, <1>12, <1>13, Facts

-----------------------------------------------------------------------------
(* Passes and attributes.                                                  *)

\* The two ways in which GCC itself comes into Python code.
LEMMA EntryKeeps ==
    ASSUME IInv, GccRuns, NEW kind \in {"gate", "execute", "attribute"},
           NEW held \in Nat \ {0}, held = gil + (IF kind = "attribute" THEN 1 ELSE 0),
           NEW place \in Locs, Begins(Entry(kind, place, current_event, held)),
           input_location' = place, kind = "attribute" => place = input_location,
           gil' = held, gated' \in BOOLEAN,
           UNCHANGED <<current_event, pending, cfun, tables, phase, history>>
    PROVE  IInv'
  <1> DEFINE f == Entry(kind, place, current_event, held)
  <1>1. /\ f \in Frame /\ f.kind = kind /\ f.place = place /\ f.event = current_event
        /\ f.held = held /\ f.saved_loc = input_location /\ f.saved_event = current_event
        /\ f.fire = <<>> /\ f.queue = <<>>
    BY DEF Entry, Frame, Kinds, IInv, TypeOK
  <1> HIDE DEF f
  <1>2. SavedBelow(f, top)
    BY <1>1 DEF SavedBelow, IInv, Restored, Restoring, Ensuring
  <1>3. /\ Stacked' /\ Depth' = Depth + 1 /\ top' = f
        /\ \A i \in 1..Depth : stack'[i] = stack[i]
        /\ stack'[Depth + 1] = f
    BY <1>1, <1>2, Push, Facts DEF f
  <1>4. Restored' BY <1>1, <1>3 DEF Restored
  <1>5. TypeOK' /\ Saved'
    <2>1. gil' # 0 BY DEF IInv, TypeOK
    <2> QED BY <1>3, <1>4, <2>1, StillTyped DEF IInv, TypeOK, history
  <1>6. Lists' /\ QuietAbove' /\ Finishing' /\ FinalizedLast' /\ FinishersCalled'
    <2>1. Quiet(f) BY <1>1 DEF Quiet, Clean
    <2>2. \A i \in 1..Depth' :
             \/ i <= Depth /\ stack'[i].fire = stack[i].fire /\ stack'[i].queue = stack[i].queue
             \/ (i > 1 \/ phase = "running") /\ Quiet(stack'[i])
      BY <1>3, <2>1, Facts DEF GccRuns
    <2>3. phase = "running" /\ Depth' \in Nat /\ Depth' >= 1 BY <1>3, Facts DEF GccRuns
    <2> QED BY <2>2, <2>3, Others DEF history, tables
  <1> QED BY <1>4, <1>5, <1>6 DEF IInv

\* GCC's own steps that leave the stack alone.
LEMMA IdleKeeps ==
    ASSUME IInv, GccRuns, pending' \in BOOLEAN, gated' \in BOOLEAN,
           UNCHANGED <<indicators, cfun, tables, stack, phase, history>>
    PROVE  IInv'
  <1>1. Depth' = Depth /\ top' = top BY DEF Depth, top
  <1>2. TypeOK' BY <1>1 DEF IInv, TypeOK, indicators, tables, history
  <1>3. Restored' /\ Saved' BY <1>1 DEF IInv, Restored, Saved, indicators
  <1>4. Lists' /\ QuietAbove' /\ Finishing' /\ FinalizedLast' /\ FinishersCalled'
    BY <1>1, Others, Facts DEF GccRuns, history, tables
  <1> QED BY <1>2, <1>3, <1>4 DEF IInv

LEMMA PassKeeps ==
    ASSUME IInv, Gate \/ Ungated \/ Execute PROVE IInv'
  <1>1. GccRuns /\ UNCHANGED <<cfun, tables, phase, history>> /\ gated' \in BOOLEAN
    BY DEF Gate, Ungated, Execute
  <1>2. CASE \E kind \in {"gate", "execute"} : CallMethod(kind)
    <2>1. PICK kind \in {"gate", "execute"} : CallMethod(kind) BY <1>2
    <2>2. Override \in Locs BY EntriesAssumption DEF Override, IInv, TypeOK
    <2>3. gil \in Nat \ {0} BY DEF IInv, TypeOK
    <2>4. /\ input_location' = Override
          /\ stack' = Append(stack, Entry(kind, Override, current_event, gil))
          /\ UNCHANGED <<current_event, gil, pending>>
      BY <2>1 DEF CallMethod
    <2> QED BY <1>1, <2>2, <2>3, <2>4, EntryKeeps DEF Begins
  <1>3. CASE NoFunction \/ Ungated
    BY <1>1, <1>3, IdleKeeps DEF NoFunction, Ungated, IInv, TypeOK
  <1> QED BY <1>2, <1>3 DEF Gate, Execute

LEMMA HandleAttributeKeeps ==
    ASSUME IInv, HandleAttribute PROVE IInv'
  <1>1. /\ GccRuns
        /\ UNCHANGED <<input_location, current_event, gcc, tables, phase, history>>
    BY DEF HandleAttribute
  <1>2. CASE /\ stack' = Append(stack, Entry("attribute", input_location, current_event, gil + 1))
             /\ gil' = gil + 1 /\ UNCHANGED pending
    <2>1. gil + 1 \in Nat \ {0} /\ input_location \in Locs /\ gated \in BOOLEAN BY DEF IInv, TypeOK
    <2> QED BY <1>1, <1>2, <2>1, EntryKeeps DEF gcc, Begins
  <1>3. CASE pending' = TRUE /\ UNCHANGED <<stack, gil>>
    BY <1>1, <1>3, IdleKeeps DEF gcc, indicators, IInv, TypeOK
  <1> QED BY <1>2, <1>3 DEF HandleAttribute

-----------------------------------------------------------------------------
(* Python code returns.                                                    *)

LEMMA LeaveKeeps ==
    ASSUME IInv, PythonRuns, Leave, pending' \in BOOLEAN, gated' \in BOOLEAN,
           UNCHANGED <<cfun, tables, phase, history>>
    PROVE  IInv'
  <1> DEFINE g == stack[Depth - 1]
             loc == IF top.kind \in Restoring THEN top.saved_loc ELSE input_location
  <1>1. /\ Depth > 1 /\ phase \in {"running", "finishing"}
        /\ Depth \in Nat /\ Depth - 1 \in 1..Depth /\ g \in Frame /\ top \in Frame
    BY Facts DEF PythonRuns
  <1>2. /\ input_location' = loc
        /\ current_event' = IF top.kind = "callback" THEN top.saved_event ELSE current_event
        /\ gil' = IF top.kind \in Ensuring THEN gil - 1 ELSE gil
        /\ stack' = IF top.kind \in Restoring THEN Front(stack)
                    ELSE [Front(stack) EXCEPT ![Depth - 1].place = loc]
    BY DEF Leave
  <1>3. SavedBelow(top, g) BY <1>1, Facts DEF Stacked, Saved
  <1>4. loc \in Locs BY <1>1 DEF Frame, IInv, TypeOK
  <1>5. top.kind \in Restoring => loc = g.place BY <1>3 DEF SavedBelow
  <1>6. \/ stack' = Front(stack) /\ loc = g.place
        \/ stack' = [Front(stack) EXCEPT ![Depth - 1].place = loc]
    BY <1>2, <1>5
  <1> HIDE DEF loc
  <1>7. /\ Stacked' /\ Depth' = Depth - 1
        /\ top' = [g EXCEPT !.place = loc]
        /\ \A i \in 1..(Depth - 2) : stack'[i] = stack[i]
        /\ stack'[Depth - 1] = top'
    BY <1>1, <1>4, <1>6, Facts, Pop
  <1>8. /\ top'.place = loc /\ top'.event = g.event /\ top'.held = g.held
        /\ top'.fire = g.fire /\ top'.queue = g.queue
    BY <1>1, <1>7 DEF Frame
  <1>9. gil' = g.held /\ gil' # 0
    <2>1. gil = g.held + (IF top.kind \in Ensuring THEN 1 ELSE 0) /\ g.held \in Nat
      BY <1>1, <1>3 DEF SavedBelow, IInv, Restored, Frame
    <2>2. gil' = g.held BY <1>2, <2>1
    <2>3. g.held # 0 BY <1>1 DEF Frame
    <2> QED BY <2>2, <2>3
  <1>10. current_event' = g.event
    BY <1>2, <1>3 DEF SavedBelow, IInv, Restored
  <1>11. Restored' BY <1>2, <1>7, <1>8, <1>9, <1>10 DEF Restored
  <1>12. TypeOK' /\ Saved'
    BY <1>1, <1>7, <1>9, <1>11, StillTyped DEF IInv, TypeOK, history
  <1>13. Lists' /\ QuietAbove' /\ Finishing' /\ FinalizedLast' /\ FinishersCalled'
    <2>1. ASSUME NEW i \in 1..Depth'
          PROVE  i <= Depth /\ stack'[i].fire = stack[i].fire /\ stack'[i].queue = stack[i].queue
      <3>1. CASE i < Depth - 1 BY <3>1, <1>1, <1>7
      <3>2. CASE i = Depth - 1 BY <3>2, <1>1, <1>7, <1>8
      <3> QED BY <3>1, <3>2, <1>1, <1>7
    <2>2. Depth' \in Nat /\ Depth' >= 1 BY <1>1, <1>7
    <2> QED BY <1>1, <2>1, <2>2, Others DEF history, tables
  <1> QED BY <1>11, <1>12, <1>13 DEF IInv

LEMMA ReturnKeeps ==
    ASSUME IInv, NEW d \in 2..MaxDepth, Return(d) PROVE IInv'
  <1>1. /\ PythonRuns /\ UNCHANGED <<cfun, tables, history>>
        /\ Value \/ Untestable \/ Overflow \/ Raise \/ Exit
    BY DEF Return
  <1>2. pending \in BOOLEAN /\ gated \in BOOLEAN BY DEF IInv, TypeOK
  <1>3. CASE Value
    <2>1. Leave /\ gated' \in BOOLEAN /\ UNCHANGED <<pending, phase>> BY <1>2, <1>3 DEF Value
    <2> QED BY <1>1, <1>2, <2>1, LeaveKeeps
  <1>4. CASE Untestable \/ Overflow \/ Raise
    <2>1. /\ Leave /\ gated' \in BOOLEAN /\ pending' \in BOOLEAN /\ UNCHANGED phase
      BY <1>2, <1>4 DEF Untestable, Overflow, Raise
    <2> QED BY <1>1, <2>1, LeaveKeeps
  <1>5. CASE Exit
    <2>1. phase' = "exited" /\ UNCHANGED <<indicators, pending, gated, stack>> BY <1>5 DEF Exit
    <2>2. Depth' = Depth /\ top' = top BY <2>1 DEF Depth, top
    <2>3. TypeOK' BY <1>1, <2>1, <2>2 DEF IInv, TypeOK, indicators, tables, history
    <2>4. Restored' /\ Saved' /\ Lists'
      BY <1>1, <2>1, <2>2 DEF IInv, Restored, Saved, Lists, indicators, tables
    <2>5. QuietAbove' BY <2>1, <2>2 DEF IInv, QuietAbove
    <2>6. Finishing' /\ FinalizedLast' /\ FinishersCalled'
      BY <2>1 DEF Finishing, FinalizedLast, FinishersCalled
    <2> QED BY <2>3, <2>4, <2>5, <2>6 DEF IInv
  <1> QED BY <1>1, <1>3, <1>4, <1>5

-----------------------------------------------------------------------------

LEMMA StutterKeeps ==
    ASSUME IInv, UNCHANGED vars PROVE IInv'
  <1>1. Depth' = Depth /\ top' = top /\ Idle' = Idle BY DEF Depth, top, Idle, vars
  <1>2. TypeOK' BY <1>1 DEF IInv, TypeOK, vars, indicators, gcc, tables, history
  <1>3. Restored' /\ Saved' /\ Lists' /\ QuietAbove'
    BY <1>1 DEF IInv, Restored, Saved, Lists, QuietAbove, vars, indicators, tables
  <1>4. Finishing'
    BY <1>1 DEF IInv, Finishing, Announced, UnderWay, vars, tables, history
  <1>5. FinalizedLast' /\ FinishersCalled'
    BY <1>1 DEF IInv, FinalizedLast, FinishersCalled, vars, history
  <1> QED BY <1>2, <1>3, <1>4, <1>5 DEF IInv

LEMMA NextKeeps ==
    ASSUME IInv, [Next]_vars PROVE IInv'
  <1>1. CASE \E c \in Closures, e \in Listened : RegisterCallback(c, e)
    BY <1>1, RegisterCallbackKeeps
  <1>2. CASE \E loc \in Locs : SetLocation(loc)
    BY <1>2, SetLocationKeeps
  <1>3. CASE \E loc \in Locs, fun \in BOOLEAN : GccMoves(loc, fun)
    BY <1>3, GccMovesKeeps
  <1>4. CASE \E e \in Signals : Signal(e)
    BY <1>4, SignalKeeps
  <1>5. CASE \E c \in Closures : Invoke(c) \/ InvokeFails(c)
    BY <1>5, InvokeKeeps, InvokeFailsKeeps
  <1>6. CASE \E d \in 2..MaxDepth : Return(d)
    BY <1>6, ReturnKeeps
  <1>7. CASE RegisterPass \/ RegisterAttribute \/ Collect \/ Finish \/ Fire \/ OnPluginFinish
    BY <1>7, RegisterKeeps, CollectKeeps, FinishKeeps, FireKeeps, OnPluginFinishKeeps
  <1>8. CASE Gate \/ Ungated \/ Execute \/ HandleAttribute
    BY <1>8, PassKeeps, HandleAttributeKeeps
  <1>9. CASE Ended \/ UNCHANGED vars
    BY <1>9, StutterKeeps DEF Ended
  <1> QED BY <1>1, <1>2, <1>3, <1>4, <1>5, <1>6, <1>7, <1>8, <1>9 DEF Next

\* Every entry saved what the one below it needs, and GCC's lists are in order.
THEOREM Invariant == Spec => []IInv
  <1>1. Init => IInv BY Initial
  <1>2. IInv /\ [Next]_vars => IInv' BY NextKeeps
  <1> QED BY <1>1, <1>2, PTL DEF Spec

\* Every variable of the entries keeps its type.
THEOREM EntriesTyped == Spec => []TypeOK
  <1>1. IInv => TypeOK BY DEF IInv
  <1> QED BY <1>1, Invariant, PTL

(* Callbacks, gates, executes and attribute handlers put back the location, *)
(* the current event and the GIL, by every way out and however they nest.   *)
THEOREM RestoredAlways == Spec => []Restored
  <1>1. IInv => Restored BY DEF IInv
  <1> QED BY <1>1, Invariant, PTL

\* on_plugin_finish finalizes Python after the last callback there is to invoke.
THEOREM FinalizedIsLast == Spec => []FinalizedLast
  <1>1. IInv => FinalizedLast BY DEF IInv
  <1> QED BY <1>1, Invariant, PTL

\* Python is not finalized before every PLUGIN_FINISH callback of a script has run.
THEOREM FinishersAllCalled == Spec => []FinishersCalled
  <1>1. IInv => FinishersCalled BY DEF IInv
  <1> QED BY <1>1, Invariant, PTL

\* However callbacks nest and fail, Python is finalized after all of those that
\* PLUGIN_FINISH was to invoke, and none is left to invoke afterwards.
THEOREM FinishedInOrder == Spec => []FinishesInOrder
  BY FinalizedIsLast, FinishersAllCalled, PTL DEF FinishesInOrder

=============================================================================
