----------------------------- MODULE TimerQueue -----------------------------
(***************************************************************************)
(* What the timeout table of 2.11BSD promises to the rest of the kernel:   *)
(* an event set for t ticks is called t ticks later, or later still when   *)
(* the processor priority keeps the soft clock away, never early, in the   *)
(* order of the deadlines, once, and is told how late it is; an event that *)
(* is cancelled is not called.  BsdCallout implements it with a list of    *)
(* differences.                                                            *)
(*                                                                         *)
(* An event waits as [fun, left]: left is its deadline minus the present   *)
(* tick, so it is not positive when the event is due.                      *)
(***************************************************************************)
EXTENDS Integers, BagsExt

CONSTANTS
  Funs,   \* the functions that may be scheduled
  MaxT    \* bound on the ticks that are asked for

VARIABLES
  pending,  \* bag of [fun, left]
  called    \* the call that is being made: its function, how late it is

vars == <<pending, called>>

NoCall == [fun |-> "none", late |-> 0]

(* A bag is a function that says how often each of its elements occurs.    *)
NoEvents == [e \in {} |-> 0]
EventsIn(bag) == DOMAIN bag

(* The events of the bag after one more tick. *)
Aged(bag) ==
  LET young(e) == [e EXCEPT !.left = @ + 1]
      old == {[e EXCEPT !.left = @ - 1] : e \in EventsIn(bag)}
  IN  [e \in old |-> bag[young(e)]]

First(events) == {e \in events : \A x \in events : e.left =< x.left}

Init ==
  /\ pending = NoEvents
  /\ called = NoCall

Tick ==
  /\ pending' = Aged(pending)
  /\ UNCHANGED called

Set(f, t) ==
  /\ pending' = BagAdd(pending, [fun |-> f, left |-> t])
  /\ UNCHANGED called

Cancel(f) ==
  /\ \E e \in First({x \in EventsIn(pending) : x.fun = f}) :
       pending' = BagRemove(pending, e)
  /\ UNCHANGED called

Call ==
  \E e \in First(EventsIn(pending)) :
    /\ called = NoCall
    /\ e.left =< 0
    /\ pending' = BagRemove(pending, e)
    /\ called' = [fun |-> e.fun, late |-> -e.left]

Return ==
  /\ called # NoCall
  /\ called' = NoCall
  /\ UNCHANGED pending

Next ==
  \/ Tick
  \/ \E f \in Funs, t \in 1 .. MaxT : Set(f, t)
  \/ \E f \in Funs : Cancel(f)
  \/ Call
  \/ Return

Spec == Init /\ [][Next]_vars
=============================================================================
