----------------------------- MODULE BsdCallout -----------------------------
(***************************************************************************)
(* The timeout table in the clock code of the 2.11BSD kernel: a list whose *)
(* entries hold the difference to the entry before them, shortened by      *)
(* hardclock at every tick and emptied by softclock, which runs at a low   *)
(* priority after a tick that found the processor at base priority.        *)
(* Functions called from softclock set and cancel events while further     *)
(* ticks interrupt them.  Sections at splclock and splhigh are one step.   *)
(***************************************************************************)
EXTENDS Integers, Sequences, SequencesExt

CONSTANTS
  Funs,     \* the functions, with their arguments, that are scheduled
  Cancelled,\* those that untimeout is ever called for
  NCall,    \* entries of the callout table
  MaxT,     \* bound: the ticks asked for are at most this many
  MaxLate   \* bound: ticks in one stretch away from base priority

ASSUME TableAssumption ==
  Cancelled \subseteq Funs /\ NCall \in Nat /\ MaxT \in Nat \ {0}
  /\ MaxLate \in Nat

VARIABLES
  calltodo,  \* the entries in use, first to last: [fun, time]
  soft,      \* where softclock is: "idle", "scan", "call" or "tail"
  ipl,       \* outside softclock: "base" or "raised"
  called,    \* the call softclock is making: [fun, late]
  onBase,    \* the last tick found the processor at base priority
  panicked   \* "timeout table overflow"

vars == <<calltodo, soft, ipl, called, onBase, panicked>>

-----------------------------------------------------------------------------
NoCall == [fun |-> "none", late |-> 0]

Max0(t) == IF t > 0 THEN t ELSE 0

(* What one tick does to the list: it decrements the first entry, and the  *)
(* one after it as long as it has just made an entry negative.             *)
Decremented(q) ==
  [i \in 1 .. Len(q) |->
     IF \A j \in 1 .. i - 1 : q[j].time =< 0
     THEN [q[i] EXCEPT !.time = @ - 1] ELSE q[i]]

Due(q) == q # <<>> /\ q[1].time =< 0

(* Mutant: softclock is wanted only for an event that is late already.     *)
NeedSoftLate(q) == q # <<>> /\ q[1].time =< 0

NeedSoft(q) == q # <<>> /\ q[1].time =< 1

(* What is left of t when the walk of timeout comes to entry i: an entry   *)
(* that is passed takes its time away, unless it is due already.           *)
Rest(q, t) ==
  LET rest[i \in 1 .. Len(q) + 1] ==
        IF i = 1 THEN t ELSE rest[i - 1] - Max0(q[i - 1].time)
  IN  rest

Stops(q, rest, i) == i = Len(q) + 1 \/ q[i].time >= rest[i]

(* Mutant: the new entry is linked in, the rest of the list is not.        *)
InsertedLast(q, p, f, t) ==
  Append(SubSeq(q, 1, p - 1), [fun |-> f, time |-> t])

InsertedAt(q, p, f, t) ==
  [i \in 1 .. Len(q) + 1 |->
     CASE i < p     -> q[i]
       [] i = p     -> [fun |-> f, time |-> t]
       [] i = p + 1 -> [q[p] EXCEPT !.time = @ - t]
       [] OTHER     -> q[i - 1]]

Inserted(q, f, t) ==
  LET rest == Rest(q, t)
      p == CHOOSE i \in 1 .. Len(q) + 1 :
             /\ Stops(q, rest, i)
             /\ \A j \in 1 .. i - 1 : ~Stops(q, rest, j)
  IN  InsertedAt(q, p, f, rest[p])

(* Mutant: the next entry does not get the time of the one taken out.      *)
RemovedEarly(q, k) == SubSeq(q, 1, k - 1) \o SubSeq(q, k + 1, Len(q))

(* Entry k taken out; the time it had yet to wait goes to the next one.    *)
RemovedAt(q, k) ==
  [i \in 1 .. Len(q) - 1 |->
     CASE i < k  -> q[i]
       [] i = k  -> [q[k + 1] EXCEPT !.time = @ + Max0(q[k].time)]
       [] OTHER  -> q[i + 1]]

FirstOf(q, f) == {k \in 1 .. Len(q) :
                    q[k].fun = f /\ \A j \in 1 .. k - 1 : q[j].fun # f}

-----------------------------------------------------------------------------
BasePri == soft = "idle" /\ ipl = "base"

(* The clock interrupt.  profiling: the process that is interrupted asks   *)
(* for a profiling tick, which starts softclock with nothing due.          *)
hardclock ==
  /\ ~panicked
  /\ BasePri \/ \A k \in 1 .. Len(calltodo) : calltodo[k].time > -MaxLate
  /\ calltodo' = Decremented(calltodo)
  /\ onBase' = BasePri
  /\ \E profiling \in BOOLEAN :
       soft' = IF BasePri /\ (NeedSoft(calltodo) \/ profiling)
               THEN "scan" ELSE soft
  /\ UNCHANGED <<ipl, called, panicked>>

(* One turn of the loop of softclock: the first entry, if it is due, goes  *)
(* back to the free list and its function is called with its time.         *)
softclock_call ==
  /\ ~panicked
  /\ soft = "scan"
  /\ Due(calltodo)
  /\ called' = [fun |-> calltodo[1].fun, late |-> -calltodo[1].time]
  /\ calltodo' = Tail(calltodo)
  /\ soft' = "call"
  /\ UNCHANGED <<ipl, onBase, panicked>>

softclock_returned ==
  /\ ~panicked
  /\ soft = "call"
  /\ soft' = "scan"
  /\ called' = NoCall
  /\ UNCHANGED <<calltodo, ipl, onBase, panicked>>

(* Nothing due: the loop ends; the profiling tick and the priority of a    *)
(* process that ran for ten minutes are seen to after it.                  *)
softclock_break ==
  /\ ~panicked
  /\ soft = "scan"
  /\ ~Due(calltodo)
  /\ soft' = "tail"
  /\ UNCHANGED <<calltodo, ipl, called, onBase, panicked>>

softclock_done ==
  /\ ~panicked
  /\ soft = "tail"
  /\ soft' = "idle"
  /\ UNCHANGED <<calltodo, ipl, called, onBase, panicked>>

(* Called by a process, by a driver at raised priority or by a function    *)
(* that softclock called.                                                  *)
MayCall == ~panicked /\ soft \in {"idle", "call"}

timeout(f, t) ==
  /\ MayCall
  /\ Len(calltodo) < NCall
  /\ calltodo' = Inserted(calltodo, f, IF t =< 0 THEN 1 ELSE t)
  /\ UNCHANGED <<soft, ipl, called, onBase, panicked>>

timeout_panic ==
  /\ MayCall
  /\ Len(calltodo) = NCall
  /\ panicked' = TRUE
  /\ UNCHANGED <<calltodo, soft, ipl, called, onBase>>

untimeout(f) ==
  /\ MayCall
  /\ \E k \in FirstOf(calltodo, f) : calltodo' = RemovedAt(calltodo, k)
  /\ UNCHANGED <<soft, ipl, called, onBase, panicked>>

(* The kernel outside softclock raises and lowers the priority.            *)
spl ==
  /\ ~panicked
  /\ soft = "idle"
  /\ ipl' = IF ipl = "base" THEN "raised" ELSE "base"
  /\ UNCHANGED <<calltodo, soft, called, onBase, panicked>>

-----------------------------------------------------------------------------
Init ==
  /\ calltodo = <<>>
  /\ soft = "idle"
  /\ ipl = "base"
  /\ called = NoCall
  /\ onBase = TRUE
  /\ panicked = FALSE

Next ==
  \/ hardclock
  \/ softclock_call
  \/ softclock_returned
  \/ softclock_break
  \/ softclock_done
  \/ \E f \in Funs, t \in 0 .. MaxT : timeout(f, t)
  \/ timeout_panic
  \/ \E f \in Cancelled : untimeout(f)
  \/ spl

(* softclock goes on until nothing is due, the functions it calls return,  *)
(* the priority comes down again, and the clock goes on ticking: one tick  *)
(* after another finds the processor at base priority.                     *)
Fairness ==
  /\ WF_vars(softclock_call \/ softclock_returned \/ softclock_break
             \/ softclock_done)
  /\ WF_vars(ipl = "raised" /\ spl)
  /\ SF_vars(BasePri /\ hardclock)

Spec == Init /\ [][Next]_vars /\ Fairness

-----------------------------------------------------------------------------
(* An event is late only for want of priority: when the last tick found    *)
(* the processor at base priority and softclock is not running, nothing is *)
(* due, although hardclock starts softclock only in a tick that finds an   *)
(* event due, and ticks go on while softclock works.                       *)
PromptAtBase ==
  soft = "idle" /\ onBase => ~Due(calltodo)

(* An event that nobody cancels is called, whatever the functions called   *)
(* before it set and cancel and however many ticks interrupt them.         *)
EventsAnswered ==
  \A f \in Funs \ Cancelled :
    (FirstOf(calltodo, f) # {}) ~> (panicked \/ called.fun = f)

(* The ticks until entry i is due, from the differences before it.         *)
Left(q) ==
  LET left[i \in 1 .. Len(q)] ==
        IF i = 1 \/ q[i].time < 0 THEN q[i].time
        ELSE Max0(left[i - 1]) + q[i].time
  IN  left

(* The list refines the abstract queue: events are called never early, in  *)
(* the order of their deadlines, once, and with the number of ticks they   *)
(* are late; a cancelled event is not called, and taking an entry out      *)
(* leaves the deadlines of the entries after it where they were.           *)
Pending(q) ==
  ToBag([i \in 1 .. Len(q) |-> [fun |-> q[i].fun, left |-> Left(q)[i]]])

Queue == INSTANCE TimerQueue WITH pending <- Pending(calltodo)

QueueSpec == Queue!Spec
=============================================================================
