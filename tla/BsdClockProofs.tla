--------------------------- MODULE BsdClockProofs ---------------------------
(***************************************************************************)
(* Proofs about the 2.11BSD clock.  First BsdCallout, for any functions,   *)
(* any size of the table and any number of ticks: lemmas about the list of *)
(* differences; that an event is late only for want of priority; and that  *)
(* the list implements the queue of TimerQueue.  Then BsdClock, for any    *)
(* hz, corrections, times, addresses and settings of a process: lemmas     *)
(* about the operator & of C, about timers and limits after any number of  *)
(* ticks and about the division of a time into ticks; and the four         *)
(* properties of the clock.                                                *)
(***************************************************************************)
EXTENDS BsdCallout, BsdClock, FiniteSetTheorems, FunctionTheorems, TLAPS

Entry == [fun : Funs, time : Int]

IsList(q) == q \in Seq(Entry)

(* Entries are late in the order of the list, and none behind one that is  *)
(* not late yet.                                                           *)
Ordered(q) ==
  \A i, j \in 1 .. Len(q) :
    i < j /\ q[j].time < 0 => q[i].time =< q[j].time

TypeOK ==
  /\ IsList(calltodo)
  /\ soft \in {"idle", "scan", "call", "tail"}
  /\ ipl \in {"base", "raised"}
  /\ called \in [fun : Funs \union {"none"}, late : Int]
  /\ onBase \in BOOLEAN
  /\ panicked \in BOOLEAN

CalloutInv ==
  /\ Ordered(calltodo)
  /\ soft # "call" => called = NoCall
  /\ soft \in {"idle", "tail"} /\ onBase => ~Due(calltodo)

-----------------------------------------------------------------------------
(* Induction over the natural numbers, with a set for the property: a set  *)
(* of them that is not empty has a least element.                          *)
LEMMA LeastElement ==
  ASSUME NEW S \in SUBSET Nat, S # {}
  PROVE  \E x \in S : \A y \in S : x =< y
  <1>. DEFINE R == OpToRel(<, Nat)
  <1>1. IsWellFoundedOn(R, Nat)
    BY NatLessThanWellFounded, Zenon
  <1>2. PICK x \in S : \A y \in S : ~(<<y, x>> \in R)
    <2>. HIDE DEF R
    <2>. QED  BY <1>1, WFMin, Zenon
  <1>3. \A y \in S : ~(y < x)
    BY <1>2 DEF OpToRel
  <1>. QED  BY <1>3

LEMMA SetInduction ==
  ASSUME NEW T \in SUBSET Nat, 0 \in T, \A n \in T : n + 1 \in T
  PROVE  T = Nat
  <1>. SUFFICES ASSUME Nat \ T # {}
                PROVE  FALSE
    OBVIOUS
  <1>1. PICK x \in Nat \ T : \A y \in Nat \ T : x =< y
    BY LeastElement
  <1>2. x - 1 \in T
    BY <1>1
  <1>. QED  BY <1>2

(* A function on 1 .. n is a sequence of length n.                         *)
LEMMA FunctionIsSeq ==
  ASSUME NEW S, NEW n \in Nat, NEW f \in [1 .. n -> S]
  PROVE  /\ f \in Seq(S)
         /\ Len(f) = n
  OBVIOUS

(* What a list of entries is made of.                                      *)
LEMMA ListTypes ==
  ASSUME NEW q, IsList(q)
  PROVE  /\ Len(q) \in Nat
         /\ DOMAIN q = 1 .. Len(q)
         /\ \A i \in 1 .. Len(q) :
              q[i] \in Entry /\ q[i].fun \in Funs /\ q[i].time \in Int
         /\ q = <<>> <=> Len(q) = 0
  <1>1. Len(q) \in Nat /\ DOMAIN q = 1 .. Len(q)
    BY DEF IsList
  <1>2. \A i \in 1 .. Len(q) : q[i] \in Entry
    BY <1>1 DEF IsList
  <1>3. q = <<>> <=> Len(q) = 0
    BY DEF IsList
  <1>. QED  BY <1>1, <1>2, <1>3 DEF Entry

(* An entry with another time is an entry.                                 *)
LEMMA EntryTypes ==
  ASSUME NEW e \in Entry, NEW n \in Int
  PROVE  /\ [e EXCEPT !.time = n] \in Entry
         /\ [e EXCEPT !.time = n].fun = e.fun
         /\ [e EXCEPT !.time = n].time = n
  BY DEF Entry

-----------------------------------------------------------------------------
(* A tick.                                                                 *)
Hit(q, i) == \A j \in 1 .. i - 1 : q[j].time =< 0

LEMMA DecrementedList ==
  ASSUME NEW q, IsList(q)
  PROVE  /\ IsList(Decremented(q))
         /\ Len(Decremented(q)) = Len(q)
         /\ \A i \in 1 .. Len(q) :
              /\ Decremented(q)[i].fun = q[i].fun
              /\ Hit(q, i) => Decremented(q)[i].time = q[i].time - 1
              /\ ~Hit(q, i) => Decremented(q)[i].time = q[i].time
  <1>. DEFINE d == Decremented(q)
  <1>1. \A i \in 1 .. Len(q) : q[i] \in Entry /\ q[i].time - 1 \in Int
    BY ListTypes
  <1>2. d = [i \in 1 .. Len(q) |->
               IF Hit(q, i) THEN [q[i] EXCEPT !.time = q[i].time - 1]
               ELSE q[i]]
    BY <1>1 DEF Decremented, Hit, Entry
  <1>3. \A i \in 1 .. Len(q) :
          /\ d[i] \in Entry /\ d[i].fun = q[i].fun
          /\ Hit(q, i) => d[i].time = q[i].time - 1
          /\ ~Hit(q, i) => d[i].time = q[i].time
    <2>. HIDE DEF d
    <2>. QED  BY <1>1, <1>2, EntryTypes
  <1>4. d \in [1 .. Len(q) -> Entry]
    <2>. HIDE DEF d
    <2>. QED  BY <1>2, <1>3
  <1>5. d \in Seq(Entry) /\ Len(d) = Len(q)
    <2>1. Len(q) \in Nat
      BY ListTypes
    <2>. HIDE DEF d
    <2>. QED  BY <1>4, <2>1, FunctionIsSeq
  <1>. QED  BY <1>3, <1>5 DEF IsList

LEMMA DecrementedOrdered ==
  ASSUME NEW q, IsList(q), Ordered(q)
  PROVE  Ordered(Decremented(q))
  <1>. DEFINE d == Decremented(q)
  <1>. SUFFICES ASSUME NEW i \in 1 .. Len(q), NEW j \in 1 .. Len(q),
                       i < j, d[j].time < 0
                PROVE  d[i].time =< d[j].time
    BY DecrementedList DEF Ordered
  <1>. HIDE DEF d
  <1>1. /\ Len(q) \in Nat /\ q[i].time \in Int /\ q[j].time \in Int
        /\ \A k \in 1 .. Len(q) : q[k].time \in Int
    BY ListTypes
  <1>2. /\ Hit(q, i) => d[i].time = q[i].time - 1
        /\ Hit(q, j) => d[j].time = q[j].time - 1
        /\ ~Hit(q, j) => d[j].time = q[j].time
    BY DecrementedList DEF d
  <1>3. Hit(q, j) => Hit(q, i) /\ q[i].time =< 0
    BY <1>1 DEF Hit
  <1>4. q[j].time < 0 => Hit(q, j) /\ q[i].time =< q[j].time
    <2>. SUFFICES ASSUME q[j].time < 0
                  PROVE  Hit(q, j) /\ q[i].time =< q[j].time
      OBVIOUS
    <2>1. \A k \in 1 .. j - 1 : q[k].time =< q[j].time
      BY <1>1 DEF Ordered
    <2>. QED  BY <1>1, <2>1 DEF Hit
  <1>. QED  BY <1>1, <1>2, <1>3, <1>4

(* The list without its first entry.                                       *)
LEMMA TailList ==
  ASSUME NEW q, IsList(q), q # <<>>
  PROVE  /\ IsList(Tail(q))
         /\ Len(Tail(q)) = Len(q) - 1
         /\ \A i \in 1 .. Len(q) - 1 : Tail(q)[i] = q[i + 1]
  BY DEF IsList

LEMMA TailOrdered ==
  ASSUME NEW q, IsList(q), q # <<>>, Ordered(q)
  PROVE  Ordered(Tail(q))
  BY TailList, ListTypes DEF Ordered

-----------------------------------------------------------------------------
(* untimeout.                                                              *)
LEMMA RemovedList ==
  ASSUME NEW q, IsList(q), NEW k \in 1 .. Len(q)
  PROVE  /\ IsList(RemovedAt(q, k))
         /\ Len(RemovedAt(q, k)) = Len(q) - 1
         /\ \A i \in 1 .. Len(q) - 1 :
              /\ i < k => RemovedAt(q, k)[i] = q[i]
              /\ i = k => /\ RemovedAt(q, k)[i].fun = q[k + 1].fun
                          /\ RemovedAt(q, k)[i].time
                               = q[k + 1].time + Max0(q[k].time)
              /\ i > k => RemovedAt(q, k)[i] = q[i + 1]
  <1>. DEFINE d == RemovedAt(q, k)
  <1>1. Len(q) \in Nat /\ \A i \in 1 .. Len(q) :
          q[i] \in Entry /\ q[i].time \in Int /\ Max0(q[i].time) \in Int
    BY ListTypes DEF Max0
  <1>2. d = [i \in 1 .. Len(q) - 1 |->
               CASE i < k -> q[i]
                 [] i = k -> [q[k + 1] EXCEPT
                                !.time = q[k + 1].time + Max0(q[k].time)]
                 [] OTHER -> q[i + 1]]
    BY <1>1 DEF RemovedAt, Entry
  <1>3. \A i \in 1 .. Len(q) - 1 :
          /\ d[i] \in Entry
          /\ i < k => d[i] = q[i]
          /\ i = k => /\ d[i].fun = q[k + 1].fun
                      /\ d[i].time = q[k + 1].time + Max0(q[k].time)
          /\ i > k => d[i] = q[i + 1]
    <2>. SUFFICES ASSUME NEW i \in 1 .. Len(q) - 1
                  PROVE  /\ d[i] \in Entry
                         /\ i < k => d[i] = q[i]
                         /\ i = k => /\ d[i].fun = q[k + 1].fun
                                     /\ d[i].time = q[k + 1].time
                                                      + Max0(q[k].time)
                         /\ i > k => d[i] = q[i + 1]
      OBVIOUS
    <2>. HIDE DEF d
    <2>1. CASE i < k
      <3>1. i \in 1 .. Len(q) /\ i # k /\ ~(i > k)
        BY <1>1, <2>1
      <3>2. d[i] = q[i]
        BY <1>2, <2>1
      <3>. QED  BY <1>1, <2>1, <3>1, <3>2
    <2>2. CASE i = k
      <3>1. k + 1 \in 1 .. Len(q)
        BY <1>1, <2>2
      <3>2. d[i] = [q[k + 1] EXCEPT
                      !.time = q[k + 1].time + Max0(q[k].time)]
        BY <1>1, <1>2, <2>2
      <3>3. /\ q[k + 1] \in Entry
            /\ q[k + 1].time + Max0(q[k].time) \in Int
        BY <1>1, <3>1
      <3>4. /\ d[i] \in Entry
            /\ d[i].fun = q[k + 1].fun
            /\ d[i].time = q[k + 1].time + Max0(q[k].time)
        BY <3>2, <3>3, EntryTypes
      <3>. QED  BY <2>2, <3>4
    <2>3. CASE i > k
      <3>1. i + 1 \in 1 .. Len(q)
        BY <1>1, <2>3
      <3>2. d[i] = q[i + 1]
        BY <1>1, <1>2, <2>3
      <3>. QED  BY <1>1, <2>3, <3>1, <3>2
    <2>. QED  BY <1>1, <2>1, <2>2, <2>3
  <1>4. d \in [1 .. Len(q) - 1 -> Entry]
    <2>. HIDE DEF d
    <2>. QED  BY <1>2, <1>3
  <1>5. d \in Seq(Entry) /\ Len(d) = Len(q) - 1
    <2>1. Len(q) - 1 \in Nat
      BY <1>1
    <2>. HIDE DEF d
    <2>. QED  BY <1>4, <2>1, FunctionIsSeq
  <1>. QED  BY <1>3, <1>5 DEF IsList

LEMMA RemovedOrdered ==
  ASSUME NEW q, IsList(q), Ordered(q), NEW k \in 1 .. Len(q)
  PROVE  Ordered(RemovedAt(q, k))
  <1>. DEFINE d == RemovedAt(q, k)
              N == Len(q) - 1
  <1>1. /\ Len(q) \in Nat /\ Len(d) = N
        /\ \A i \in 1 .. Len(q) : q[i].time \in Int /\ Max0(q[i].time) \in Nat
        /\ \A i \in 1 .. Len(q) : q[i].time =< 0 => Max0(q[i].time) = 0
    <2>1. Len(d) = N
      BY RemovedList
    <2>2. Len(q) \in Nat /\ \A i \in 1 .. Len(q) : q[i].time \in Int
      BY ListTypes
    <2>. HIDE DEF d, N
    <2>. QED  BY <2>1, <2>2 DEF Max0
  <1>2. \A i \in 1 .. N : /\ i < k => d[i].time = q[i].time
                          /\ i = k => d[i].time = q[k + 1].time
                                                   + Max0(q[k].time)
                          /\ i > k => d[i].time = q[i + 1].time
    <2>1. \A i \in 1 .. N : /\ i < k => d[i] = q[i]
                            /\ i = k => d[i].time = q[k + 1].time
                                                     + Max0(q[k].time)
                            /\ i > k => d[i] = q[i + 1]
      BY RemovedList
    <2>. HIDE DEF d
    <2>. QED  BY <2>1
  <1>3. \A i, j \in 1 .. Len(q) :
          i < j /\ q[j].time < 0 => q[i].time =< q[j].time
    BY DEF Ordered
  <1>. HIDE DEF d
  <1>4. ASSUME k < Len(q), d[k].time < 0
        PROVE  d[k].time = q[k + 1].time /\ q[k + 1].time < 0
    <2>1. k \in 1 .. N /\ k + 1 \in 1 .. Len(q)
      BY <1>1, <1>4
    <2>2. q[k + 1].time < 0
      BY <1>1, <1>2, <1>4, <2>1
    <2>3. q[k].time =< 0
      BY <1>1, <1>3, <2>1, <2>2
    <2>. QED  BY <1>1, <1>2, <2>1, <2>2, <2>3
  <1>5. \A i \in 1 .. N : i = k => q[k + 1].time =< d[k].time
    BY <1>1, <1>2
  <1>6. ASSUME NEW i \in 1 .. N, NEW j \in 1 .. N, i < j, d[j].time < 0
        PROVE  d[i].time =< d[j].time
    <2>1. CASE j < k
      <3>1. i < k /\ i \in 1 .. Len(q) /\ j \in 1 .. Len(q)
        BY <1>1, <1>6, <2>1
      <3>2. d[i].time = q[i].time /\ d[j].time = q[j].time
        BY <1>2, <2>1, <3>1
      <3>. QED  BY <1>3, <1>6, <3>1, <3>2
    <2>2. CASE j = k
      <3>1. k < Len(q) /\ d[k].time = q[k + 1].time /\ q[k + 1].time < 0
        BY <1>1, <1>4, <1>6, <2>2
      <3>2. i < k /\ i < k + 1 /\ i \in 1 .. Len(q) /\ k + 1 \in 1 .. Len(q)
        BY <1>1, <1>6, <2>2, <3>1
      <3>3. q[i].time =< q[k + 1].time
        BY <1>3, <3>1, <3>2
      <3>4. d[i].time = q[i].time
        BY <1>2, <1>6, <3>2
      <3>. QED  BY <2>2, <3>1, <3>3, <3>4
    <2>3. CASE j > k
      <3>1. d[j].time = q[j + 1].time /\ j + 1 \in 1 .. Len(q)
        BY <1>1, <1>2, <2>3
      <3>2. \A l \in 1 .. j : q[l].time =< q[j + 1].time
        BY <1>1, <1>3, <1>6, <3>1
      <3>3. CASE i < k
        <4>1. d[i].time = q[i].time /\ i \in 1 .. j
          BY <1>2, <1>6, <3>3
        <4>. QED  BY <3>1, <3>2, <4>1
      <3>4. CASE i = k
        <4>1. k \in 1 .. j /\ k + 1 \in 1 .. j
          BY <1>6, <3>4
        <4>2. q[k].time =< 0
          <5>1. q[k].time =< q[j + 1].time /\ q[j + 1].time < 0
            BY <1>6, <3>1, <3>2, <4>1
          <5>2. q[k].time \in Int /\ q[j + 1].time \in Int
            BY <1>1, <3>1
          <5>. QED  BY <5>1, <5>2
        <4>3. d[i].time = q[k + 1].time + 0
          BY <1>1, <1>2, <3>4, <4>2
        <4>4. k + 1 \in 1 .. Len(q)
          BY <1>1, <1>6, <3>4
        <4>. QED  BY <1>1, <3>1, <3>2, <4>1, <4>3, <4>4
      <3>5. CASE i > k
        <4>1. d[i].time = q[i + 1].time /\ i + 1 \in 1 .. j
          BY <1>2, <1>6, <3>5
        <4>. QED  BY <3>1, <3>2, <4>1
      <3>. QED  BY <1>6, <3>3, <3>4, <3>5
    <2>. QED  BY <2>1, <2>2, <2>3
  <1>. QED  BY <1>1, <1>6 DEF Ordered, d

-----------------------------------------------------------------------------
(* timeout.  A linked-in entry.                                            *)
LEMMA InsertedAtList ==
  ASSUME NEW q, IsList(q), NEW p \in 1 .. Len(q) + 1, NEW f \in Funs,
         NEW r \in Int
  PROVE  /\ IsList(InsertedAt(q, p, f, r))
         /\ Len(InsertedAt(q, p, f, r)) = Len(q) + 1
         /\ \A i \in 1 .. Len(q) + 1 :
              /\ i < p => InsertedAt(q, p, f, r)[i] = q[i]
              /\ i = p => InsertedAt(q, p, f, r)[i] = [fun |-> f, time |-> r]
              /\ i = p + 1 =>
                   /\ InsertedAt(q, p, f, r)[i].fun = q[p].fun
                   /\ InsertedAt(q, p, f, r)[i].time = q[p].time - r
              /\ i > p + 1 => InsertedAt(q, p, f, r)[i] = q[i - 1]
  <1>. DEFINE d == InsertedAt(q, p, f, r)
  <1>1. Len(q) \in Nat /\ \A i \in 1 .. Len(q) :
          q[i] \in Entry /\ q[i].time \in Int
    BY ListTypes
  <1>2. d = [i \in 1 .. Len(q) + 1 |->
               CASE i < p     -> q[i]
                 [] i = p     -> [fun |-> f, time |-> r]
                 [] i = p + 1 -> [q[p] EXCEPT !.time = q[p].time - r]
                 [] OTHER     -> q[i - 1]]
    BY <1>1 DEF InsertedAt, Entry
  <1>3. ASSUME NEW i \in 1 .. Len(q) + 1
        PROVE  /\ d[i] \in Entry
               /\ i < p => d[i] = q[i]
               /\ i = p => d[i] = [fun |-> f, time |-> r]
               /\ i = p + 1 => /\ d[i].fun = q[p].fun
                               /\ d[i].time = q[p].time - r
               /\ i > p + 1 => d[i] = q[i - 1]
    <2>. HIDE DEF d
    <2>1. CASE i < p
      <3>1. i \in 1 .. Len(q) /\ i # p /\ i # p + 1 /\ ~(i > p + 1)
        BY <1>1, <2>1
      <3>2. d[i] = q[i]
        BY <1>2, <2>1
      <3>. QED  BY <1>1, <2>1, <3>1, <3>2
    <2>2. CASE i = p
      <3>1. ~(i < p) /\ i # p + 1 /\ ~(i > p + 1)
        BY <2>2
      <3>2. d[i] = [fun |-> f, time |-> r]
        BY <1>2, <2>2, <3>1
      <3>3. d[i] \in Entry
        BY <3>2 DEF Entry
      <3>. QED  BY <2>2, <3>1, <3>2, <3>3
    <2>3. CASE i = p + 1
      <3>1. p \in 1 .. Len(q) /\ ~(i < p) /\ i # p /\ ~(i > p + 1)
        BY <1>1, <2>3
      <3>2. d[i] = [q[p] EXCEPT !.time = q[p].time - r]
        BY <1>2, <2>3, <3>1
      <3>3. q[p] \in Entry /\ q[p].time - r \in Int
        BY <1>1, <3>1
      <3>4. /\ d[i] \in Entry
            /\ d[i].fun = q[p].fun
            /\ d[i].time = q[p].time - r
        BY <3>2, <3>3, EntryTypes
      <3>. QED  BY <2>3, <3>1, <3>4
    <2>4. CASE i > p + 1
      <3>1. i - 1 \in 1 .. Len(q) /\ ~(i < p) /\ i # p /\ i # p + 1
        BY <1>1, <2>4
      <3>2. d[i] = q[i - 1]
        BY <1>2, <3>1
      <3>. QED  BY <1>1, <2>4, <3>1, <3>2
    <2>. QED  BY <1>1, <2>1, <2>2, <2>3, <2>4
  <1>4. d \in [1 .. Len(q) + 1 -> Entry]
    <2>. HIDE DEF d
    <2>. QED  BY <1>2, <1>3
  <1>5. d \in Seq(Entry) /\ Len(d) = Len(q) + 1
    <2>1. Len(q) + 1 \in Nat
      BY <1>1
    <2>. HIDE DEF d
    <2>. QED  BY <1>4, <2>1, FunctionIsSeq
  <1>. QED  BY <1>3, <1>5 DEF IsList

(* The walk: what is left of the ticks at each entry.                      *)
RestStep(q, t, f, i) == IF i = 1 THEN t ELSE f[i - 1] - Max0(q[i - 1].time)

LEMMA RestExists ==
  ASSUME NEW q, NEW t, NEW n \in Nat
  PROVE  \E f : f = [i \in 1 .. n |-> RestStep(q, t, f, i)]
  <1>. DEFINE Solves(f, m) == f = [i \in 1 .. m |-> RestStep(q, t, f, i)]
              T == {m \in Nat : \E f : Solves(f, m)}
  <1>1. 0 \in T
    <2>1. Solves([i \in 1 .. 0 |-> t], 0)
      OBVIOUS
    <2>. HIDE DEF Solves
    <2>. QED  BY <2>1
  <1>2. ASSUME NEW m \in T
        PROVE  m + 1 \in T
    <2>1. PICK f : Solves(f, m)
      OBVIOUS
    <2>. DEFINE g == [i \in 1 .. m + 1 |-> IF i =< m THEN f[i]
                                           ELSE RestStep(q, t, f, i)]
    <2>2. \A i \in 1 .. m + 1 : RestStep(q, t, g, i) = RestStep(q, t, f, i)
      BY DEF RestStep
    <2>3. \A i \in 1 .. m : f[i] = RestStep(q, t, f, i)
      BY <2>1
    <2>4. Solves(g, m + 1)
      BY <2>2, <2>3
    <2>5. \E h : Solves(h, m + 1)
      <3>. HIDE DEF g, Solves
      <3>. QED  BY <2>4
    <2>. HIDE DEF Solves
    <2>. QED  BY <2>5
  <1>3. T \subseteq Nat
    OBVIOUS
  <1>4. T = Nat
    <2>. HIDE DEF T
    <2>. QED  BY <1>1, <1>2, <1>3, SetInduction
  <1>. QED  BY <1>4

LEMMA RestUnfold ==
  ASSUME NEW q, IsList(q), NEW t \in Int
  PROVE  /\ Rest(q, t)[1] = t
         /\ \A i \in 1 .. Len(q) :
              Rest(q, t)[i + 1] = Rest(q, t)[i] - Max0(q[i].time)
  <1>1. Len(q) \in Nat
    BY ListTypes
  <1>2. \E f : f = [i \in 1 .. Len(q) + 1 |-> RestStep(q, t, f, i)]
    <2>. DEFINE n == Len(q) + 1
    <2>1. n \in Nat
      BY <1>1
    <2>. HIDE DEF n
    <2>2. \E f : f = [i \in 1 .. n |-> RestStep(q, t, f, i)]
      BY <2>1, RestExists
    <2>. QED  BY <2>2 DEF n
  <1>. DEFINE r == Rest(q, t)
  <1>3. r = [i \in 1 .. Len(q) + 1 |-> RestStep(q, t, r, i)]
    BY <1>2 DEF Rest, RestStep
  <1>. HIDE DEF r
  <1>4. \A i \in 1 .. Len(q) + 1 : r[i] = RestStep(q, t, r, i)
    BY <1>3
  <1>5. r[1] = t /\ \A i \in 1 .. Len(q) : r[i + 1] = r[i] - Max0(q[i].time)
    BY <1>1, <1>4 DEF RestStep
  <1>. QED  BY <1>5 DEF r

LEMMA RestTypes ==
  ASSUME NEW q, IsList(q), NEW t \in Int
  PROVE  \A i \in 1 .. Len(q) + 1 : Rest(q, t)[i] \in Int
  <1>. DEFINE T == {n \in Nat : n =< Len(q) => Rest(q, t)[n + 1] \in Int}
  <1>1. /\ Len(q) \in Nat
        /\ \A i \in 1 .. Len(q) : Max0(q[i].time) \in Int
    BY ListTypes DEF Max0
  <1>2. 0 \in T
    BY RestUnfold
  <1>3. ASSUME NEW n \in T
        PROVE  n + 1 \in T
    <2>. SUFFICES ASSUME n + 1 =< Len(q)
                  PROVE  Rest(q, t)[(n + 1) + 1] \in Int
      OBVIOUS
    <2>1. n + 1 \in 1 .. Len(q) /\ Rest(q, t)[n + 1] \in Int
      BY <1>1
    <2>. QED  BY <1>1, <2>1, RestUnfold
  <1>4. T \subseteq Nat
    OBVIOUS
  <1>5. T = Nat
    <2>. HIDE DEF T
    <2>. QED  BY <1>2, <1>3, <1>4, SetInduction
  <1>6. ASSUME NEW i \in 1 .. Len(q) + 1
        PROVE  Rest(q, t)[i] \in Int
    <2>1. i - 1 \in T
      <3>. HIDE DEF T
      <3>. QED  BY <1>1, <1>5
    <2>2. i - 1 =< Len(q) /\ (i - 1) + 1 = i
      BY <1>1
    <2>. QED  BY <2>1, <2>2
  <1>. QED  BY <1>6

(* Where the walk stops: the new entry has time left and the one behind it *)
(* at least as much.                                                       *)
LEMMA InsertedWhere ==
  ASSUME NEW q, IsList(q), NEW f, NEW t \in Nat \ {0}
  PROVE  \E p \in 1 .. Len(q) + 1 :
           /\ Inserted(q, f, t) = InsertedAt(q, p, f, Rest(q, t)[p])
           /\ Rest(q, t)[p] > 0
           /\ p =< Len(q) => q[p].time >= Rest(q, t)[p]
  <1>. DEFINE r == Rest(q, t)
              S == {i \in 1 .. Len(q) + 1 : Stops(q, r, i)}
              P(p) == /\ p \in 1 .. Len(q) + 1
                      /\ Stops(q, r, p)
                      /\ \A j \in 1 .. p - 1 : ~Stops(q, r, j)
  <1>1. Len(q) \in Nat /\ \A i \in 1 .. Len(q) : q[i].time \in Int
    BY ListTypes
  <1>2. \E p : P(p)
    <2>1. S \in SUBSET Nat /\ Len(q) + 1 \in S
      BY <1>1 DEF Stops
    <2>2. PICK p \in S : \A j \in S : p =< j
      <3>. HIDE DEF S
      <3>. QED  BY <2>1, LeastElement
    <2>3. \A j \in 1 .. p - 1 : j \in 1 .. Len(q) + 1 /\ ~(p =< j)
      BY <1>1
    <2>4. P(p)
      BY <2>2, <2>3
    <2>. HIDE DEF P
    <2>. QED  BY <2>4
  <1>. DEFINE p == CHOOSE i \in 1 .. Len(q) + 1 :
                     /\ Stops(q, r, i)
                     /\ \A j \in 1 .. i - 1 : ~Stops(q, r, j)
  <1>3. P(p)
    <2>. HIDE DEF r
    <2>. QED  BY <1>2
  <1>4. Inserted(q, f, t) = InsertedAt(q, p, f, r[p])
    BY DEF Inserted
  <1>. HIDE DEF p
  <1>5. r[p] > 0
    <2>1. /\ r[1] = t
          /\ \A i \in 1 .. Len(q) : r[i + 1] = r[i] - Max0(q[i].time)
          /\ \A i \in 1 .. Len(q) + 1 : r[i] \in Int
      BY RestUnfold, RestTypes
    <2>. HIDE DEF r
    <2>2. CASE p = 1
      BY <2>1, <2>2
    <2>3. CASE p # 1
      <3>. DEFINE T == {n \in Nat : n + 1 =< p => r[n + 1] > 0}
      <3>1. 0 \in T
        BY <2>1
      <3>2. ASSUME NEW n \in T
            PROVE  n + 1 \in T
        <4>. SUFFICES ASSUME (n + 1) + 1 =< p
                      PROVE  r[(n + 1) + 1] > 0
          OBVIOUS
        <4>1. /\ n + 1 \in 1 .. p - 1 /\ n + 1 \in 1 .. Len(q)
              /\ r[n + 1] > 0 /\ r[n + 1] \in Int
          BY <1>1, <1>3, <2>1
        <4>2. q[n + 1].time < r[n + 1]
          BY <1>1, <1>3, <4>1 DEF Stops
        <4>. QED  BY <1>1, <2>1, <4>1, <4>2 DEF Max0
      <3>3. T \subseteq Nat
        OBVIOUS
      <3>4. T = Nat
        <4>. HIDE DEF T
        <4>. QED  BY <3>1, <3>2, <3>3, SetInduction
      <3>5. p - 1 \in T
        <4>. HIDE DEF T
        <4>. QED  BY <1>1, <1>3, <3>4
      <3>6. (p - 1) + 1 = p
        BY <1>1, <1>3
      <3>. QED  BY <3>5, <3>6
    <2>. QED  BY <2>2, <2>3
  <1>6. p =< Len(q) => q[p].time >= r[p]
    BY <1>1, <1>3 DEF Stops
  <1>. QED  BY <1>3, <1>4, <1>5, <1>6

LEMMA InsertedOrdered ==
  ASSUME NEW q, IsList(q), Ordered(q), NEW p \in 1 .. Len(q) + 1,
         NEW f \in Funs, NEW r \in Int, r > 0,
         p =< Len(q) => q[p].time >= r
  PROVE  Ordered(InsertedAt(q, p, f, r))
  <1>. DEFINE d == InsertedAt(q, p, f, r)
  <1>1. Len(q) \in Nat /\ \A i \in 1 .. Len(q) : q[i].time \in Int
    BY ListTypes
  <1>2. /\ Len(d) = Len(q) + 1
        /\ \A i \in 1 .. Len(q) + 1 :
             /\ i < p => d[i].time = q[i].time
             /\ i = p => d[i].time = r
             /\ i = p + 1 => d[i].time = q[p].time - r
             /\ i > p + 1 => d[i].time = q[i - 1].time
    <2>1. /\ Len(d) = Len(q) + 1
          /\ \A i \in 1 .. Len(q) + 1 :
               /\ i < p => d[i] = q[i]
               /\ i = p => d[i] = [fun |-> f, time |-> r]
               /\ i = p + 1 => d[i].time = q[p].time - r
               /\ i > p + 1 => d[i] = q[i - 1]
      BY InsertedAtList
    <2>. HIDE DEF d
    <2>. QED  BY <2>1
  <1>3. \A i, j \in 1 .. Len(q) :
          i < j /\ q[j].time < 0 => q[i].time =< q[j].time
    BY DEF Ordered
  <1>. HIDE DEF d
  <1>4. ASSUME NEW j \in 1 .. Len(q) + 1, j >= p
        PROVE  ~(d[j].time < 0)
    <2>1. CASE j = p
      BY <1>2, <2>1
    <2>2. CASE j = p + 1
      <3>1. p \in 1 .. Len(q)
        BY <1>1, <2>2
      <3>. QED  BY <1>1, <1>2, <2>2, <3>1
    <2>3. CASE j > p + 1
      <3>1. p \in 1 .. Len(q) /\ j - 1 \in 1 .. Len(q) /\ p < j - 1
        BY <1>1, <2>3
      <3>2. q[p].time > 0
        BY <1>1, <3>1
      <3>3. d[j].time = q[j - 1].time
        BY <1>2, <2>3
      <3>4. q[j - 1].time < 0 => q[p].time =< q[j - 1].time
        BY <1>3, <3>1
      <3>. QED  BY <1>1, <3>1, <3>2, <3>3, <3>4
    <2>. QED  BY <1>1, <1>4, <2>1, <2>2, <2>3
  <1>5. ASSUME NEW i \in 1 .. Len(q) + 1, NEW j \in 1 .. Len(q) + 1,
               i < j, d[j].time < 0
        PROVE  d[i].time =< d[j].time
    <2>1. j < p
      BY <1>1, <1>4, <1>5
    <2>. QED  BY <1>1, <1>2, <1>3, <1>5, <2>1
  <1>. QED  BY <1>1, <1>2, <1>5 DEF Ordered, d

-----------------------------------------------------------------------------
(* Every reachable state is well typed; late events are in order; and an   *)
(* event is due at base priority only while softclock is about to look for *)
(* it.                                                                     *)
LEMMA CalloutInit == Init => TypeOK /\ CalloutInv
  <1>1. IsList(<<>>) /\ Ordered(<<>>) /\ ~Due(<<>>)
    BY DEF IsList, Ordered, Due
  <1>2. NoCall \in [fun : Funs \union {"none"}, late : Int]
    BY DEF NoCall
  <1>. QED  BY <1>1, <1>2 DEF Init, TypeOK, CalloutInv

LEMMA CalloutTick ==
  ASSUME TypeOK, CalloutInv, hardclock
  PROVE  TypeOK' /\ CalloutInv'
  <1>1. /\ IsList(calltodo) /\ Ordered(calltodo)
        /\ calltodo' = Decremented(calltodo)
    BY DEF TypeOK, CalloutInv, hardclock
  <1>2. IsList(calltodo') /\ Ordered(calltodo')
    BY <1>1, DecrementedList, DecrementedOrdered
  <1>3. soft' = "idle" /\ onBase' => ~Due(calltodo')
    <2>. SUFFICES ASSUME soft' = "idle", onBase', calltodo' # <<>>
                  PROVE  ~(calltodo'[1].time =< 0)
      BY DEF Due
    <2>1. BasePri /\ ~NeedSoft(calltodo)
      BY DEF hardclock
    <2>2. Len(calltodo) \in Nat /\ Len(calltodo') = Len(calltodo)
      BY <1>1, DecrementedList, ListTypes
    <2>3. calltodo # <<>> /\ 1 \in 1 .. Len(calltodo)
      BY <1>1, <1>2, <2>2, ListTypes
    <2>4. calltodo[1].time \in Int /\ ~(calltodo[1].time =< 1)
      BY <1>1, <2>1, <2>3, ListTypes DEF NeedSoft
    <2>5. calltodo'[1].time = calltodo[1].time - 1
      BY <1>1, <2>3, DecrementedList DEF Hit
    <2>. QED  BY <2>4, <2>5
  <1>4. soft' = "tail" => ~onBase'
    BY DEF hardclock, BasePri
  <1>5. /\ soft' \in {"idle", "scan", "call", "tail"}
        /\ onBase' \in BOOLEAN
        /\ UNCHANGED <<ipl, called, panicked>>
        /\ soft' # "call" => soft # "call"
    BY DEF TypeOK, hardclock, BasePri
  <1>. QED  BY <1>2, <1>3, <1>4, <1>5 DEF TypeOK, CalloutInv

LEMMA CalloutCall ==
  ASSUME TypeOK, CalloutInv, softclock_call
  PROVE  TypeOK' /\ CalloutInv'
  <1>1. /\ IsList(calltodo) /\ Ordered(calltodo) /\ calltodo # <<>>
        /\ calltodo' = Tail(calltodo)
    BY DEF TypeOK, CalloutInv, softclock_call, Due
  <1>2. IsList(calltodo') /\ Ordered(calltodo')
    BY <1>1, TailList, TailOrdered
  <1>3. calltodo[1].fun \in Funs /\ calltodo[1].time \in Int
    BY <1>1, ListTypes
  <1>. QED  BY <1>2, <1>3 DEF TypeOK, CalloutInv, softclock_call

LEMMA CalloutSet ==
  ASSUME TypeOK, CalloutInv, NEW f \in Funs, NEW t \in 0 .. MaxT,
         timeout(f, t)
  PROVE  TypeOK' /\ CalloutInv'
  <1>. DEFINE n == IF t =< 0 THEN 1 ELSE t
  <1>1. /\ IsList(calltodo) /\ Ordered(calltodo) /\ n \in Nat \ {0}
        /\ calltodo' = Inserted(calltodo, f, n)
    BY TableAssumption DEF TypeOK, CalloutInv, timeout
  <1>. HIDE DEF n
  <1>2. PICK p \in 1 .. Len(calltodo) + 1 :
          LET r == Rest(calltodo, n)[p]
          IN  /\ calltodo' = InsertedAt(calltodo, p, f, r)
              /\ r > 0
              /\ p =< Len(calltodo) => calltodo[p].time >= r
    BY <1>1, InsertedWhere
  <1>. DEFINE r == Rest(calltodo, n)[p]
  <1>3. /\ r \in Int /\ r > 0 /\ calltodo' = InsertedAt(calltodo, p, f, r)
        /\ p =< Len(calltodo) => calltodo[p].time >= r
    BY <1>1, <1>2, RestTypes
  <1>. HIDE DEF r
  <1>4. IsList(calltodo') /\ Ordered(calltodo')
    BY <1>1, <1>3, InsertedAtList, InsertedOrdered
  <1>5. Due(calltodo') => Due(calltodo)
    <2>1. Len(calltodo) \in Nat
      BY <1>1, ListTypes
    <2>2. /\ 1 < p => calltodo'[1] = calltodo[1]
          /\ 1 = p => calltodo'[1] = [fun |-> f, time |-> r]
      BY <1>1, <1>3, <2>1, InsertedAtList
    <2>3. CASE p = 1
      BY <1>3, <2>2, <2>3 DEF Due
    <2>4. CASE p > 1
      <3>1. calltodo # <<>>
        BY <1>1, <2>1, <2>4, ListTypes
      <3>. QED  BY <2>2, <2>4, <3>1 DEF Due
    <2>. QED  BY <2>1, <2>3, <2>4
  <1>. QED  BY <1>4, <1>5 DEF TypeOK, CalloutInv, timeout

LEMMA CalloutCancel ==
  ASSUME TypeOK, CalloutInv, NEW f \in Cancelled, untimeout(f)
  PROVE  TypeOK' /\ CalloutInv'
  <1>1. PICK k \in 1 .. Len(calltodo) : calltodo' = RemovedAt(calltodo, k)
    BY DEF untimeout, FirstOf
  <1>2. IsList(calltodo) /\ Ordered(calltodo) /\ Len(calltodo) \in Nat
    BY ListTypes DEF TypeOK, CalloutInv
  <1>3. IsList(calltodo') /\ Ordered(calltodo')
    BY <1>1, <1>2, RemovedList, RemovedOrdered
  <1>4. Due(calltodo') => Due(calltodo)
    <2>. SUFFICES ASSUME calltodo' # <<>>, calltodo'[1].time =< 0
                  PROVE  calltodo # <<>> /\ calltodo[1].time =< 0
      BY DEF Due
    <2>1. Len(calltodo') = Len(calltodo) - 1 /\ Len(calltodo') # 0
      BY <1>1, <1>2, <1>3, RemovedList, ListTypes
    <2>2. /\ 1 \in 1 .. Len(calltodo) - 1 /\ calltodo # <<>>
          /\ 1 \in 1 .. Len(calltodo) /\ 2 \in 1 .. Len(calltodo)
      BY <1>2, <2>1, ListTypes
    <2>3. calltodo[1].time \in Int /\ calltodo[2].time \in Int
      BY <1>2, <2>2, ListTypes
    <2>4. CASE k = 1
      <3>1. calltodo'[1].time = calltodo[2].time + Max0(calltodo[1].time)
        BY <1>1, <1>2, <2>2, <2>4, RemovedList
      <3>2. calltodo[2].time < 0 => calltodo[1].time =< calltodo[2].time
        BY <1>2, <2>2 DEF Ordered
      <3>. QED  BY <2>2, <2>3, <3>1, <3>2 DEF Max0
    <2>5. CASE k > 1
      <3>1. calltodo'[1] = calltodo[1]
        BY <1>1, <1>2, <2>2, <2>5, RemovedList
      <3>. QED  BY <2>2, <3>1
    <2>. QED  BY <1>2, <2>4, <2>5
  <1>. QED  BY <1>3, <1>4 DEF TypeOK, CalloutInv, untimeout

LEMMA CalloutStep ==
  ASSUME TypeOK, CalloutInv, [Next]_vars
  PROVE  TypeOK' /\ CalloutInv'
  <1>1. CASE hardclock
    BY <1>1, CalloutTick
  <1>2. CASE softclock_call
    BY <1>2, CalloutCall
  <1>3. CASE softclock_returned
    BY <1>3 DEF TypeOK, CalloutInv, softclock_returned, NoCall
  <1>4. CASE softclock_break
    BY <1>4 DEF TypeOK, CalloutInv, softclock_break
  <1>5. CASE softclock_done
    BY <1>5 DEF TypeOK, CalloutInv, softclock_done
  <1>6. ASSUME NEW f \in Funs, NEW t \in 0 .. MaxT, timeout(f, t)
        PROVE  TypeOK' /\ CalloutInv'
    BY <1>6, CalloutSet
  <1>7. CASE timeout_panic
    BY <1>7 DEF TypeOK, CalloutInv, timeout_panic
  <1>8. ASSUME NEW f \in Cancelled, untimeout(f)
        PROVE  TypeOK' /\ CalloutInv'
    BY <1>8, CalloutCancel
  <1>9. CASE spl
    BY <1>9 DEF TypeOK, CalloutInv, spl
  <1>10. CASE UNCHANGED vars
    BY <1>10 DEF TypeOK, CalloutInv, vars
  <1>. QED  BY <1>1, <1>2, <1>3, <1>4, <1>5, <1>6, <1>7, <1>8, <1>9, <1>10
            DEF Next

THEOREM CalloutCorrect == Spec => [](TypeOK /\ CalloutInv)
  BY CalloutInit, CalloutStep, PTL DEF Spec

(* An event is late only for want of priority: softclock never goes back   *)
(* to sleep, and no tick at base priority passes, with an event left due.  *)
THEOREM CalledPromptly == Spec => []PromptAtBase
  <1>1. CalloutInv => PromptAtBase
    BY DEF CalloutInv, PromptAtBase
  <1>. QED  BY <1>1, CalloutCorrect, PTL

-----------------------------------------------------------------------------
(* The ticks left to each entry.  What the recursion of Left says of one   *)
(* of its values, and that it has a solution.                              *)
LeftStep(q, f, i) ==
  IF i = 1 \/ q[i].time < 0 THEN q[i].time ELSE Max0(f[i - 1]) + q[i].time

LEMMA LeftExists ==
  ASSUME NEW q, NEW n \in Nat
  PROVE  \E f : f = [i \in 1 .. n |-> LeftStep(q, f, i)]
  <1>. DEFINE Solves(f, m) == f = [i \in 1 .. m |-> LeftStep(q, f, i)]
              T == {m \in Nat : \E f : Solves(f, m)}
  <1>1. 0 \in T
    <2>1. Solves([i \in 1 .. 0 |-> 0], 0)
      OBVIOUS
    <2>. HIDE DEF Solves
    <2>. QED  BY <2>1
  <1>2. ASSUME NEW m \in T
        PROVE  m + 1 \in T
    <2>1. PICK f : Solves(f, m)
      OBVIOUS
    <2>. DEFINE g == [i \in 1 .. m + 1 |-> IF i =< m THEN f[i]
                                           ELSE LeftStep(q, f, i)]
    <2>2. \A i \in 1 .. m + 1 : LeftStep(q, g, i) = LeftStep(q, f, i)
      BY DEF LeftStep
    <2>3. \A i \in 1 .. m : f[i] = LeftStep(q, f, i)
      BY <2>1
    <2>4. Solves(g, m + 1)
      BY <2>2, <2>3
    <2>5. \E h : Solves(h, m + 1)
      <3>. HIDE DEF g, Solves
      <3>. QED  BY <2>4
    <2>. HIDE DEF Solves
    <2>. QED  BY <2>5
  <1>3. T \subseteq Nat
    OBVIOUS
  <1>4. T = Nat
    <2>. HIDE DEF T
    <2>. QED  BY <1>1, <1>2, <1>3, SetInduction
  <1>. QED  BY <1>4

LEMMA LeftUnfold ==
  ASSUME NEW q, IsList(q)
  PROVE  \A i \in 1 .. Len(q) : Left(q)[i] = LeftStep(q, Left(q), i)
  <1>. DEFINE n == Len(q)
  <1>1. n \in Nat
    BY ListTypes
  <1>2. \E f : f = [i \in 1 .. n |-> LeftStep(q, f, i)]
    <2>. HIDE DEF n
    <2>. QED  BY <1>1, LeftExists
  <1>. DEFINE l == Left(q)
  <1>3. l = [i \in 1 .. Len(q) |-> LeftStep(q, l, i)]
    BY <1>2 DEF Left, LeftStep
  <1>. HIDE DEF l
  <1>4. \A i \in 1 .. Len(q) : l[i] = LeftStep(q, l, i)
    BY <1>3
  <1>. QED  BY <1>4 DEF l

(* The solution is the only one.                                           *)
LEMMA LeftUnique ==
  ASSUME NEW q, IsList(q), NEW g,
         \A i \in 1 .. Len(q) : g[i] = LeftStep(q, g, i)
  PROVE  \A i \in 1 .. Len(q) : Left(q)[i] = g[i]
  <1>. DEFINE l == Left(q)
              T == {n \in Nat : n + 1 =< Len(q) => l[n + 1] = g[n + 1]}
  <1>1. Len(q) \in Nat
    BY ListTypes
  <1>2. \A i \in 1 .. Len(q) : l[i] = LeftStep(q, l, i)
    BY LeftUnfold
  <1>. HIDE DEF l
  <1>3. 0 \in T
    <2>1. 1 =< Len(q) => 1 \in 1 .. Len(q)
      BY <1>1
    <2>. QED  BY <1>2, <2>1 DEF LeftStep
  <1>4. ASSUME NEW n \in T
        PROVE  n + 1 \in T
    <2>. SUFFICES ASSUME (n + 1) + 1 =< Len(q)
                  PROVE  l[(n + 1) + 1] = g[(n + 1) + 1]
      OBVIOUS
    <2>1. (n + 1) + 1 \in 1 .. Len(q) /\ ((n + 1) + 1) - 1 = n + 1
      BY <1>1
    <2>2. l[n + 1] = g[n + 1]
      BY <1>1
    <2>. QED  BY <1>2, <2>1, <2>2 DEF LeftStep
  <1>5. T \subseteq Nat
    OBVIOUS
  <1>6. T = Nat
    <2>. HIDE DEF T
    <2>. QED  BY <1>3, <1>4, <1>5, SetInduction
  <1>7. ASSUME NEW i \in 1 .. Len(q)
        PROVE  l[i] = g[i]
    <2>1. i - 1 \in T
      <3>. HIDE DEF T
      <3>. QED  BY <1>1, <1>6
    <2>2. (i - 1) + 1 = i /\ i =< Len(q)
      BY <1>1
    <2>. QED  BY <2>1, <2>2
  <1>. QED  BY <1>7 DEF l

LEMMA LeftTypes ==
  ASSUME NEW q, IsList(q)
  PROVE  \A i \in 1 .. Len(q) : Left(q)[i] \in Int
  <1>. DEFINE l == Left(q)
              T == {n \in Nat : n + 1 =< Len(q) => l[n + 1] \in Int}
  <1>1. Len(q) \in Nat /\ \A i \in 1 .. Len(q) : q[i].time \in Int
    BY ListTypes
  <1>2. \A i \in 1 .. Len(q) : l[i] = LeftStep(q, l, i)
    BY LeftUnfold
  <1>. HIDE DEF l
  <1>3. 0 \in T
    <2>1. 1 =< Len(q) => 1 \in 1 .. Len(q)
      BY <1>1
    <2>. QED  BY <1>1, <1>2, <2>1 DEF LeftStep
  <1>4. ASSUME NEW n \in T
        PROVE  n + 1 \in T
    <2>. SUFFICES ASSUME (n + 1) + 1 =< Len(q)
                  PROVE  l[(n + 1) + 1] \in Int
      OBVIOUS
    <2>1. (n + 1) + 1 \in 1 .. Len(q) /\ ((n + 1) + 1) - 1 = n + 1
      BY <1>1
    <2>2. l[n + 1] \in Int
      BY <1>1
    <2>. QED  BY <1>1, <1>2, <2>1, <2>2 DEF LeftStep, Max0
  <1>5. T \subseteq Nat
    OBVIOUS
  <1>6. T = Nat
    <2>. HIDE DEF T
    <2>. QED  BY <1>3, <1>4, <1>5, SetInduction
  <1>7. ASSUME NEW i \in 1 .. Len(q)
        PROVE  l[i] \in Int
    <2>1. i - 1 \in T
      <3>. HIDE DEF T
      <3>. QED  BY <1>1, <1>6
    <2>2. (i - 1) + 1 = i /\ i =< Len(q)
      BY <1>1
    <2>. QED  BY <2>1, <2>2
  <1>. QED  BY <1>7 DEF l

(* The ticks that the entries before i have left together.                 *)
Ahead(q, i) == IF i = 1 THEN 0 ELSE Max0(Left(q)[i - 1])

LEMMA LeftAhead ==
  ASSUME NEW q, IsList(q), Ordered(q), NEW i \in 1 .. Len(q)
  PROVE  /\ Left(q)[i] \in Int /\ q[i].time \in Int /\ Ahead(q, i) \in Nat
         /\ Left(q)[i] = IF q[i].time < 0 THEN q[i].time
                         ELSE Ahead(q, i) + q[i].time
         /\ q[i].time < 0 => Ahead(q, i) = 0
         /\ Ahead(q, i + 1) = Ahead(q, i) + Max0(q[i].time)
  <1>. DEFINE l == Left(q)
  <1>1. /\ Len(q) \in Nat
        /\ \A j \in 1 .. Len(q) : q[j].time \in Int /\ l[j] \in Int
        /\ \A j \in 1 .. Len(q) : l[j] = LeftStep(q, l, j)
    BY ListTypes, LeftTypes, LeftUnfold
  <1>2. /\ Ahead(q, i) = IF i = 1 THEN 0 ELSE Max0(l[i - 1])
        /\ Ahead(q, i + 1) = Max0(l[i])
    BY DEF Ahead
  <1>. HIDE DEF l
  <1>3. Ahead(q, i) \in Nat
    <2>1. i = 1 \/ i - 1 \in 1 .. Len(q)
      BY <1>1
    <2>. QED  BY <1>1, <1>2, <2>1 DEF Max0
  <1>4. l[i] = IF q[i].time < 0 THEN q[i].time ELSE Ahead(q, i) + q[i].time
    BY <1>1, <1>2 DEF LeftStep
  <1>5. q[i].time < 0 => Ahead(q, i) = 0
    <2>. SUFFICES ASSUME q[i].time < 0, i # 1
                  PROVE  Max0(l[i - 1]) = 0
      BY <1>2
    <2>1. i - 1 \in 1 .. Len(q) /\ i - 1 < i
      BY <1>1
    <2>2. q[i - 1].time =< q[i].time
      BY <2>1 DEF Ordered
    <2>3. l[i - 1] = q[i - 1].time
      BY <1>1, <2>1, <2>2 DEF LeftStep
    <2>. QED  BY <1>1, <2>1, <2>2, <2>3 DEF Max0
  <1>6. Ahead(q, i + 1) = Ahead(q, i) + Max0(q[i].time)
    BY <1>1, <1>2, <1>3, <1>4, <1>5 DEF Max0
  <1>. QED  BY <1>1, <1>3, <1>4, <1>5, <1>6 DEF l

(* A tick reaches the entries with nothing ahead of them.                  *)
LEMMA HitAhead ==
  ASSUME NEW q, IsList(q), Ordered(q)
  PROVE  \A i \in 1 .. Len(q) : Hit(q, i) <=> Ahead(q, i) = 0
  <1>. DEFINE T == {n \in Nat : n + 1 =< Len(q) =>
                      (Hit(q, n + 1) <=> Ahead(q, n + 1) = 0)}
  <1>1. Len(q) \in Nat
    BY ListTypes
  <1>2. 0 \in T
    BY DEF Hit, Ahead
  <1>3. ASSUME NEW n \in T
        PROVE  n + 1 \in T
    <2>. SUFFICES ASSUME (n + 1) + 1 =< Len(q)
                  PROVE  Hit(q, (n + 1) + 1) <=> Ahead(q, (n + 1) + 1) = 0
      OBVIOUS
    <2>1. n + 1 \in 1 .. Len(q) /\ (Hit(q, n + 1) <=> Ahead(q, n + 1) = 0)
      BY <1>1
    <2>2. Hit(q, (n + 1) + 1) <=> Hit(q, n + 1) /\ q[n + 1].time =< 0
      <3>1. 1 .. ((n + 1) + 1) - 1 = (1 .. (n + 1) - 1) \union {n + 1}
        OBVIOUS
      <3>. QED  BY <3>1 DEF Hit
    <2>3. /\ q[n + 1].time \in Int /\ Ahead(q, n + 1) \in Nat
          /\ Ahead(q, (n + 1) + 1) = Ahead(q, n + 1) + Max0(q[n + 1].time)
      BY <2>1, LeftAhead
    <2>. QED  BY <2>1, <2>2, <2>3 DEF Max0
  <1>4. T \subseteq Nat
    OBVIOUS
  <1>5. T = Nat
    <2>. HIDE DEF T
    <2>. QED  BY <1>2, <1>3, <1>4, SetInduction
  <1>6. ASSUME NEW i \in 1 .. Len(q)
        PROVE  Hit(q, i) <=> Ahead(q, i) = 0
    <2>1. i - 1 \in T
      <3>. HIDE DEF T
      <3>. QED  BY <1>1, <1>5
    <2>2. (i - 1) + 1 = i /\ i =< Len(q)
      BY <1>1
    <2>. QED  BY <2>1, <2>2
  <1>. QED  BY <1>6

(* The list is in the order of the deadlines.                              *)
LEMMA LeftSorted ==
  ASSUME NEW q, IsList(q), Ordered(q)
  PROVE  \A i, j \in 1 .. Len(q) : i =< j => Left(q)[i] =< Left(q)[j]
  <1>. DEFINE l == Left(q)
  <1>1. Len(q) \in Nat
    BY ListTypes
  <1>2. \A i \in 1 .. Len(q) : l[i] \in Int
    BY LeftTypes
  <1>3. ASSUME NEW i \in 1 .. Len(q), i + 1 =< Len(q)
        PROVE  l[i] =< l[i + 1]
    <2>1. i + 1 \in 1 .. Len(q) /\ i < i + 1
      BY <1>1, <1>3
    <2>2. /\ q[i].time \in Int /\ q[i + 1].time \in Int /\ l[i] \in Int
          /\ l[i + 1] = IF q[i + 1].time < 0 THEN q[i + 1].time
                        ELSE Ahead(q, i + 1) + q[i + 1].time
          /\ q[i].time < 0 => l[i] = q[i].time
      BY <2>1, LeftAhead
    <2>3. Ahead(q, i + 1) = Max0(l[i])
      BY DEF Ahead
    <2>4. q[i + 1].time < 0 => q[i].time =< q[i + 1].time
      BY <2>1 DEF Ordered
    <2>. HIDE DEF l
    <2>. QED  BY <2>2, <2>3, <2>4 DEF Max0
  <1>. HIDE DEF l
  <1>4. ASSUME NEW i \in 1 .. Len(q), NEW j \in 1 .. Len(q), i =< j
        PROVE  l[i] =< l[j]
    <2>. DEFINE T == {n \in Nat : i + n =< Len(q) => l[i] =< l[i + n]}
    <2>1. 0 \in T
      BY <1>1, <1>2
    <2>2. ASSUME NEW n \in T
          PROVE  n + 1 \in T
      <3>. SUFFICES ASSUME i + (n + 1) =< Len(q)
                    PROVE  l[i] =< l[i + (n + 1)]
        OBVIOUS
      <3>1. /\ i + n \in 1 .. Len(q) /\ (i + n) + 1 =< Len(q)
            /\ (i + n) + 1 \in 1 .. Len(q)
            /\ i + (n + 1) = (i + n) + 1
        BY <1>1
      <3>2. l[i + n] =< l[(i + n) + 1]
        BY <1>3, <3>1
      <3>3. l[i] =< l[i + n]
        BY <1>1
      <3>. QED  BY <1>2, <3>1, <3>2, <3>3
    <2>3. T \subseteq Nat
      OBVIOUS
    <2>4. T = Nat
      <3>. HIDE DEF T
      <3>. QED  BY <2>1, <2>2, <2>3, SetInduction
    <2>5. j - i \in T
      <3>. HIDE DEF T
      <3>. QED  BY <1>1, <1>4, <2>4
    <2>6. i + (j - i) = j /\ j =< Len(q)
      BY <1>1
    <2>. QED  BY <2>5, <2>6
  <1>. QED  BY <1>4 DEF l

(* The walk of timeout takes away what is ahead.                           *)
LEMMA RestAhead ==
  ASSUME NEW q, IsList(q), Ordered(q), NEW t \in Int
  PROVE  \A i \in 1 .. Len(q) + 1 : Rest(q, t)[i] = t - Ahead(q, i)
  <1>. DEFINE r == Rest(q, t)
              T == {n \in Nat : n =< Len(q) => r[n + 1] = t - Ahead(q, n + 1)}
  <1>1. Len(q) \in Nat
    BY ListTypes
  <1>2. /\ r[1] = t
        /\ \A i \in 1 .. Len(q) : r[i + 1] = r[i] - Max0(q[i].time)
    BY RestUnfold
  <1>. HIDE DEF r
  <1>3. 0 \in T
    BY <1>2 DEF Ahead
  <1>4. ASSUME NEW n \in T
        PROVE  n + 1 \in T
    <2>. SUFFICES ASSUME n + 1 =< Len(q)
                  PROVE  r[(n + 1) + 1] = t - Ahead(q, (n + 1) + 1)
      OBVIOUS
    <2>1. n + 1 \in 1 .. Len(q) /\ r[n + 1] = t - Ahead(q, n + 1)
      BY <1>1
    <2>2. /\ q[n + 1].time \in Int /\ Ahead(q, n + 1) \in Nat
          /\ Ahead(q, (n + 1) + 1) = Ahead(q, n + 1) + Max0(q[n + 1].time)
      BY <2>1, LeftAhead
    <2>3. r[(n + 1) + 1] = r[n + 1] - Max0(q[n + 1].time)
      BY <1>2, <2>1
    <2>. QED  BY <2>1, <2>2, <2>3 DEF Max0
  <1>5. T \subseteq Nat
    OBVIOUS
  <1>6. T = Nat
    <2>. HIDE DEF T
    <2>. QED  BY <1>3, <1>4, <1>5, SetInduction
  <1>7. ASSUME NEW i \in 1 .. Len(q) + 1
        PROVE  r[i] = t - Ahead(q, i)
    <2>1. i - 1 \in T
      <3>. HIDE DEF T
      <3>. QED  BY <1>1, <1>6
    <2>2. (i - 1) + 1 = i /\ i - 1 =< Len(q)
      BY <1>1
    <2>. QED  BY <2>1, <2>2
  <1>. QED  BY <1>7 DEF r

-----------------------------------------------------------------------------
(* What each change of the list does to the ticks that are left.           *)
LEMMA DecrementedLeft ==
  ASSUME NEW q, IsList(q), Ordered(q)
  PROVE  \A i \in 1 .. Len(q) : Left(Decremented(q))[i] = Left(q)[i] - 1
  <1>. DEFINE d == Decremented(q)
              g == [i \in 1 .. Len(q) |-> Left(q)[i] - 1]
  <1>1. /\ IsList(d) /\ Len(d) = Len(q) /\ Len(q) \in Nat
        /\ \A i \in 1 .. Len(q) :
             /\ Hit(q, i) => d[i].time = q[i].time - 1
             /\ ~Hit(q, i) => d[i].time = q[i].time
    BY DecrementedList, ListTypes
  <1>. HIDE DEF d
  <1>2. ASSUME NEW i \in 1 .. Len(q)
        PROVE  g[i] = LeftStep(d, g, i)
    <2>1. /\ Left(q)[i] \in Int /\ q[i].time \in Int /\ Ahead(q, i) \in Nat
          /\ Left(q)[i] = IF q[i].time < 0 THEN q[i].time
                          ELSE Ahead(q, i) + q[i].time
          /\ q[i].time < 0 => Ahead(q, i) = 0
          /\ Hit(q, i) <=> Ahead(q, i) = 0
      BY LeftAhead, HitAhead
    <2>2. CASE i = 1
      <3>1. Ahead(q, i) = 0
        BY <2>2 DEF Ahead
      <3>2. d[i].time = q[i].time - 1
        BY <1>1, <2>1, <3>1
      <3>. QED  BY <2>1, <2>2, <3>1, <3>2 DEF LeftStep
    <2>3. CASE i # 1
      <3>1. /\ Ahead(q, i) = Max0(Left(q)[i - 1])
            /\ i - 1 \in 1 .. Len(q)
        BY <1>1, <2>3 DEF Ahead
      <3>2. Left(q)[i - 1] \in Int /\ g[i - 1] = Left(q)[i - 1] - 1
        BY <3>1, LeftTypes
      <3>3. CASE Ahead(q, i) = 0
        BY <1>1, <2>1, <2>3, <3>1, <3>2, <3>3 DEF LeftStep, Max0
      <3>4. CASE Ahead(q, i) # 0
        <4>1. d[i].time = q[i].time /\ ~(d[i].time < 0)
          BY <1>1, <2>1, <3>4
        <4>2. Max0(Left(q)[i - 1] - 1) = Left(q)[i - 1] - 1
          BY <3>1, <3>2, <3>4 DEF Max0
        <4>3. LeftStep(d, g, i) = Max0(g[i - 1]) + d[i].time
          BY <2>3, <4>1 DEF LeftStep
        <4>4. g[i] = Left(q)[i] - 1
          OBVIOUS
        <4>5. Max0(Left(q)[i - 1]) = Left(q)[i - 1]
          BY <3>1, <3>2, <3>4 DEF Max0
        <4>. HIDE DEF g
        <4>. QED  BY <2>1, <3>1, <3>2, <4>1, <4>2, <4>3, <4>4, <4>5
      <3>. QED  BY <3>3, <3>4
    <2>. QED  BY <2>2, <2>3
  <1>3. \A i \in 1 .. Len(d) : Left(d)[i] = g[i]
    <2>. HIDE DEF g
    <2>. QED  BY <1>1, <1>2, LeftUnique
  <1>. QED  BY <1>1, <1>3 DEF d

LEMMA TailLeft ==
  ASSUME NEW q, IsList(q), Ordered(q), Due(q)
  PROVE  \A i \in 1 .. Len(q) - 1 : Left(Tail(q))[i] = Left(q)[i + 1]
  <1>. DEFINE d == Tail(q)
              g == [i \in 1 .. Len(q) - 1 |-> Left(q)[i + 1]]
  <1>1. /\ IsList(d) /\ Len(d) = Len(q) - 1 /\ Len(q) \in Nat
        /\ 1 \in 1 .. Len(q)
        /\ \A i \in 1 .. Len(q) - 1 : d[i] = q[i + 1]
    BY TailList, ListTypes DEF Due
  <1>. HIDE DEF d
  <1>2. ASSUME NEW i \in 1 .. Len(d)
        PROVE  g[i] = LeftStep(d, g, i)
    <2>1. i + 1 \in 1 .. Len(q) /\ d[i] = q[i + 1] /\ g[i] = Left(q)[i + 1]
      BY <1>1
    <2>2. Left(q)[i + 1] = LeftStep(q, Left(q), i + 1)
      BY <2>1, LeftUnfold
    <2>3. CASE i = 1
      <3>1. Ahead(q, 1) = 0 /\ Ahead(q, 1 + 1) = Max0(Left(q)[1])
        BY DEF Ahead
      <3>2. Ahead(q, 1 + 1) = Ahead(q, 1) + Max0(q[1].time)
        BY <1>1, LeftAhead
      <3>3. Max0(Left(q)[1]) = 0 /\ q[i + 1].time \in Int
        BY <2>1, <3>1, <3>2, ListTypes DEF Max0, Due
      <3>. QED  BY <2>1, <2>2, <2>3, <3>3 DEF LeftStep
    <2>4. CASE i # 1
      <3>1. i - 1 \in 1 .. Len(q) - 1 /\ (i - 1) + 1 = i /\ (i + 1) - 1 = i
        BY <1>1, <2>4
      <3>2. g[i - 1] = Left(q)[i]
        BY <3>1
      <3>. HIDE DEF g
      <3>. QED  BY <2>1, <2>2, <2>4, <3>1, <3>2 DEF LeftStep
    <2>. QED  BY <2>3, <2>4
  <1>3. \A i \in 1 .. Len(d) : Left(d)[i] = g[i]
    <2>. HIDE DEF g
    <2>. QED  BY <1>1, <1>2, LeftUnique
  <1>. QED  BY <1>1, <1>3 DEF d

LEMMA RemovedLeft ==
  ASSUME NEW q, IsList(q), Ordered(q), NEW k \in 1 .. Len(q)
  PROVE  \A i \in 1 .. Len(q) - 1 :
           Left(RemovedAt(q, k))[i]
             = IF i < k THEN Left(q)[i] ELSE Left(q)[i + 1]
  <1>. DEFINE d == RemovedAt(q, k)
              g == [i \in 1 .. Len(q) - 1 |->
                      IF i < k THEN Left(q)[i] ELSE Left(q)[i + 1]]
  <1>1. /\ IsList(d) /\ Len(d) = Len(q) - 1 /\ Len(q) \in Nat
        /\ \A i \in 1 .. Len(q) - 1 :
             /\ i < k => d[i] = q[i]
             /\ i = k => d[i].time = q[k + 1].time + Max0(q[k].time)
             /\ i > k => d[i] = q[i + 1]
    BY RemovedList, ListTypes
  <1>. HIDE DEF d
  <1>2. ASSUME NEW i \in 1 .. Len(d)
        PROVE  g[i] = LeftStep(d, g, i)
    <2>1. /\ i \in 1 .. Len(q) - 1 /\ i \in 1 .. Len(q)
          /\ i + 1 \in 1 .. Len(q)
      BY <1>1
    <2>2. i = 1 \/ (i - 1 \in 1 .. Len(q) - 1 /\ i - 1 < i)
      BY <2>1
    <2>3. CASE i < k
      <3>1. d[i] = q[i] /\ g[i] = Left(q)[i] /\ i - 1 < k
        BY <1>1, <2>1, <2>3
      <3>2. i # 1 => g[i - 1] = Left(q)[i - 1]
        BY <2>2, <3>1
      <3>3. Left(q)[i] = LeftStep(q, Left(q), i)
        BY <2>1, LeftUnfold
      <3>. HIDE DEF g
      <3>. QED  BY <3>1, <3>2, <3>3 DEF LeftStep
    <2>4. CASE i = k
      <3>1. /\ d[i].time = q[i + 1].time + Max0(q[i].time)
            /\ g[i] = Left(q)[i + 1]
        BY <1>1, <2>1, <2>4
      <3>2. i # 1 => g[i - 1] = Left(q)[i - 1]
        BY <2>2, <2>4
      <3>3. Ahead(q, i) = IF i = 1 THEN 0 ELSE Max0(Left(q)[i - 1])
        BY DEF Ahead
      <3>4. /\ q[i].time \in Int /\ q[i + 1].time \in Int
            /\ Ahead(q, i) \in Nat
            /\ Ahead(q, i + 1) = Ahead(q, i) + Max0(q[i].time)
            /\ q[i].time < 0 => Ahead(q, i) = 0
            /\ q[i + 1].time < 0 => Ahead(q, i + 1) = 0
            /\ Left(q)[i + 1] = IF q[i + 1].time < 0 THEN q[i + 1].time
                                ELSE Ahead(q, i + 1) + q[i + 1].time
        BY <2>1, LeftAhead
      <3>. HIDE DEF g
      <3>5. CASE i = 1
        BY <3>1, <3>3, <3>4, <3>5 DEF LeftStep, Max0
      <3>6. CASE i # 1
        <4>1. LeftStep(d, g, i) = IF d[i].time < 0 THEN d[i].time
                                  ELSE Ahead(q, i) + d[i].time
          BY <3>2, <3>3, <3>6 DEF LeftStep
        <4>. QED  BY <3>1, <3>4, <4>1 DEF Max0
      <3>. QED  BY <3>5, <3>6
    <2>5. CASE i > k
      <3>1. /\ d[i] = q[i + 1] /\ g[i] = Left(q)[i + 1] /\ ~(i - 1 < k)
            /\ i # 1 /\ (i - 1) + 1 = i /\ (i + 1) - 1 = i
        BY <1>1, <2>1, <2>5
      <3>2. g[i - 1] = Left(q)[i]
        BY <2>2, <3>1
      <3>3. Left(q)[i + 1] = LeftStep(q, Left(q), i + 1)
        BY <2>1, LeftUnfold
      <3>. HIDE DEF g
      <3>. QED  BY <2>1, <3>1, <3>2, <3>3 DEF LeftStep
    <2>. QED  BY <2>1, <2>3, <2>4, <2>5
  <1>3. \A i \in 1 .. Len(d) : Left(d)[i] = g[i]
    <2>. HIDE DEF g
    <2>. QED  BY <1>1, <1>2, LeftUnique
  <1>. QED  BY <1>1, <1>3 DEF d

LEMMA InsertedLeft ==
  ASSUME NEW q, IsList(q), Ordered(q), NEW p \in 1 .. Len(q) + 1,
         NEW f \in Funs, NEW t \in Nat \ {0}, NEW r \in Int,
         r = t - Ahead(q, p), r > 0, p =< Len(q) => q[p].time >= r
  PROVE  \A i \in 1 .. Len(q) + 1 :
           Left(InsertedAt(q, p, f, r))[i]
             = IF i < p THEN Left(q)[i]
               ELSE IF i = p THEN t ELSE Left(q)[i - 1]
  <1>. DEFINE d == InsertedAt(q, p, f, r)
              g == [i \in 1 .. Len(q) + 1 |->
                      IF i < p THEN Left(q)[i]
                      ELSE IF i = p THEN t ELSE Left(q)[i - 1]]
  <1>1. /\ IsList(d) /\ Len(d) = Len(q) + 1 /\ Len(q) \in Nat
        /\ \A i \in 1 .. Len(q) + 1 :
             /\ i < p => d[i] = q[i]
             /\ i = p => d[i] = [fun |-> f, time |-> r]
             /\ i = p + 1 => d[i].time = q[p].time - r
             /\ i > p + 1 => d[i] = q[i - 1]
    BY InsertedAtList, ListTypes
  <1>. HIDE DEF d
  <1>2. ASSUME NEW i \in 1 .. Len(d)
        PROVE  g[i] = LeftStep(d, g, i)
    <2>1. i \in 1 .. Len(q) + 1
      BY <1>1
    <2>2. i = 1 \/ (i - 1 \in 1 .. Len(q) + 1 /\ i - 1 < i)
      BY <2>1
    <2>3. CASE i < p
      <3>1. /\ d[i] = q[i] /\ g[i] = Left(q)[i] /\ i - 1 < p
            /\ i \in 1 .. Len(q)
        BY <1>1, <2>1, <2>3
      <3>2. i # 1 => g[i - 1] = Left(q)[i - 1]
        BY <2>2, <3>1
      <3>3. Left(q)[i] = LeftStep(q, Left(q), i)
        BY <3>1, LeftUnfold
      <3>. HIDE DEF g
      <3>. QED  BY <3>1, <3>2, <3>3 DEF LeftStep
    <2>4. CASE i = p
      <3>1. d[i].time = r /\ g[i] = t
        BY <1>1, <2>1, <2>4
      <3>2. i # 1 => g[i - 1] = Left(q)[i - 1]
        BY <2>2, <2>4
      <3>3. Ahead(q, i) = IF i = 1 THEN 0 ELSE Max0(Left(q)[i - 1])
        BY DEF Ahead
      <3>4. i # 1 => Left(q)[i - 1] \in Int
        <4>1. i # 1 => i - 1 \in 1 .. Len(q)
          BY <1>1, <2>1
        <4>. QED  BY <4>1, LeftTypes
      <3>. HIDE DEF g
      <3>. QED  BY <2>4, <3>1, <3>2, <3>3, <3>4 DEF LeftStep, Max0
    <2>5. CASE i = p + 1
      <3>1. /\ d[i].time = q[p].time - r /\ p \in 1 .. Len(q)
            /\ i # 1 /\ i - 1 = p
        BY <1>1, <2>1, <2>5
      <3>2. g[i] = Left(q)[p] /\ g[i - 1] = t
        BY <2>1, <2>5, <3>1
      <3>3. /\ q[p].time \in Int /\ Ahead(q, p) \in Nat
            /\ Left(q)[p] = IF q[p].time < 0 THEN q[p].time
                            ELSE Ahead(q, p) + q[p].time
        BY <3>1, LeftAhead
      <3>4. LeftStep(d, g, i) = IF d[i].time < 0 THEN d[i].time
                                ELSE Max0(t) + d[i].time
        BY <3>1, <3>2 DEF LeftStep
      <3>. HIDE DEF g
      <3>. QED  BY <3>1, <3>2, <3>3, <3>4 DEF Max0
    <2>6. CASE i > p + 1
      <3>1. /\ d[i] = q[i - 1] /\ i - 1 \in 1 .. Len(q) /\ i # 1 /\ i - 1 # 1
            /\ i - 1 > p
        BY <1>1, <2>1, <2>6
      <3>2. g[i] = Left(q)[i - 1] /\ g[i - 1] = Left(q)[(i - 1) - 1]
        BY <2>1, <2>2, <2>6, <3>1
      <3>3. Left(q)[i - 1] = LeftStep(q, Left(q), i - 1)
        BY <3>1, LeftUnfold
      <3>. HIDE DEF g
      <3>. QED  BY <3>1, <3>2, <3>3 DEF LeftStep
    <2>. QED  BY <1>1, <2>1, <2>3, <2>4, <2>5, <2>6
  <1>3. \A i \in 1 .. Len(d) : Left(d)[i] = g[i]
    <2>. HIDE DEF g
    <2>. QED  BY <1>1, <1>2, LeftUnique
  <1>. QED  BY <1>1, <1>3 DEF d

-----------------------------------------------------------------------------
(* Bags of the elements of a function on 1 .. n: how often each occurs,    *)
(* and what one element more or less does to the bag.                      *)
Places(s, y) == {i \in DOMAIN s : s[i] = y}

LEMMA BijectionCount ==
  ASSUME NEW S, NEW T, IsFiniteSet(S), NEW f \in [S -> T],
         \A a, b \in S : f[a] = f[b] => a = b,
         \A t \in T : \E a \in S : f[a] = t
  PROVE  IsFiniteSet(T) /\ Cardinality(T) = Cardinality(S)
  <1>1. f \in Bijection(S, T)
    BY Fun_IsBij
  <1>2. ExistsBijection(S, T)
    BY <1>1 DEF ExistsBijection
  <1>. QED  BY <1>2, FS_Bijection

LEMMA PlacesFinite ==
  ASSUME NEW s, NEW n \in Nat, DOMAIN s = 1 .. n, NEW y
  PROVE  /\ IsFiniteSet(Places(s, y))
         /\ Cardinality(Places(s, y)) \in Nat
         /\ Cardinality(Places(s, y)) = 0 <=> y \notin Range(s)
         /\ Places(s, y) \subseteq 1 .. n
  <1>1. Places(s, y) \in SUBSET (1 .. n)
    BY DEF Places
  <1>2. IsFiniteSet(1 .. n)
    BY FS_Interval
  <1>3. IsFiniteSet(Places(s, y))
    BY <1>1, <1>2, FS_Subset
  <1>4. Places(s, y) = {} <=> y \notin Range(s)
    BY DEF Places, Range
  <1>. QED  BY <1>1, <1>3, <1>4, FS_CardinalityType, FS_EmptySet

(* u is s with x put in at place p.                                        *)
Spliced(s, u, n, p, x) ==
  /\ n \in Nat /\ p \in 1 .. n + 1
  /\ DOMAIN s = 1 .. n /\ DOMAIN u = 1 .. n + 1
  /\ \A i \in 1 .. n : /\ i < p => u[i] = s[i]
                       /\ i >= p => u[i + 1] = s[i]
  /\ u[p] = x

LEMMA SplicedCount ==
  ASSUME NEW s, NEW u, NEW n, NEW p, NEW x, Spliced(s, u, n, p, x), NEW y
  PROVE  Cardinality(Places(u, y)) =
           Cardinality(Places(s, y)) + IF y = x THEN 1 ELSE 0
  <1>. DEFINE S == Places(s, y)
              T == Places(u, y) \ {p}
              f == [i \in S |-> IF i < p THEN i ELSE i + 1]
  <1>1. /\ n \in Nat /\ p \in 1 .. n + 1
        /\ DOMAIN s = 1 .. n /\ DOMAIN u = 1 .. n + 1
        /\ \A i \in 1 .. n : /\ i < p => u[i] = s[i]
                             /\ i >= p => u[i + 1] = s[i]
        /\ u[p] = x
    BY DEF Spliced
  <1>2. /\ IsFiniteSet(S) /\ S \subseteq 1 .. n /\ IsFiniteSet(Places(u, y))
        /\ Cardinality(S) \in Nat /\ Cardinality(Places(u, y)) \in Nat
    BY <1>1, PlacesFinite
  <1>3. f \in [S -> T]
    <2>. SUFFICES ASSUME NEW i \in S
                  PROVE  (IF i < p THEN i ELSE i + 1) \in T
      OBVIOUS
    <2>1. i \in 1 .. n /\ s[i] = y
      BY <1>1 DEF Places
    <2>2. CASE i < p
      BY <1>1, <2>1, <2>2 DEF Places
    <2>3. CASE ~(i < p)
      <3>1. i >= p /\ i + 1 \in 1 .. n + 1 /\ i + 1 # p
        BY <1>1, <2>1, <2>3
      <3>. QED  BY <1>1, <2>1, <2>3, <3>1 DEF Places
    <2>. QED  BY <2>2, <2>3
  <1>4. \A a, b \in S : f[a] = f[b] => a = b
    BY <1>1, <1>2
  <1>5. ASSUME NEW t \in T
        PROVE  \E a \in S : f[a] = t
    <2>1. t \in 1 .. n + 1 /\ u[t] = y /\ t # p
      BY <1>1 DEF Places
    <2>2. CASE t < p
      <3>1. t \in 1 .. n /\ s[t] = y
        BY <1>1, <2>1, <2>2
      <3>2. t \in S
        BY <1>1, <3>1 DEF Places
      <3>. QED  BY <2>2, <3>2
    <2>3. CASE t > p
      <3>1. t - 1 \in 1 .. n /\ t - 1 >= p /\ (t - 1) + 1 = t
        BY <1>1, <2>1, <2>3
      <3>2. s[t - 1] = y
        BY <1>1, <2>1, <3>1
      <3>3. t - 1 \in S
        BY <1>1, <3>1, <3>2 DEF Places
      <3>4. f[t - 1] = t
        BY <1>1, <3>1, <3>3
      <3>. QED  BY <3>3, <3>4
    <2>. QED  BY <1>1, <2>1, <2>2, <2>3
  <1>6. Cardinality(T) = Cardinality(S)
    <2>. HIDE DEF S, T, f
    <2>. QED  BY <1>2, <1>3, <1>4, <1>5, BijectionCount
  <1>7. /\ Cardinality(T) = IF p \in Places(u, y)
                            THEN Cardinality(Places(u, y)) - 1
                            ELSE Cardinality(Places(u, y))
        /\ p \in Places(u, y) <=> y = x
    BY <1>1, <1>2, FS_RemoveElement DEF Places
  <1>. QED  BY <1>2, <1>6, <1>7

LEMMA SplicedRange ==
  ASSUME NEW s, NEW u, NEW n, NEW p, NEW x, Spliced(s, u, n, p, x)
  PROVE  Range(u) = Range(s) \union {x}
  <1>1. /\ n \in Nat /\ p \in 1 .. n + 1
        /\ DOMAIN s = 1 .. n /\ DOMAIN u = 1 .. n + 1
        /\ \A i \in 1 .. n : /\ i < p => u[i] = s[i]
                             /\ i >= p => u[i + 1] = s[i]
        /\ u[p] = x
    BY DEF Spliced
  <1>2. ASSUME NEW i \in 1 .. n
        PROVE  s[i] \in Range(u)
    <2>1. i \in 1 .. n + 1 /\ i + 1 \in 1 .. n + 1
      BY <1>1
    <2>. QED  BY <1>1, <2>1 DEF Range
  <1>3. ASSUME NEW i \in 1 .. n + 1
        PROVE  u[i] \in Range(s) \union {x}
    <2>1. CASE i < p
      BY <1>1, <2>1 DEF Range
    <2>2. CASE i > p
      <3>1. i - 1 \in 1 .. n /\ i - 1 >= p /\ (i - 1) + 1 = i
        BY <1>1, <2>2
      <3>2. u[i] = s[i - 1]
        BY <1>1, <3>1
      <3>. QED  BY <1>1, <3>1, <3>2 DEF Range
    <2>. QED  BY <1>1, <2>1, <2>2
  <1>4. x \in Range(u)
    BY <1>1 DEF Range
  <1>. QED  BY <1>1, <1>2, <1>3, <1>4 DEF Range

LEMMA BagOfPlaces ==
  ASSUME NEW s
  PROVE  /\ ToBag(s) = [y \in Range(s) |-> Cardinality(Places(s, y))]
         /\ DOMAIN ToBag(s) = Range(s)
         /\ \A y \in Range(s) : ToBag(s)[y] = Cardinality(Places(s, y))
  BY DEF ToBag, Places

LEMMA SplicedAdd ==
  ASSUME NEW s, NEW u, NEW n, NEW p, NEW x, Spliced(s, u, n, p, x)
  PROVE  ToBag(u) = Queue!BagAdd(ToBag(s), x)
  <1>1. Range(u) = Range(s) \union {x}
    BY SplicedRange
  <1>2. n \in Nat /\ DOMAIN s = 1 .. n
    BY DEF Spliced
  <1>3. \A y : /\ Cardinality(Places(s, y)) \in Nat
               /\ Cardinality(Places(s, y)) = 0 <=> y \notin Range(s)
    BY <1>2, PlacesFinite
  <1>4. \A y : Cardinality(Places(u, y)) =
                 Cardinality(Places(s, y)) + IF y = x THEN 1 ELSE 0
    BY SplicedCount
  <1>5. /\ ToBag(s) = [y \in Range(s) |-> Cardinality(Places(s, y))]
        /\ ToBag(u) = [y \in Range(u) |-> Cardinality(Places(u, y))]
    BY BagOfPlaces
  <1>6. CASE x \in Range(s)
    <2>1. Queue!BagAdd(ToBag(s), x) =
            [y \in Range(s) |-> IF y = x
                                THEN Cardinality(Places(s, y)) + 1
                                ELSE Cardinality(Places(s, y))]
      BY <1>5, <1>6 DEF Queue!BagAdd
    <2>2. Range(u) = Range(s)
      BY <1>1, <1>6
    <2>3. \A y \in Range(s) :
            Cardinality(Places(u, y)) =
              IF y = x THEN Cardinality(Places(s, y)) + 1
              ELSE Cardinality(Places(s, y))
      BY <1>3, <1>4
    <2>. QED  BY <1>5, <2>1, <2>2, <2>3
  <1>7. CASE x \notin Range(s)
    <2>1. Queue!BagAdd(ToBag(s), x) =
            [y \in Range(s) \union {x} |->
               IF y = x THEN 1 ELSE ToBag(s)[y]]
      BY <1>5, <1>7 DEF Queue!BagAdd
    <2>2. \A y \in Range(u) :
            Cardinality(Places(u, y)) =
              IF y = x THEN 1 ELSE ToBag(s)[y]
      BY <1>1, <1>3, <1>4, <1>5, <1>7
    <2>. QED  BY <1>1, <1>5, <2>1, <2>2
  <1>. QED  BY <1>6, <1>7

LEMMA SplicedRemove ==
  ASSUME NEW s, NEW u, NEW n, NEW p, NEW x, Spliced(s, u, n, p, x)
  PROVE  ToBag(s) = Queue!BagRemove(ToBag(u), x)
  <1>1. Range(u) = Range(s) \union {x}
    BY SplicedRange
  <1>2. n \in Nat /\ DOMAIN s = 1 .. n
    BY DEF Spliced
  <1>3. \A y : /\ Cardinality(Places(s, y)) \in Nat
               /\ Cardinality(Places(s, y)) = 0 <=> y \notin Range(s)
    BY <1>2, PlacesFinite
  <1>4. \A y : Cardinality(Places(u, y)) =
                 Cardinality(Places(s, y)) + IF y = x THEN 1 ELSE 0
    BY SplicedCount
  <1>5. /\ ToBag(s) = [y \in Range(s) |-> Cardinality(Places(s, y))]
        /\ ToBag(u) = [y \in Range(u) |-> Cardinality(Places(u, y))]
    BY BagOfPlaces
  <1>6. /\ x \in DOMAIN ToBag(u)
        /\ ToBag(u)[x] = Cardinality(Places(s, x)) + 1
    BY <1>1, <1>4, <1>5
  <1>7. CASE x \in Range(s)
    <2>1. ToBag(u)[x] # 1 /\ Range(u) = Range(s)
      BY <1>1, <1>3, <1>6, <1>7
    <2>2. Queue!BagRemove(ToBag(u), x) =
            [y \in Range(s) |-> IF y = x
                                THEN Cardinality(Places(u, y)) - 1
                                ELSE Cardinality(Places(u, y))]
      BY <1>5, <1>6, <2>1 DEF Queue!BagRemove
    <2>3. \A y \in Range(s) :
            Cardinality(Places(s, y)) =
              IF y = x THEN Cardinality(Places(u, y)) - 1
              ELSE Cardinality(Places(u, y))
      BY <1>3, <1>4
    <2>. QED  BY <1>5, <2>2, <2>3
  <1>8. CASE x \notin Range(s)
    <2>1. ToBag(u)[x] = 1 /\ Range(u) \ {x} = Range(s)
      BY <1>1, <1>3, <1>6, <1>8
    <2>2. Queue!BagRemove(ToBag(u), x) = [y \in Range(s) |-> ToBag(u)[y]]
      BY <1>5, <1>6, <2>1 DEF Queue!BagRemove
    <2>3. \A y \in Range(s) : Cardinality(Places(s, y)) = ToBag(u)[y]
      BY <1>1, <1>3, <1>4, <1>5, <1>8
    <2>. QED  BY <1>5, <2>2, <2>3
  <1>. QED  BY <1>7, <1>8

(* All the events of a bag one tick older.                                 *)
LEMMA AgedBag ==
  ASSUME NEW n \in Nat, NEW s \in [1 .. n -> [fun : Funs, left : Int]],
         NEW u, DOMAIN u = 1 .. n,
         \A i \in 1 .. n : u[i] = [fun |-> s[i].fun, left |-> s[i].left - 1]
  PROVE  ToBag(u) = Queue!Aged(ToBag(s))
  <1>. DEFINE E == [fun : Funs, left : Int]
              Older(e) == [fun |-> e.fun, left |-> e.left - 1]
              Younger(e) == [e EXCEPT !.left = @ + 1]
  <1>1. \A e \in E : /\ [e EXCEPT !.left = @ - 1] = Older(e)
                     /\ Younger(Older(e)) = e
                     /\ Older(e) \in E
    OBVIOUS
  <1>2. Range(s) \subseteq E
    BY DEF Range
  <1>3. {[e EXCEPT !.left = @ - 1] : e \in Range(s)} = Range(u)
    <2>1. \A e \in Range(s) : [e EXCEPT !.left = @ - 1] = Older(e)
      BY <1>1, <1>2
    <2>2. \A i \in 1 .. n : u[i] = Older(s[i])
      OBVIOUS
    <2>. DEFINE Aging(e) == [e EXCEPT !.left = @ - 1]
    <2>3. \A i \in 1 .. n : s[i] \in Range(s) /\ Aging(s[i]) = u[i]
      BY <2>1, <2>2 DEF Range
    <2>. HIDE DEF Aging
    <2>4. {Aging(e) : e \in Range(s)} = Range(u)
      BY <2>3 DEF Range
    <2>. QED  BY <2>4 DEF Aging
  <1>4. ASSUME NEW y \in Range(u)
        PROVE  Younger(y) \in Range(s) /\ Places(u, y) = Places(s, Younger(y))
    <2>1. PICK i \in 1 .. n : y = u[i]
      BY DEF Range
    <2>2. y = Older(s[i]) /\ s[i] \in E
      BY <2>1
    <2>3. Younger(y) = s[i]
      BY <1>1, <2>2
    <2>4. Younger(y) \in Range(s)
      BY <2>3 DEF Range
    <2>5. \A j \in 1 .. n : u[j] = y <=> s[j] = s[i]
      <3>. SUFFICES ASSUME NEW j \in 1 .. n
                    PROVE  u[j] = y <=> s[j] = s[i]
        OBVIOUS
      <3>1. s[j] \in E /\ u[j] = Older(s[j])
        OBVIOUS
      <3>2. Younger(Older(s[j])) = s[j]
        BY <1>1, <3>1
      <3>. HIDE DEF Older, Younger
      <3>. QED  BY <2>2, <2>3, <3>1, <3>2
    <2>. QED  BY <2>3, <2>4, <2>5 DEF Places
  <1>5. Queue!Aged(ToBag(s)) =
          [y \in Range(u) |-> ToBag(s)[Younger(y)]]
    BY <1>3, BagOfPlaces DEF Queue!Aged, Queue!EventsIn
  <1>6. \A y \in Range(u) : ToBag(s)[Younger(y)] = Cardinality(Places(u, y))
    <2>. HIDE DEF Younger
    <2>. QED  BY <1>4, BagOfPlaces
  <1>7. ToBag(u) = [y \in Range(u) |-> Cardinality(Places(u, y))]
    BY BagOfPlaces
  <1>. HIDE DEF Younger
  <1>. QED  BY <1>5, <1>6, <1>7

-----------------------------------------------------------------------------
(* The refinement: what the queue sees of each step.                       *)
Wait == [fun : Funs, left : Int]
Waits(q) == [i \in 1 .. Len(q) |-> [fun |-> q[i].fun, left |-> Left(q)[i]]]

LEMMA PendingWaits ==
  ASSUME NEW q, IsList(q)
  PROVE  /\ Pending(q) = ToBag(Waits(q))
         /\ Waits(q) \in [1 .. Len(q) -> Wait]
         /\ \A i \in 1 .. Len(q) :
              /\ Waits(q)[i] = [fun |-> q[i].fun, left |-> Left(q)[i]]
              /\ Waits(q)[i].fun = q[i].fun
              /\ Waits(q)[i].left = Left(q)[i]
              /\ Waits(q)[i] \in Queue!EventsIn(Pending(q))
         /\ \A e \in Queue!EventsIn(Pending(q)) :
              \E i \in 1 .. Len(q) : e = Waits(q)[i]
  <1>1. Pending(q) = ToBag(Waits(q))
    BY DEF Pending, Waits
  <1>2. \A i \in 1 .. Len(q) : q[i].fun \in Funs /\ Left(q)[i] \in Int
    BY ListTypes, LeftTypes
  <1>3. /\ DOMAIN Waits(q) = 1 .. Len(q)
        /\ Waits(q) \in [1 .. Len(q) -> Wait]
        /\ \A i \in 1 .. Len(q) :
             /\ Waits(q)[i] = [fun |-> q[i].fun, left |-> Left(q)[i]]
             /\ Waits(q)[i].fun = q[i].fun
             /\ Waits(q)[i].left = Left(q)[i]
    BY <1>2 DEF Waits, Wait
  <1>4. Queue!EventsIn(Pending(q)) = Range(Waits(q))
    BY <1>1, BagOfPlaces DEF Queue!EventsIn
  <1>. QED  BY <1>1, <1>3, <1>4 DEF Range

LEMMA QueueInit == Init => Queue!Init
  <1>. SUFFICES ASSUME Init
                PROVE  Queue!Init
    OBVIOUS
  <1>1. calltodo = <<>> /\ called = NoCall /\ IsList(<<>>) /\ Len(<<>>) = 0
    BY DEF Init, IsList
  <1>2. DOMAIN Waits(<<>>) = {}
    BY <1>1, PendingWaits
  <1>3. Pending(<<>>) = ToBag(Waits(<<>>)) /\ Range(Waits(<<>>)) = {}
    BY <1>1, <1>2, PendingWaits DEF Range
  <1>4. Pending(<<>>) = [e \in {} |-> 0]
    BY <1>3, BagOfPlaces
  <1>. QED  BY <1>1, <1>4 DEF Queue!Init, Queue!NoEvents, Queue!NoCall, NoCall

LEMMA QueueTick ==
  ASSUME TypeOK, CalloutInv, hardclock
  PROVE  Queue!Tick
  <1>. DEFINE q == calltodo
              d == Decremented(calltodo)
  <1>1. /\ IsList(q) /\ Ordered(q) /\ Len(q) \in Nat
        /\ calltodo' = d /\ called' = called
    BY ListTypes DEF TypeOK, CalloutInv, hardclock
  <1>2. /\ IsList(d) /\ Len(d) = Len(q)
        /\ \A i \in 1 .. Len(q) :
             d[i].fun = q[i].fun /\ Left(d)[i] = Left(q)[i] - 1
    BY <1>1, DecrementedList, DecrementedLeft
  <1>. HIDE DEF q, d
  <1>3. /\ Waits(q) \in [1 .. Len(q) -> Wait] /\ DOMAIN Waits(d) = 1 .. Len(q)
        /\ \A i \in 1 .. Len(q) :
             Waits(d)[i] = [fun |-> Waits(q)[i].fun,
                            left |-> Waits(q)[i].left - 1]
    <2>1. /\ Waits(q) \in [1 .. Len(q) -> Wait]
          /\ \A i \in 1 .. Len(q) : /\ Waits(q)[i].fun = q[i].fun
                                   /\ Waits(q)[i].left = Left(q)[i]
      BY <1>1, PendingWaits
    <2>2. \A i \in 1 .. Len(q) :
            Waits(d)[i] = [fun |-> d[i].fun, left |-> Left(d)[i]]
      BY <1>2, PendingWaits
    <2>3. DOMAIN Waits(d) = 1 .. Len(q)
      BY <1>2 DEF Waits
    <2>. QED  BY <1>2, <2>1, <2>2, <2>3
  <1>4. ToBag(Waits(d)) = Queue!Aged(ToBag(Waits(q)))
    BY <1>1, <1>3, AgedBag DEF Wait
  <1>5. Pending(d) = Queue!Aged(Pending(q))
    BY <1>1, <1>2, <1>4, PendingWaits
  <1>. QED  BY <1>1, <1>5 DEF Queue!Tick, q, d

LEMMA QueueSet ==
  ASSUME TypeOK, CalloutInv, NEW f \in Funs, NEW t \in 0 .. MaxT,
         timeout(f, t)
  PROVE  \E n \in 1 .. MaxT : Queue!Set(f, n)
  <1>. DEFINE n == IF t =< 0 THEN 1 ELSE t
              q == calltodo
  <1>1. /\ IsList(q) /\ Ordered(q) /\ Len(q) \in Nat
        /\ n \in Nat \ {0} /\ n \in Int /\ n \in 1 .. MaxT
        /\ calltodo' = Inserted(q, f, n) /\ called' = called
    BY TableAssumption, ListTypes DEF TypeOK, CalloutInv, timeout
  <1>. HIDE DEF n, q
  <1>2. PICK p \in 1 .. Len(q) + 1 :
          /\ Inserted(q, f, n) = InsertedAt(q, p, f, Rest(q, n)[p])
          /\ Rest(q, n)[p] > 0
          /\ p =< Len(q) => q[p].time >= Rest(q, n)[p]
    BY <1>1, InsertedWhere
  <1>. DEFINE r == Rest(q, n)[p]
              d == InsertedAt(q, p, f, r)
  <1>3. /\ r \in Int /\ r = n - Ahead(q, p) /\ r > 0
        /\ p =< Len(q) => q[p].time >= r
        /\ calltodo' = d
    BY <1>1, <1>2, RestTypes, RestAhead
  <1>. HIDE DEF r
  <1>4. /\ IsList(d) /\ Len(d) = Len(q) + 1
        /\ \A i \in 1 .. Len(q) + 1 :
             /\ i < p => d[i] = q[i]
             /\ i = p => d[i] = [fun |-> f, time |-> r]
             /\ i = p + 1 => d[i].fun = q[p].fun
             /\ i > p + 1 => d[i] = q[i - 1]
    BY <1>1, <1>3, InsertedAtList
  <1>5. \A i \in 1 .. Len(q) + 1 :
          Left(d)[i] = IF i < p THEN Left(q)[i]
                       ELSE IF i = p THEN n ELSE Left(q)[i - 1]
    BY <1>1, <1>3, InsertedLeft
  <1>. HIDE DEF d
  <1>6. \A i \in 1 .. Len(q) + 1 :
          Waits(d)[i] = [fun |-> d[i].fun, left |-> Left(d)[i]]
    BY <1>4, PendingWaits
  <1>7. \A i \in 1 .. Len(q) :
          Waits(q)[i] = [fun |-> q[i].fun, left |-> Left(q)[i]]
    BY <1>1, PendingWaits
  <1>8. ASSUME NEW i \in 1 .. Len(q)
        PROVE  /\ i < p => Waits(d)[i] = Waits(q)[i]
               /\ i >= p => Waits(d)[i + 1] = Waits(q)[i]
    <2>1. i \in 1 .. Len(q) + 1 /\ i + 1 \in 1 .. Len(q) + 1
      BY <1>1
    <2>2. CASE i < p
      <3>1. d[i].fun = q[i].fun /\ Left(d)[i] = Left(q)[i]
        BY <1>4, <1>5, <2>1, <2>2
      <3>2. Waits(d)[i] = [fun |-> q[i].fun, left |-> Left(q)[i]]
        BY <1>6, <2>1, <3>1
      <3>3. Waits(q)[i] = [fun |-> q[i].fun, left |-> Left(q)[i]]
        BY <1>7
      <3>. QED  BY <2>2, <3>2, <3>3
    <2>3. CASE i >= p
      <3>1. /\ ~(i + 1 < p) /\ i + 1 # p /\ (i + 1) - 1 = i
            /\ i = p \/ i + 1 > p + 1
        BY <2>3
      <3>2. d[i + 1].fun = q[i].fun
        BY <1>4, <2>1, <3>1
      <3>3. Left(d)[i + 1] = Left(q)[i]
        BY <1>5, <2>1, <3>1
      <3>4. Waits(d)[i + 1] = [fun |-> q[i].fun, left |-> Left(q)[i]]
        BY <1>6, <2>1, <3>2, <3>3
      <3>5. Waits(q)[i] = [fun |-> q[i].fun, left |-> Left(q)[i]]
        BY <1>7
      <3>. QED  BY <2>3, <3>4, <3>5
    <2>. QED  BY <1>1, <2>1, <2>2, <2>3
  <1>9. Waits(d)[p] = [fun |-> f, left |-> n]
    <2>1. d[p].fun = f /\ Left(d)[p] = n
      BY <1>4, <1>5
    <2>. QED  BY <1>6, <2>1
  <1>10. DOMAIN Waits(q) = 1 .. Len(q) /\ DOMAIN Waits(d) = 1 .. Len(q) + 1
    BY <1>1, <1>4 DEF Waits
  <1>11. Spliced(Waits(q), Waits(d), Len(q), p, [fun |-> f, left |-> n])
    BY <1>1, <1>8, <1>9, <1>10 DEF Spliced
  <1>12. Pending(d) = Queue!BagAdd(Pending(q), [fun |-> f, left |-> n])
    BY <1>1, <1>4, <1>11, SplicedAdd, PendingWaits
  <1>13. Queue!Set(f, n)
    BY <1>1, <1>3, <1>12 DEF Queue!Set, q
  <1>. QED  BY <1>1, <1>13

LEMMA QueueCancel ==
  ASSUME TypeOK, CalloutInv, NEW f \in Cancelled, untimeout(f)
  PROVE  Queue!Cancel(f)
  <1>. DEFINE q == calltodo
  <1>1. PICK k \in FirstOf(q, f) : calltodo' = RemovedAt(q, k)
    BY DEF untimeout
  <1>2. /\ IsList(q) /\ Ordered(q) /\ Len(q) \in Nat /\ called' = called
        /\ k \in 1 .. Len(q) /\ q[k].fun = f
        /\ \A j \in 1 .. k - 1 : q[j].fun # f
    BY ListTypes DEF TypeOK, CalloutInv, untimeout, FirstOf
  <1>. DEFINE d == RemovedAt(q, k)
              e == Waits(q)[k]
  <1>. HIDE DEF q
  <1>3. /\ IsList(d) /\ Len(d) = Len(q) - 1
        /\ \A i \in 1 .. Len(q) - 1 :
             /\ i < k => d[i] = q[i]
             /\ i = k => d[i].fun = q[k + 1].fun
             /\ i > k => d[i] = q[i + 1]
             /\ Left(d)[i] = IF i < k THEN Left(q)[i] ELSE Left(q)[i + 1]
    BY <1>2, RemovedList, RemovedLeft
  <1>. HIDE DEF d
  <1>4. \A i \in 1 .. Len(q) - 1 :
          Waits(d)[i] = [fun |-> d[i].fun, left |-> Left(d)[i]]
    BY <1>3, PendingWaits
  <1>5. \A i \in 1 .. Len(q) :
          Waits(q)[i] = [fun |-> q[i].fun, left |-> Left(q)[i]]
    BY <1>2, PendingWaits
  <1>6. ASSUME NEW i \in 1 .. Len(q) - 1
        PROVE  /\ i < k => Waits(q)[i] = Waits(d)[i]
               /\ i >= k => Waits(q)[i + 1] = Waits(d)[i]
    <2>1. i \in 1 .. Len(q) /\ i + 1 \in 1 .. Len(q)
      BY <1>2
    <2>2. CASE i < k
      <3>1. d[i].fun = q[i].fun /\ Left(d)[i] = Left(q)[i]
        BY <1>3, <2>2
      <3>2. Waits(d)[i] = [fun |-> q[i].fun, left |-> Left(q)[i]]
        BY <1>4, <3>1
      <3>3. Waits(q)[i] = [fun |-> q[i].fun, left |-> Left(q)[i]]
        BY <1>5, <2>1
      <3>. QED  BY <1>2, <2>2, <3>2, <3>3
    <2>3. CASE i >= k
      <3>1. d[i].fun = q[i + 1].fun /\ Left(d)[i] = Left(q)[i + 1]
        BY <1>2, <1>3, <2>3
      <3>2. Waits(d)[i] = [fun |-> q[i + 1].fun, left |-> Left(q)[i + 1]]
        BY <1>4, <3>1
      <3>3. Waits(q)[i + 1] = [fun |-> q[i + 1].fun, left |-> Left(q)[i + 1]]
        BY <1>5, <2>1
      <3>. QED  BY <1>2, <2>3, <3>2, <3>3
    <2>. QED  BY <1>2, <2>1, <2>2, <2>3
  <1>7. DOMAIN Waits(q) = 1 .. Len(q) /\ DOMAIN Waits(d) = 1 .. Len(q) - 1
    BY <1>3 DEF Waits
  <1>8. Spliced(Waits(d), Waits(q), Len(q) - 1, k, e)
    <2>1. Len(q) - 1 \in Nat /\ (Len(q) - 1) + 1 = Len(q)
      BY <1>2
    <2>. QED  BY <1>2, <1>6, <1>7, <2>1 DEF Spliced
  <1>9. Pending(d) = Queue!BagRemove(Pending(q), e)
    BY <1>2, <1>3, <1>8, SplicedRemove, PendingWaits
  <1>10. e \in Queue!First({x \in Queue!EventsIn(Pending(q)) : x.fun = f})
    <2>1. e \in Queue!EventsIn(Pending(q)) /\ e.fun = f /\ e.left = Left(q)[k]
      BY <1>2, PendingWaits
    <2>2. ASSUME NEW x \in Queue!EventsIn(Pending(q)), x.fun = f
          PROVE  e.left =< x.left
      <3>1. PICK i \in 1 .. Len(q) : x = Waits(q)[i]
        BY <1>2, PendingWaits
      <3>2. q[i].fun = f /\ x.left = Left(q)[i]
        BY <1>2, <2>2, <3>1, PendingWaits
      <3>3. k =< i
        BY <1>2, <3>2
      <3>. QED  BY <1>2, <2>1, <3>2, <3>3, LeftSorted
    <2>. QED  BY <2>1, <2>2 DEF Queue!First
  <1>. HIDE DEF e
  <1>. QED  BY <1>1, <1>2, <1>9, <1>10 DEF Queue!Cancel, q, d

LEMMA QueueCall ==
  ASSUME TypeOK, CalloutInv, softclock_call
  PROVE  Queue!Call
  <1>. DEFINE q == calltodo
              d == Tail(calltodo)
              e == Waits(q)[1]
  <1>1. /\ IsList(q) /\ Ordered(q) /\ Len(q) \in Nat /\ Due(q) /\ q # <<>>
        /\ calltodo' = d /\ called = NoCall
        /\ called' = [fun |-> q[1].fun, late |-> -q[1].time]
    BY ListTypes DEF TypeOK, CalloutInv, softclock_call, Due
  <1>2. /\ IsList(d) /\ Len(d) = Len(q) - 1 /\ 1 \in 1 .. Len(q)
        /\ \A i \in 1 .. Len(q) - 1 :
             d[i] = q[i + 1] /\ Left(d)[i] = Left(q)[i + 1]
    BY <1>1, TailList, TailLeft, ListTypes
  <1>. HIDE DEF q, d
  <1>3. \A i \in 1 .. Len(q) - 1 : Waits(q)[i + 1] = Waits(d)[i]
    <2>1. \A i \in 1 .. Len(q) - 1 : i + 1 \in 1 .. Len(q)
      BY <1>1
    <2>2. \A i \in 1 .. Len(q) :
            Waits(q)[i] = [fun |-> q[i].fun, left |-> Left(q)[i]]
      BY <1>1, PendingWaits
    <2>3. \A i \in 1 .. Len(q) - 1 :
            Waits(d)[i] = [fun |-> d[i].fun, left |-> Left(d)[i]]
      BY <1>2, PendingWaits
    <2>. QED  BY <1>2, <2>1, <2>2, <2>3
  <1>4. DOMAIN Waits(q) = 1 .. Len(q) /\ DOMAIN Waits(d) = 1 .. Len(q) - 1
    BY <1>2 DEF Waits
  <1>5. Spliced(Waits(d), Waits(q), Len(q) - 1, 1, e)
    <2>1. /\ Len(q) - 1 \in Nat /\ (Len(q) - 1) + 1 = Len(q)
          /\ \A i \in 1 .. Len(q) - 1 : ~(i < 1)
      BY <1>1, <1>2
    <2>. QED  BY <1>2, <1>3, <1>4, <2>1 DEF Spliced
  <1>6. Pending(d) = Queue!BagRemove(Pending(q), e)
    BY <1>1, <1>2, <1>5, SplicedRemove, PendingWaits
  <1>7. /\ e \in Queue!EventsIn(Pending(q))
        /\ e.fun = q[1].fun /\ e.left = Left(q)[1]
    BY <1>1, <1>2, PendingWaits
  <1>8. Left(q)[1] = q[1].time
    BY <1>2, LeftUnfold, <1>1 DEF LeftStep
  <1>9. e \in Queue!First(Queue!EventsIn(Pending(q)))
    <2>1. ASSUME NEW x \in Queue!EventsIn(Pending(q))
          PROVE  e.left =< x.left
      <3>1. PICK i \in 1 .. Len(q) : x = Waits(q)[i]
        BY <1>1, PendingWaits
      <3>2. x.left = Left(q)[i]
        BY <1>1, <3>1, PendingWaits
      <3>3. 1 =< i
        OBVIOUS
      <3>. QED  BY <1>1, <1>2, <1>7, <3>2, <3>3, LeftSorted
    <2>. QED  BY <1>7, <2>1 DEF Queue!First
  <1>10. e.left =< 0
    BY <1>1, <1>7, <1>8 DEF Due
  <1>11. /\ called = Queue!NoCall
         /\ called' = [fun |-> e.fun, late |-> -e.left]
    BY <1>1, <1>7, <1>8 DEF NoCall, Queue!NoCall
  <1>. HIDE DEF e
  <1>. QED  BY <1>1, <1>6, <1>9, <1>10, <1>11 DEF Queue!Call, q, d

LEMMA QueueStep ==
  ASSUME TypeOK, CalloutInv, [Next]_vars
  PROVE  [Queue!Next]_(Queue!vars)
  <1>1. CASE hardclock
    BY <1>1, QueueTick DEF Queue!Next
  <1>2. CASE softclock_call
    BY <1>2, QueueCall DEF Queue!Next
  <1>3. CASE softclock_returned
    BY <1>3 DEF softclock_returned, Queue!Next, Queue!Return, Queue!vars,
                NoCall, Queue!NoCall
  <1>4. ASSUME NEW f \in Funs, NEW t \in 0 .. MaxT, timeout(f, t)
        PROVE  Queue!Next
    BY <1>4, QueueSet DEF Queue!Next
  <1>5. ASSUME NEW f \in Cancelled, untimeout(f)
        PROVE  Queue!Next
    BY <1>5, QueueCancel, TableAssumption DEF Queue!Next
  <1>6. CASE \/ softclock_break \/ softclock_done \/ timeout_panic \/ spl
             \/ UNCHANGED vars
    BY <1>6 DEF softclock_break, softclock_done, timeout_panic, spl, vars,
                Queue!vars
  <1>. QED  BY <1>1, <1>2, <1>3, <1>4, <1>5, <1>6 DEF Next

(* The list of differences implements the queue of deadlines: an event is  *)
(* called never early, in the order of the deadlines, once, and with the   *)
(* ticks it is late; untimeout leaves the other deadlines as they were.    *)
THEOREM ListImplementsQueue == Spec => QueueSpec
  <1>1. TypeOK /\ CalloutInv /\ [Next]_vars => [Queue!Next]_(Queue!vars)
    BY QueueStep
  <1>. QED  BY <1>1, QueueInit, CalloutCorrect, PTL
            DEF Spec, QueueSpec, Queue!Spec

-----------------------------------------------------------------------------
(* The quotient and the remainder, and that there are no others.           *)
LEMMA DivUnique ==
  ASSUME NEW d \in Nat \ {0}, NEW q \in Int, NEW r \in 0 .. d - 1
  PROVE  (d * q + r) \div d = q /\ (d * q + r) % d = r
  OBVIOUS

LEMMA DivMod ==
  ASSUME NEW d \in Nat \ {0}, NEW x \in Int
  PROVE  /\ x \div d \in Int /\ x % d \in 0 .. d - 1
         /\ x = d * (x \div d) + (x % d)
  OBVIOUS

(* The operator & of C: a recursive function on the numbers of 22 bits.    *)
(* It exists, by induction, as it does on the numbers below any n.         *)
AndStep(f, x) ==
  [y \in Address |->
     IF x = 0 \/ y = 0 THEN 0
     ELSE 2 * f[x \div 2][y \div 2] + (x % 2) * (y % 2)]

Below(n) == {x \in Nat : x < n}

LEMMA AndExists ==
  ASSUME NEW n \in Nat
  PROVE  \E f : f = [x \in Below(n) |-> AndStep(f, x)]
  <1>. DEFINE Solves(f, m) == f = [x \in Below(m) |-> AndStep(f, x)]
              T == {m \in Nat : \E f : Solves(f, m)}
  <1>1. 0 \in T
    <2>. DEFINE f == [x \in Below(0) |-> 0]
    <2>1. Below(0) = {}
      BY DEF Below
    <2>2. Solves(f, 0)
      BY <2>1
    <2>3. \E h : Solves(h, 0)
      <3>. HIDE DEF f, Solves
      <3>. QED  BY <2>2
    <2>. HIDE DEF Solves
    <2>. QED  BY <2>3
  <1>2. ASSUME NEW m \in T
        PROVE  m + 1 \in T
    <2>1. PICK f : Solves(f, m)
      OBVIOUS
    <2>. DEFINE g == [x \in Below(m + 1) |-> IF x < m THEN f[x]
                                             ELSE AndStep(f, x)]
    <2>2. \A x \in Below(m + 1) : AndStep(g, x) = AndStep(f, x)
      <3>1. SUFFICES ASSUME NEW x \in Below(m + 1), x # 0
                     PROVE  AndStep(g, x) = AndStep(f, x)
        BY DEF AndStep
      <3>2. x \div 2 \in Below(m + 1) /\ x \div 2 < m
        BY <3>1 DEF Below
      <3>3. g[x \div 2] = f[x \div 2]
        BY <3>2
      <3>. HIDE DEF g
      <3>. QED  BY <3>3 DEF AndStep
    <2>3. \A x \in Below(m + 1) : x < m => f[x] = AndStep(f, x)
      BY <2>1 DEF Below
    <2>4. Solves(g, m + 1)
      BY <2>2, <2>3
    <2>5. \E h : Solves(h, m + 1)
      <3>. HIDE DEF g, Solves
      <3>. QED  BY <2>4
    <2>. HIDE DEF Solves
    <2>. QED  BY <2>5
  <1>3. T \subseteq Nat
    OBVIOUS
  <1>4. T = Nat
    <2>. HIDE DEF T
    <2>. QED  BY <1>1, <1>2, <1>3, SetInduction
  <1>. QED  BY <1>4

LEMMA AddressIs == \E n \in Nat : Address = Below(n)
  BY SMT DEF Address, Below

(* So its definition says what it is.                                      *)
LEMMA AndUnfold ==
  ASSUME NEW x \in Address, NEW y \in Address
  PROVE  And[x][y] = IF x = 0 \/ y = 0 THEN 0
                     ELSE 2 * And[x \div 2][y \div 2] + (x % 2) * (y % 2)
  <1>1. \E f : f = [z \in Address |-> AndStep(f, z)]
    BY AddressIs, AndExists
  <1>2. And = [z \in Address |-> AndStep(And, z)]
    BY <1>1 DEF And, AndStep
  <1>3. And[x] = AndStep(And, x)
    BY <1>2
  <1>. QED  BY <1>3 DEF AndStep

(* Bit by bit, on numbers whose halves are zero too.                       *)
LEMMA AndHalves ==
  ASSUME NEW x \in Address, NEW y \in Address
  PROVE  And[x][y] = 2 * And[x \div 2][y \div 2] + (x % 2) * (y % 2)
  <1>1. x \div 2 \in Address /\ y \div 2 \in Address
    BY SMT DEF Address
  <1>2. CASE x = 0 \/ y = 0
    <2>1. x \div 2 = 0 \/ y \div 2 = 0
      BY <1>2
    <2>2. And[x][y] = 0 /\ And[x \div 2][y \div 2] = 0
      BY <1>1, <1>2, <2>1, AndUnfold
    <2>3. (x % 2) * (y % 2) = 0
      <3>1. x % 2 \in {0, 1} /\ y % 2 \in {0, 1}
        BY SMT DEF Address
      <3>2. x % 2 = 0 \/ y % 2 = 0
        BY <1>2
      <3>. QED  BY <3>1, <3>2
    <2>. QED  BY <2>2, <2>3
  <1>3. CASE ~(x = 0 \/ y = 0)
    BY <1>3, AndUnfold
  <1>. QED  BY <1>2, <1>3

LEMMA AndType == \A x, y \in Address : And[x][y] \in Nat
  <1>. DEFINE Typed(x) == \A y \in Address : And[x][y] \in Nat
              T == {n \in Nat : \A x \in Address : x < n => Typed(x)}
  <1>1. 0 \in T
    BY SMT DEF Address
  <1>2. ASSUME NEW n \in T
        PROVE  n + 1 \in T
    <2>1. SUFFICES ASSUME NEW x \in Address, x < n + 1, NEW y \in Address
                   PROVE  And[x][y] \in Nat
      OBVIOUS
    <2>2. CASE x = 0
      BY <2>2, AndUnfold
    <2>3. CASE x # 0
      <3>1. /\ x \div 2 \in Address /\ x \div 2 < n /\ x % 2 \in Nat
            /\ y \div 2 \in Address /\ y % 2 \in Nat
        BY <1>2, <2>1, <2>3, SMT DEF Address
      <3>2. And[x \div 2][y \div 2] \in Nat
        BY <3>1
      <3>3. (x % 2) * (y % 2) \in Nat
        BY <3>1
      <3>. QED  BY <3>2, <3>3, AndHalves
    <2>. QED  BY <2>2, <2>3
  <1>3. T = Nat
    <2>1. T \subseteq Nat
      OBVIOUS
    <2>. HIDE DEF T
    <2>. QED  BY <1>1, <1>2, <2>1, SetInduction
  <1>4. ASSUME NEW x \in Address
        PROVE  Typed(x)
    <2>1. x + 1 \in T /\ x < x + 1
      <3>1. x + 1 \in Nat /\ x < x + 1
        BY SMT DEF Address
      <3>. QED  BY <1>3, <3>1
    <2>. QED  BY <2>1
  <1>. QED  BY <1>4

LEMMA AddressHalf ==
  ASSUME NEW x \in Address
  PROVE  /\ x \in Nat /\ x \div 2 \in Address /\ x \div 2 \in Nat
         /\ x % 2 \in {0, 1} /\ x = 2 * (x \div 2) + (x % 2)
  BY SMT DEF Address

(* A number below K, a power of two, has no bits in common with those from *)
(* K up, and the bits of either make a number below K again.               *)
Within(K, x, y) ==
  /\ And[x][y] \in 0 .. y
  /\ And[x][y] = And[x % K][y]
  /\ (x % K) + y - And[x][y] < K

LEMMA WithinTwice ==
  ASSUME NEW K \in Nat \ {0}, NEW x \in Address, NEW y \in Address,
         y < 2 * K, Within(K, x \div 2, y \div 2)
  PROVE  Within(2 * K, x, y)
  <1>. DEFINE h == x \div 2
              b == x % 2
              g == y \div 2
              c == y % 2
              q == h \div K
              r == h % K
  <1>1. /\ x \in Nat /\ h \in Address /\ h \in Nat /\ b \in {0, 1}
        /\ x = 2 * h + b
    BY AddressHalf
  <1>2. /\ y \in Nat /\ g \in Address /\ g \in Nat /\ c \in {0, 1}
        /\ y = 2 * g + c
    BY AddressHalf
  <1>3. q \in Int /\ r \in 0 .. K - 1 /\ h = K * q + r
    <2>. HIDE DEF h
    <2>. QED  BY <1>1, DivMod
  <1>4. And[h][g] \in 0 .. g /\ And[h][g] = And[r][g]
        /\ r + g - And[h][g] < K
    BY DEF Within
  <1>5. And[x][y] = 2 * And[h][g] + b * c
    BY AndHalves
  <1>6. b * c \in {0, 1} /\ b * c =< c /\ b + c - b * c =< 1
    BY <1>1, <1>2
  <1>. HIDE DEF h, b, g, c, q, r
  <1>7. 2 * r + b \in 0 .. 2 * K - 1 /\ x = (2 * K) * q + (2 * r + b)
    BY <1>1, <1>3
  <1>8. x % (2 * K) = 2 * r + b
    <2>1. 2 * K \in Nat \ {0}
      OBVIOUS
    <2>. QED  BY <1>3, <1>7, <2>1, DivUnique
  <1>9. 2 * r + b \in Address /\ (2 * r + b) \div 2 = r /\ (2 * r + b) % 2 = b
    <2>1. q \in Nat
      <3>1. h >= 0 /\ r < K
        BY <1>1, <1>3
      <3>2. q < 0 => K * q =< -K
        BY <1>3
      <3>. QED  BY <1>3, <3>1, <3>2
    <2>2. (2 * K) * q >= 0
      BY <2>1
    <2>3. 2 * r + b \in Nat /\ 2 * r + b =< x
      <3>. DEFINE z == (2 * K) * q
      <3>1. z \in Int /\ z >= 0 /\ x = z + (2 * r + b) /\ 2 * r + b \in Nat
        BY <1>1, <1>3, <1>7, <2>1, <2>2
      <3>. HIDE DEF z
      <3>. QED  BY <1>1, <3>1
    <2>4. 2 * r + b \in Address
      BY <2>3, SMT DEF Address
    <2>. QED  BY <1>1, <1>3, <2>4
  <1>10. And[2 * r + b][y] = 2 * And[r][g] + b * c
    BY <1>9, AndHalves DEF g, c
  <1>11. And[x][y] \in 0 .. y
    BY <1>2, <1>4, <1>5, <1>6
  <1>12. And[x][y] = And[x % (2 * K)][y]
    BY <1>4, <1>5, <1>8, <1>10
  <1>13. (x % (2 * K)) + y - And[x][y] < 2 * K
    <2>. DEFINE a == And[h][g]
                p == b * c
    <2>1. a \in Int /\ r + g - a < K
      BY <1>2, <1>3, <1>4
    <2>2. p \in Int /\ b + c - p =< 1
      BY <1>6
    <2>3. And[x][y] = 2 * a + p
      BY <1>5
    <2>. HIDE DEF a, p
    <2>4. (2 * r + b) + (2 * g + c) - (2 * a + p) < 2 * K
      BY <1>1, <1>2, <1>3, <2>1, <2>2
    <2>. QED  BY <1>2, <1>8, <2>3, <2>4
  <1>. QED  BY <1>11, <1>12, <1>13 DEF Within

LEMMA WithinPower ==
  ASSUME NEW K \in Nat \ {0},
         \A x, y \in Address : y < K => Within(K, x, y)
  PROVE  \A x, y \in Address : y < 2 * K => Within(2 * K, x, y)
  <1>1. SUFFICES ASSUME NEW x \in Address, NEW y \in Address, y < 2 * K
                 PROVE  Within(2 * K, x, y)
    OBVIOUS
  <1>2. x \div 2 \in Address /\ y \div 2 \in Address /\ y \div 2 < K
    BY <1>1, AddressHalf
  <1>. QED  BY <1>1, <1>2, WithinTwice

LEMMA Within64 == \A x, y \in Address : y < 64 => Within(64, x, y)
  <1>1. \A x, y \in Address : y < 1 => Within(1, x, y)
    <2>1. SUFFICES ASSUME NEW x \in Address, NEW y \in Address, y < 1
                   PROVE  Within(1, x, y)
      OBVIOUS
    <2>2. y = 0 /\ x % 1 = 0 /\ 0 \in Address
      BY <2>1, SMT DEF Address
    <2>3. And[x][0] = 0 /\ And[0][0] = 0
      BY <2>2, AndUnfold
    <2>. QED  BY <2>2, <2>3 DEF Within
  <1>2. \A x, y \in Address : y < 2 => Within(2, x, y)
    <2>1. 2 * 1 = 2
      OBVIOUS
    <2>2. \A x, y \in Address : y < 2 * 1 => Within(2 * 1, x, y)
      BY <1>1, WithinPower
    <2>. QED  BY <2>1, <2>2
  <1>3. \A x, y \in Address : y < 4 => Within(4, x, y)
    <2>1. 2 * 2 = 4
      OBVIOUS
    <2>2. \A x, y \in Address : y < 2 * 2 => Within(2 * 2, x, y)
      BY <1>2, WithinPower
    <2>. QED  BY <2>1, <2>2
  <1>4. \A x, y \in Address : y < 8 => Within(8, x, y)
    <2>1. 2 * 4 = 8
      OBVIOUS
    <2>2. \A x, y \in Address : y < 2 * 4 => Within(2 * 4, x, y)
      BY <1>3, WithinPower
    <2>. QED  BY <2>1, <2>2
  <1>5. \A x, y \in Address : y < 16 => Within(16, x, y)
    <2>1. 2 * 8 = 16
      OBVIOUS
    <2>2. \A x, y \in Address : y < 2 * 8 => Within(2 * 8, x, y)
      BY <1>4, WithinPower
    <2>. QED  BY <2>1, <2>2
  <1>6. \A x, y \in Address : y < 32 => Within(32, x, y)
    <2>1. 2 * 16 = 32
      OBVIOUS
    <2>2. \A x, y \in Address : y < 2 * 16 => Within(2 * 16, x, y)
      BY <1>5, WithinPower
    <2>. QED  BY <2>1, <2>2
  <1>7. 2 * 32 = 64
    OBVIOUS
  <1>8. \A x, y \in Address : y < 2 * 32 => Within(2 * 32, x, y)
    BY <1>6, WithinPower
  <1>. QED  BY <1>7, <1>8

(* A number shifted to the left has the bits in common with another that   *)
(* the number itself has in common with the other shifted to the right.    *)
LEMMA AndShifted ==
  ASSUME NEW x \in Nat, 2 * x \in Address, NEW y \in Address
  PROVE  /\ x \in Address /\ y \div 2 \in Address
         /\ And[2 * x][y] = 2 * And[x][y \div 2]
  <1>1. x \in Address /\ y \div 2 \in Address
    BY SMT DEF Address
  <1>2. (2 * x) \div 2 = x /\ (2 * x) % 2 = 0
    OBVIOUS
  <1>3. And[2 * x][y] = 2 * And[x][y \div 2] + 0 * (y % 2)
    BY <1>2, AndHalves
  <1>4. And[x][y \div 2] \in Int
    BY <1>1, AndType
  <1>5. y % 2 \in Int
    BY SMT DEF Address
  <1>. HIDE DEF And
  <1>6. 0 * (y % 2) = 0
    BY <1>5
  <1>. QED  BY <1>1, <1>3, <1>4, <1>6

(* Six bits at once.                                                       *)
LEMMA AndShifted6 ==
  ASSUME NEW u \in Nat, u < 32768, NEW w \in Nat, w < 4096
  PROVE  And[u * 64][w] = 64 * And[u][w \div 64]
  <1>1. /\ 2 * u \in Address /\ 2 * (2 * u) \in Address
        /\ 2 * (4 * u) \in Address /\ 2 * (8 * u) \in Address
        /\ 2 * (16 * u) \in Address /\ 2 * (32 * u) \in Address
    BY SMT DEF Address
  <1>2. /\ w \in Address /\ w \div 2 \in Address /\ w \div 4 \in Address
        /\ w \div 8 \in Address /\ w \div 16 \in Address
        /\ w \div 32 \in Address
    <2>1. \A x \in Nat : x < 4096 => x \in Address
      BY SMT DEF Address
    <2>2. w \div 2 \in Nat /\ w \div 2 < 4096
      BY SMTT(20)
    <2>3. w \div 4 \in Nat /\ w \div 4 < 4096
      BY SMTT(20)
    <2>4. w \div 8 \in Nat /\ w \div 8 < 4096
      BY SMTT(20)
    <2>5. w \div 16 \in Nat /\ w \div 16 < 4096
      BY SMTT(20)
    <2>6. w \div 32 \in Nat /\ w \div 32 < 4096
      BY SMTT(20)
    <2>. QED  BY <2>1, <2>2, <2>3, <2>4, <2>5, <2>6
  <1>3. And[2 * (32 * u)][w] = 2 * And[32 * u][w \div 2]
    <2>. DEFINE x == 32 * u
                y == w
    <2>1. x \in Nat /\ 2 * x \in Address /\ y \in Address
      BY <1>1, <1>2
    <2>. HIDE DEF x, y
    <2>2. And[2 * x][y] = 2 * And[x][y \div 2]
      BY <2>1, AndShifted
    <2>. QED  BY <2>2 DEF x, y
  <1>4. And[2 * (16 * u)][w \div 2] = 2 * And[16 * u][(w \div 2) \div 2]
    <2>. DEFINE x == 16 * u
                y == w \div 2
    <2>1. x \in Nat /\ 2 * x \in Address /\ y \in Address
      BY <1>1, <1>2
    <2>. HIDE DEF x, y
    <2>2. And[2 * x][y] = 2 * And[x][y \div 2]
      BY <2>1, AndShifted
    <2>. QED  BY <2>2 DEF x, y
  <1>5. And[2 * (8 * u)][w \div 4] = 2 * And[8 * u][(w \div 4) \div 2]
    <2>. DEFINE x == 8 * u
                y == w \div 4
    <2>1. x \in Nat /\ 2 * x \in Address /\ y \in Address
      BY <1>1, <1>2
    <2>. HIDE DEF x, y
    <2>2. And[2 * x][y] = 2 * And[x][y \div 2]
      BY <2>1, AndShifted
    <2>. QED  BY <2>2 DEF x, y
  <1>6. And[2 * (4 * u)][w \div 8] = 2 * And[4 * u][(w \div 8) \div 2]
    <2>. DEFINE x == 4 * u
                y == w \div 8
    <2>1. x \in Nat /\ 2 * x \in Address /\ y \in Address
      BY <1>1, <1>2
    <2>. HIDE DEF x, y
    <2>2. And[2 * x][y] = 2 * And[x][y \div 2]
      BY <2>1, AndShifted
    <2>. QED  BY <2>2 DEF x, y
  <1>7. And[2 * (2 * u)][w \div 16] = 2 * And[2 * u][(w \div 16) \div 2]
    <2>. DEFINE x == 2 * u
                y == w \div 16
    <2>1. x \in Nat /\ 2 * x \in Address /\ y \in Address
      BY <1>1, <1>2
    <2>. HIDE DEF x, y
    <2>2. And[2 * x][y] = 2 * And[x][y \div 2]
      BY <2>1, AndShifted
    <2>. QED  BY <2>2 DEF x, y
  <1>8. And[2 * u][w \div 32] = 2 * And[u][(w \div 32) \div 2]
    <2>. DEFINE x == u
                y == w \div 32
    <2>1. x \in Nat /\ 2 * x \in Address /\ y \in Address
      BY <1>1, <1>2
    <2>. HIDE DEF x, y
    <2>2. And[2 * x][y] = 2 * And[x][y \div 2]
      BY <2>1, AndShifted
    <2>. QED  BY <2>2 DEF x, y
  <1>9. /\ 2 * (32 * u) = u * 64 /\ 2 * (16 * u) = 32 * u
        /\ 2 * (8 * u) = 16 * u /\ 2 * (4 * u) = 8 * u /\ 2 * (2 * u) = 4 * u
        /\ (w \div 2) \div 2 = w \div 4 /\ (w \div 4) \div 2 = w \div 8
        /\ (w \div 8) \div 2 = w \div 16 /\ (w \div 16) \div 2 = w \div 32
        /\ (w \div 32) \div 2 = w \div 64
    <2>1. /\ 2 * (32 * u) = u * 64 /\ 2 * (16 * u) = 32 * u
          /\ 2 * (8 * u) = 16 * u /\ 2 * (4 * u) = 8 * u
          /\ 2 * (2 * u) = 4 * u
      BY SMT
    <2>2. (w \div 2) \div 2 = w \div 4
      BY SMTT(20)
    <2>3. (w \div 4) \div 2 = w \div 8
      BY SMTT(20)
    <2>4. (w \div 8) \div 2 = w \div 16
      BY SMTT(20)
    <2>5. (w \div 16) \div 2 = w \div 32
      BY SMTT(20)
    <2>6. (w \div 32) \div 2 = w \div 64
      BY SMTT(20)
    <2>. QED  BY <2>1, <2>2, <2>3, <2>4, <2>5, <2>6
  <1>10. u \in Address /\ w \div 64 \in Address
    BY SMT DEF Address
  <1>11. And[u][w \div 64] \in Nat
    BY <1>10, AndType
  <1>. DEFINE a == And[u][w \div 64]
  <1>12. And[u * 64][w] = 2 * (2 * (2 * (2 * (2 * (2 * a)))))
    BY <1>3, <1>4, <1>5, <1>6, <1>7, <1>8, <1>9
  <1>13. a \in Nat
    BY <1>11
  <1>. HIDE DEF a
  <1>14. 2 * (2 * (2 * (2 * (2 * (2 * a))))) = 64 * a
    BY <1>13
  <1>. QED  BY <1>12, <1>14 DEF a

(* Where nothing is lost, the address for the lamps is the physical one.   *)
LEMMA LampsRight ==
  ASSUME NEW pc \in Nat, pc < 65536, NEW base \in Nat, base < 65536,
         AddressRight(pc, base)
  PROVE  PhysMask(Or(AprMask(base) * 64, OffsetMask(pc))) = Mmu(pc, base)
  <1>. DEFINE w == pc % 4096
              v == w \div 64
              l == base % 64
              q == pc % 8192
  <1>1. base < 32768 /\ q < 4096 /\ And[l][v] = 0
    BY DEF AddressRight
  <1>2. /\ AprMask(base) = base
        /\ w \in Nat /\ w < 4096 /\ q = w
    BY <1>1, SMT DEF AprMask
  <1>3. base \in Address /\ v \in Address /\ v < 64
    BY <1>1, <1>2, SMT DEF Address
  <1>4. And[base * 64][w] = 64 * And[base][v]
    <2>. HIDE DEF w
    <2>. QED  BY <1>1, <1>2, AndShifted6
  <1>5. And[base][v] = 0 /\ l + v < 64
    <2>1. l \in Nat /\ v \in Nat
      BY <1>2, SMT
    <2>2. And[base][v] = And[l][v] /\ l + v - And[base][v] < 64
      <3>. HIDE DEF v
      <3>1. Within(64, base, v)
        BY <1>3, Within64
      <3>. QED  BY <3>1 DEF Within
    <2>. HIDE DEF v, l
    <2>. QED  BY <1>1, <2>1, <2>2
  <1>6. Or(AprMask(base) * 64, OffsetMask(pc)) = base * 64 + w
    <2>1. Or(AprMask(base) * 64, OffsetMask(pc))
            = base * 64 + w - And[base * 64][w]
      BY <1>2 DEF Or, OffsetMask
    <2>. HIDE DEF w, v
    <2>. QED  BY <1>2, <1>4, <1>5, <2>1
  <1>7. Mmu(pc, base) = (base * 64 + w) % 4194304
    BY <1>2 DEF Mmu
  <1>8. \E t \in Nat : t < 512 /\ base = 64 * t + l /\ w < 64 * v + 64
    <2>1. base < 32768 /\ w \in Nat
      BY <1>1, <1>2
    <2>2. base \div 64 \in Nat /\ base \div 64 < 512
          /\ base = 64 * (base \div 64) + l
      BY <2>1, SMT
    <2>3. w < 64 * v + 64
      <3>. HIDE DEF w
      <3>. QED  BY <2>1, SMT DEF v
    <2>. HIDE DEF w, v, l
    <2>. QED  BY <2>2, <2>3
  <1>. HIDE DEF w, v, l, q
  <1>. DEFINE o == base * 64 + w
  <1>9. o \in Nat /\ o < 2097152
    <2>1. PICK t \in Nat :
            t < 512 /\ base = 64 * t + l /\ w < 64 * v + 64
      BY <1>8
    <2>2. w \in Nat /\ l \in Int /\ v \in Int /\ l + v < 64
      BY <1>2, <1>5, SMT DEF l, v
    <2>. QED  BY <2>1, <2>2, SMT
  <1>. HIDE DEF o
  <1>10. o % 4194304 = o /\ PhysMask(o) = o
    BY <1>9, SMT DEF PhysMask
  <1>. QED  BY <1>6, <1>7, <1>10 DEF o

-----------------------------------------------------------------------------
(* The time of day.                                                        *)
LEMMA HzType == hz \in Nat /\ 2 =< hz /\ hz =< 1000
  BY ClockAssumption

(* A tick slews the time by one at most, and takes that from what is       *)
(* left of the correction.                                                 *)
IsClock(c) == c \in [sec : Int, lbolt : Int, adjdelta : Int]

LEMMA AdvancedClock ==
  ASSUME NEW c, IsClock(c)
  PROVE  /\ IsClock(Advanced(c))
         /\ InTicks(Advanced(c)) + Advanced(c).adjdelta
              = InTicks(c) + c.adjdelta + 1
         /\ InTicks(Advanced(c)) - InTicks(c) \in 0 .. 2
  <1>. DEFINE s == Slewed(c)
              d == Advanced(c)
  <1>0. PICK x \in Int, y \in Int, z \in Int :
          c = [sec |-> x, lbolt |-> y, adjdelta |-> z]
    BY DEF IsClock
  <1>a. c.sec = x /\ c.lbolt = y /\ c.adjdelta = z
    BY <1>0
  <1>1. /\ IsClock(s) /\ s.sec = c.sec
        /\ s.lbolt + s.adjdelta = c.lbolt + c.adjdelta
        /\ s.lbolt - c.lbolt \in -1 .. 1
    <2>1. CASE z > 0
      <3>0. s = [c EXCEPT !.lbolt = y + 1, !.adjdelta = z - 1]
        <4>1. ~(z < 0)
          BY <2>1
        <4>. QED  BY <1>a, <2>1, <4>1, Zenon DEF Slewed
      <3>1. s = [sec |-> x, lbolt |-> y + 1, adjdelta |-> z - 1]
        BY <1>0, <3>0
      <3>. QED  BY <1>0, <3>1 DEF IsClock
    <2>2. CASE z < 0
      <3>0. s = [c EXCEPT !.lbolt = y - 1, !.adjdelta = z + 1]
        <4>1. ~(z > 0)
          BY <2>2
        <4>. QED  BY <1>a, <2>2, <4>1, Zenon DEF Slewed
      <3>1. s = [sec |-> x, lbolt |-> y - 1, adjdelta |-> z + 1]
        BY <1>0, <3>0
      <3>. QED  BY <1>0, <3>1 DEF IsClock
    <2>3. CASE z = 0
      <3>1. s = c
        BY <1>0, <2>3 DEF Slewed
      <3>. QED  BY <1>0, <3>1 DEF IsClock
    <2>. QED  BY <2>1, <2>2, <2>3
  <1>2. /\ IsClock(d) /\ d.adjdelta = s.adjdelta
        /\ \/ d.sec = s.sec /\ d.lbolt = s.lbolt + 1
           \/ d.sec = s.sec + 1 /\ d.lbolt = s.lbolt + 1 - hz
    <2>. HIDE DEF s
    <2>0. PICK u \in Int, v \in Int, w \in Int :
            s = [sec |-> u, lbolt |-> v, adjdelta |-> w]
      BY <1>1 DEF IsClock
    <2>a. s.sec = u /\ s.lbolt = v /\ s.adjdelta = w
      BY <2>0
    <2>b. d = IF s.lbolt + 1 >= hz
              THEN [s EXCEPT !.lbolt = (s.lbolt + 1) - hz, !.sec = @ + 1]
              ELSE [s EXCEPT !.lbolt = s.lbolt + 1]
      BY DEF Advanced, s
    <2>1. d = IF v + 1 >= hz
              THEN [sec |-> u + 1, lbolt |-> v + 1 - hz, adjdelta |-> w]
              ELSE [sec |-> u, lbolt |-> v + 1, adjdelta |-> w]
      <3>. HIDE DEF d
      <3>1. (v + 1) - hz = v + 1 - hz
        BY HzType
      <3>2. CASE v + 1 >= hz
        <4>1. d = [s EXCEPT !.lbolt = (s.lbolt + 1) - hz, !.sec = @ + 1]
          BY <2>a, <2>b, <3>2
        <4>. DEFINE e == (s.lbolt + 1) - hz
        <4>2. e = v + 1 - hz
          BY <2>a, <3>1
        <4>3. d = [s EXCEPT !.lbolt = e, !.sec = @ + 1]
          BY <4>1
        <4>. HIDE DEF e
        <4>4. d = [sec |-> u + 1, lbolt |-> e, adjdelta |-> w]
          BY <2>0, <2>a, <4>3
        <4>. QED  BY <3>2, <4>2, <4>4
      <3>3. CASE ~(v + 1 >= hz)
        BY <2>0, <2>a, <2>b, <3>3
      <3>. QED  BY <3>2, <3>3
    <2>2. v + 1 \in Int /\ v + 1 - hz \in Int /\ u + 1 \in Int
      BY HzType
    <2>. QED  BY <2>0, <2>1, <2>2 DEF IsClock
  <1>3. d.sec * hz + d.lbolt = s.sec * hz + s.lbolt + 1
    <2>. HIDE DEF s, d
    <2>1. (s.sec + 1) * hz = s.sec * hz + hz
      BY <1>1, HzType DEF IsClock, s
    <2>. QED  BY <1>1, <1>2, <2>1, HzType, SMT DEF IsClock, s
  <1>. DEFINE past == c.sec * hz
  <1>4. past \in Int
    BY HzType, SMT DEF IsClock
  <1>5. InTicks(d) = past + s.lbolt + 1 /\ InTicks(c) = past + c.lbolt
    BY <1>1, <1>3 DEF InTicks
  <1>. HIDE DEF s, d, past
  <1>6. InTicks(d) + d.adjdelta = InTicks(c) + c.adjdelta + 1
    BY <1>1, <1>2, <1>4, <1>5, SMT DEF IsClock, s
  <1>7. InTicks(d) - InTicks(c) \in 0 .. 2
    BY <1>1, <1>4, <1>5, SMT DEF IsClock, s
  <1>. QED  BY <1>2, <1>6, <1>7 DEF d

-----------------------------------------------------------------------------
(* hzto.                                                                   *)
LEMMA ToIntSame ==
  ASSUME NEW x \in Int, -32768 =< x, x =< 32767
  PROVE  ToInt(x) = x
  BY SMT DEF ToInt

Tick == 1000 \div hz

(* A tick in milliseconds, rounded down.                                   *)
LEMMA TickType ==
  /\ Tick \in Nat /\ 1 =< Tick /\ Tick =< 500
  /\ hz * Tick =< 1000
  <1>1. hz \in Nat \ {0}
    BY HzType
  <1>2. /\ Tick \in Int /\ 1000 % hz \in 0 .. hz - 1
        /\ 1000 = hz * Tick + (1000 % hz)
    BY <1>1, DivMod DEF Tick
  <1>. DEFINE r == 1000 % hz
  <1>3. r \in Int /\ 0 =< r /\ r < hz /\ 1000 = hz * Tick + r
    BY <1>1, <1>2
  <1>. HIDE DEF r
  <1>4. Tick >= 1
    <2>1. SUFFICES ASSUME Tick =< 0 PROVE FALSE
      BY <1>2
    <2>2. hz * Tick =< 0
      BY <1>1, <1>2, <2>1
    <2>. QED  BY <1>1, <1>2, <1>3, <2>2, HzType
  <1>5. hz * Tick >= 2 * Tick
    BY <1>1, <1>2, <1>4, HzType
  <1>6. hz * Tick \in Int
    BY <1>1, <1>2
  <1>. QED  BY <1>2, <1>3, <1>4, <1>5, <1>6

(* What hzto says of a time that is ms milliseconds away.                  *)
Sound(sec, ms, n) ==
  IF sec > MaxInt THEN n = MaxInt ELSE
  /\ (0 =< ms /\ ms \div Tick =< MaxInt) =>
       /\ n * Tick =< ms
       /\ n * 1000 > hz * (ms - Tick - 1)
  /\ (0 =< ms /\ ms \div Tick > MaxInt) => n = MaxInt
  /\ (ms < 0 /\ (-ms) \div Tick =< MaxInt + 1) => n =< 0

LEMMA QuotientBound ==
  ASSUME NEW usec \in Int, -1000000 < usec, usec < 1000000
  PROVE  Quotient(usec, 1000) \in Int /\ -1000 < Quotient(usec, 1000)
         /\ Quotient(usec, 1000) < 1000
  BY SMT DEF Quotient

(* hzto, by its branches: the time in milliseconds, in ticks, or too far.  *)
LEMMA HztoCorrect ==
  ASSUME NEW sec \in Int, -2147483 < sec, sec =< MaxLong,
         NEW usec \in Int, -1000000 < usec, usec < 1000000
  PROVE  Sound(sec, sec * 1000 + Quotient(usec, 1000), hzto(sec, usec))
  <1>. DEFINE ms == sec * 1000 + Quotient(usec, 1000)
              count ==
                IF sec =< MaxLong \div 1000 - 1000 THEN Quotient(ms, Tick)
                ELSE IF sec =< MaxLong \div hz THEN sec * hz
                ELSE MaxLong
  <1>1. hzto(sec, usec) = ToInt(IF count > MaxInt THEN MaxInt ELSE count)
    BY SMT DEF hzto, Tick
  <1>2. /\ ms \in Int /\ sec * 1000 - 1000 < ms /\ ms < sec * 1000 + 1000
    BY QuotientBound, SMT
  <1>3. MaxLong \div 1000 - 1000 = 2146483
    BY SMT DEF MaxLong
  <1>4. CASE sec > MaxInt
    <2>1. count > MaxInt
      <3>1. CASE sec =< 2146483
        <4>1. count = ms \div Tick
          <5>1. ~(ms < 0)
            BY <1>2, <1>4, SMT DEF MaxInt
          <5>2. count = Quotient(ms, Tick)
            BY <1>3, <3>1, SMT
          <5>. HIDE DEF ms, count
          <5>. QED  BY <5>1, <5>2, SMT DEF Quotient
        <4>. DEFINE k == ms \div Tick
                    r == ms % Tick
        <4>2. k \in Int /\ r \in 0 .. Tick - 1 /\ ms = Tick * k + r
          <5>. HIDE DEF ms
          <5>1. Tick \in Nat \ {0}
            BY TickType, SMT
          <5>. QED  BY <1>2, <5>1, DivMod, SMT
        <4>3. ms > 32766999
          BY <1>2, <1>4, SMT DEF MaxInt
        <4>. HIDE DEF ms, k, r
        <4>4. k > 32767
          <5>1. SUFFICES ASSUME k =< 32767 PROVE FALSE
            BY <4>2, SMT
          <5>2. Tick * k =< Tick * 32767
            BY <4>2, <5>1, TickType, SMT
          <5>3. Tick * k \in Int /\ r < 500
            BY <4>2, TickType, SMT
          <5>. QED  BY <4>2, <4>3, <5>2, <5>3, TickType, SMT
        <4>. QED  BY <4>1, <4>4, SMT DEF k, MaxInt
      <3>2. CASE sec > 2146483
        <4>1. sec * hz >= sec
          BY <3>2, HzType, SMT
        <4>2. count \in {sec * hz, MaxLong}
          BY <1>3, <3>2, SMT
        <4>3. sec * hz \in Int
          BY HzType, SMT
        <4>. HIDE DEF count
        <4>. QED  BY <1>4, <4>1, <4>2, <4>3, SMT DEF MaxLong, MaxInt
      <3>. QED  BY <3>1, <3>2, SMT
    <2>. HIDE DEF count
    <2>2. hzto(sec, usec) = ToInt(MaxInt)
      BY <1>1, <2>1, SMT
    <2>3. ToInt(MaxInt) = MaxInt
      BY ToIntSame, SMT DEF MaxInt
    <2>. QED  BY <1>4, <2>2, <2>3, SMT DEF Sound
  <1>5. CASE sec =< MaxInt
    <2>1. count = Quotient(ms, Tick)
      BY <1>3, <1>5, SMT DEF MaxInt
    <2>. HIDE DEF ms, count
    <2>2. ASSUME 0 =< ms, ms \div Tick =< MaxInt
          PROVE  /\ hzto(sec, usec) * Tick =< ms
                 /\ hzto(sec, usec) * 1000 > hz * (ms - Tick - 1)
      <3>. DEFINE k == ms \div Tick
                  r == ms % Tick
      <3>1. k \in Int /\ r \in 0 .. Tick - 1 /\ ms = Tick * k + r
        <4>1. Tick \in Nat \ {0}
          BY TickType, SMT
        <4>. QED  BY <1>2, <4>1, DivMod, SMT
      <3>2. count = k /\ k =< MaxInt
        BY <1>2, <2>1, <2>2, SMT DEF Quotient
      <3>. HIDE DEF k, r
      <3>3. k >= 0
        <4>1. SUFFICES ASSUME k =< -1 PROVE FALSE
          BY <3>1, SMT
        <4>2. Tick * k =< -Tick /\ Tick * k \in Int
          BY <3>1, <4>1, TickType, SMT
        <4>. QED  BY <2>2, <3>1, <4>2, TickType, SMT
      <3>4. hzto(sec, usec) = k
        <4>1. ToInt(k) = k
          BY <3>1, <3>2, <3>3, ToIntSame, SMT DEF MaxInt
        <4>. QED  BY <1>1, <3>1, <3>2, <4>1, SMT DEF MaxInt
      <3>5. k * Tick =< ms
        BY <3>1, TickType, SMT
      <3>6. k * 1000 > hz * (ms - Tick - 1)
        <4>. DEFINE p == Tick * k
        <4>1. p \in Int /\ ms - Tick - 1 < p /\ ms - Tick - 1 \in Int
          BY <1>2, <3>1, TickType, SMT
        <4>2. hz * p =< k * 1000
          <5>1. hz * p = (hz * Tick) * k
            BY <3>1, HzType, TickType, SMT
          <5>2. hz * Tick \in Int
            BY HzType, TickType, SMT
          <5>3. (hz * Tick) * k =< 1000 * k
            <6>. DEFINE z == hz * Tick
            <6>1. z \in Int /\ z =< 1000
              BY <5>2, TickType, SMT
            <6>. HIDE DEF z
            <6>2. z * k =< 1000 * k
              BY <3>1, <3>3, <6>1, SMT
            <6>. QED  BY <6>2, SMT DEF z
          <5>. QED  BY <3>1, <5>1, <5>3, SMT
        <4>. HIDE DEF p
        <4>. DEFINE m == ms - Tick - 1
        <4>3. m \in Int /\ m < p
          BY <4>1, SMT
        <4>. HIDE DEF m
        <4>4. hz * m < hz * p /\ hz * m \in Int /\ hz * p \in Int
          BY <4>1, <4>3, HzType, SMT
        <4>5. k * 1000 > hz * m
          BY <3>1, <4>2, <4>4, SMT
        <4>. QED  BY <4>5, SMT DEF m
      <3>. QED  BY <3>4, <3>5, <3>6, SMT
    <2>3. ASSUME 0 =< ms, ms \div Tick > MaxInt
          PROVE  hzto(sec, usec) = MaxInt
      <3>1. count > MaxInt
        BY <1>2, <2>1, <2>3, SMT DEF Quotient
      <3>2. hzto(sec, usec) = ToInt(MaxInt)
        BY <1>1, <3>1, SMT
      <3>3. ToInt(MaxInt) = MaxInt
        BY ToIntSame, SMT DEF MaxInt
      <3>. QED  BY <3>2, <3>3
    <2>4. ASSUME ms < 0, (-ms) \div Tick =< MaxInt + 1
          PROVE  hzto(sec, usec) =< 0
      <3>. DEFINE m == -ms
                  k == m \div Tick
                  r == m % Tick
      <3>0. m \in Int /\ m > 0
        BY <1>2, <2>4, SMT
      <3>2. count = -k /\ k =< MaxInt + 1
        BY <2>1, <2>4, SMT DEF Quotient
      <3>. HIDE DEF m
      <3>1. k \in Int /\ r \in 0 .. Tick - 1 /\ m = Tick * k + r
        <4>1. Tick \in Nat \ {0}
          BY TickType, SMT
        <4>. QED  BY <3>0, <4>1, DivMod, SMT
      <3>. HIDE DEF k, r
      <3>3. k >= 0
        <4>1. SUFFICES ASSUME k =< -1 PROVE FALSE
          BY <3>1, SMT
        <4>2. Tick * k =< -Tick /\ Tick * k \in Int
          BY <3>1, <4>1, TickType, SMT
        <4>. QED  BY <3>0, <3>1, <4>2, TickType, SMT
      <3>4. ToInt(-k) = -k
        BY <3>1, <3>2, <3>3, ToIntSame, SMT DEF MaxInt
      <3>. QED  BY <1>1, <3>1, <3>2, <3>3, <3>4, SMT DEF MaxInt
    <2>5. ~(sec > MaxInt)
      BY <1>5, SMT DEF MaxInt
    <2>6. Sound(sec, ms, hzto(sec, usec))
      BY <2>2, <2>4, <2>5, <2>3, SMT DEF Sound
    <2>. QED  BY <2>6, SMT DEF ms
  <1>. QED  BY <1>4, <1>5, SMT DEF MaxInt

-----------------------------------------------------------------------------
(* Timers.                                                                 *)
TimerAt(t, n) ==
  [value    |-> IF t.value = 0 THEN 0
                ELSE IF n < t.value THEN t.value - n
                ELSE IF t.interval = 0 THEN 0
                ELSE t.interval - ((n - t.value) % t.interval),
   interval |-> t.interval]

(* A tick of a timer leads from what it is after n ticks to what it is     *)
(* after n + 1, and it fires once more if it is at 1.                      *)
LEMMA TimerSteps ==
  ASSUME NEW t \in Timer, NEW n \in Nat
  PROVE  /\ TimerTick(TimerAt(t, n)) = TimerAt(t, n + 1)
         /\ Fired(t, n + 1)
              = Fired(t, n) + IF Fires(TimerAt(t, n)) THEN 1 ELSE 0
         /\ Fired(t, n) \in Nat /\ TimerAt(t, n) \in Timer
  <1>0. PICK v \in Nat, i \in Nat : t = [value |-> v, interval |-> i]
    BY DEF Timer
  <1>1. t.value = v /\ t.interval = i
    BY <1>0
  <1>2. CASE v = 0
    BY <1>0, <1>1, <1>2 DEF Timer, TimerAt, TimerTick, Fired, Fires
  <1>3. CASE v # 0 /\ n + 1 < v
    BY <1>0, <1>1, <1>3 DEF Timer, TimerAt, TimerTick, Fired, Fires
  <1>4. CASE v # 0 /\ n + 1 = v
    <2>1. TimerAt(t, n) = [value |-> 1, interval |-> i]
      BY <1>1, <1>4 DEF TimerAt
    <2>2. TimerAt(t, n + 1) = [value |-> i, interval |-> i]
      <3>1. i # 0 => ((n + 1) - v) % i = 0
        BY <1>4
      <3>2. i # 0 => i - (((n + 1) - v) % i) = i
        BY <3>1
      <3>. QED  BY <1>1, <1>4, <3>2 DEF TimerAt
    <2>3. TimerTick(TimerAt(t, n)) = [value |-> i, interval |-> i]
      BY <2>1 DEF TimerTick
    <2>4. Fired(t, n) = 0
      BY <1>1, <1>4 DEF Fired
    <2>5. Fired(t, n + 1) = 1
      <3>1. i # 0 => ((n + 1) - v) \div i = 0
        BY <1>4
      <3>. QED  BY <1>1, <1>4, <3>1 DEF Fired
    <2>6. Fires(TimerAt(t, n))
      BY <2>1 DEF Fires
    <2>. QED  BY <2>1, <2>2, <2>3, <2>4, <2>5, <2>6 DEF Timer
  <1>5. CASE v # 0 /\ n >= v /\ i = 0
    BY <1>0, <1>1, <1>5 DEF Timer, TimerAt, TimerTick, Fired, Fires
  <1>6. CASE v # 0 /\ n >= v /\ i # 0
    <2>. DEFINE k == n - v
                q == k \div i
                r == k % i
    <2>1. k \in Int /\ k >= 0 /\ (n + 1) - v = k + 1
      BY <1>6
    <2>2. q \in Int /\ r \in 0 .. i - 1 /\ k = i * q + r
      <3>1. i \in Nat \ {0}
        BY <1>6
      <3>. HIDE DEF k
      <3>. QED  BY <2>1, <3>1, DivMod
    <2>3. q >= 0
      <3>. HIDE DEF k, q, r
      <3>1. SUFFICES ASSUME q =< -1 PROVE FALSE
        BY <2>2
      <3>2. i * q =< -i /\ i * q \in Int
        BY <1>6, <2>2, <3>1
      <3>. QED  BY <2>1, <2>2, <3>2
    <2>4. TimerAt(t, n) = [value |-> i - r, interval |-> i]
      BY <1>1, <1>6 DEF TimerAt
    <2>5. Fired(t, n) = 1 + q
      BY <1>1, <1>6 DEF Fired
    <2>. DEFINE at == i - ((k + 1) % i)
                f  == 1 + ((k + 1) \div i)
    <2>6. TimerAt(t, n + 1) = [value |-> at, interval |-> i]
      BY <1>1, <1>6, <2>1 DEF TimerAt
    <2>7. Fired(t, n + 1) = f
      BY <1>1, <1>6, <2>1 DEF Fired
    <2>8. /\ r = i - 1 => at = i /\ f = 2 + q
          /\ r # i - 1 => at = i - r - 1 /\ f = 1 + q
      <3>1. i \in Nat \ {0}
        BY <1>6
      <3>. HIDE DEF k, q, r
      <3>2. CASE r = i - 1
        <4>1. k + 1 = i * (q + 1) + 0 /\ q + 1 \in Int /\ 0 \in 0 .. i - 1
          BY <2>2, <3>1, <3>2
        <4>2. (k + 1) \div i = q + 1 /\ (k + 1) % i = 0
          BY <3>1, <4>1, DivUnique
        <4>. QED  BY <2>2, <3>1, <3>2, <4>2
      <3>3. CASE r # i - 1
        <4>1. k + 1 = i * q + (r + 1) /\ r + 1 \in 0 .. i - 1
          <5>1. i * q \in Int
            BY <2>2
          <5>. QED  BY <2>2, <3>1, <3>3, <5>1
        <4>2. (k + 1) \div i = q /\ (k + 1) % i = r + 1
          BY <2>2, <3>1, <4>1, DivUnique
        <4>. QED  BY <2>2, <3>1, <3>3, <4>2
      <3>. QED  BY <3>2, <3>3
    <2>. HIDE DEF k, q, r, at, f
    <2>9. CASE r = i - 1
      <3>1. TimerAt(t, n) = [value |-> 1, interval |-> i]
        BY <1>6, <2>2, <2>4, <2>9
      <3>2. TimerAt(t, n + 1) = [value |-> i, interval |-> i]
        BY <2>6, <2>8, <2>9
      <3>. QED  BY <2>2, <2>3, <2>5, <2>7, <2>8, <2>9, <3>1, <3>2
                DEF TimerTick, Fires, Timer
    <2>10. CASE r # i - 1
      <3>1. TimerAt(t, n + 1) = [value |-> (i - r) - 1, interval |-> i]
        BY <2>2, <2>6, <2>8, <2>10
      <3>2. i - r \in Nat /\ i - r # 0 /\ i - r # 1
        BY <1>6, <2>2, <2>10
      <3>3. TimerTick(TimerAt(t, n)) = TimerAt(t, n + 1)
        <4>. DEFINE z == i - r
        <4>1. z # 0 /\ z # 1
          BY <3>2
        <4>2. TimerAt(t, n) = [value |-> z, interval |-> i]
              /\ TimerAt(t, n + 1) = [value |-> z - 1, interval |-> i]
          BY <2>4, <3>1
        <4>. HIDE DEF z
        <4>. QED  BY <4>1, <4>2 DEF TimerTick
      <3>4. ~Fires(TimerAt(t, n))
        BY <2>4, <3>2 DEF Fires
      <3>5. TimerAt(t, n) \in Timer
        BY <2>4, <3>2 DEF Timer
      <3>. QED  BY <2>2, <2>3, <2>5, <2>7, <2>8, <2>10, <3>3, <3>4, <3>5
    <2>. QED  BY <2>9, <2>10
  <1>. QED  BY <1>2, <1>3, <1>4, <1>5, <1>6

-----------------------------------------------------------------------------
(* The limit.  First is the tick of the first warning.                     *)
First(c0) == IF c0 = 0 THEN 1 ELSE c0

(* What is true of the limit c after n ticks: it has not been reached yet, *)
(* it has been raised R times, the last time within the last five seconds, *)
(* or it has reached the greatest and is passed in every tick.             *)
Before(c0, c, n) == n < First(c0) /\ c = c0

Raised(c0, max, c, n, R) ==
  /\ n >= First(c0) /\ R >= 1 /\ R =< Raises(c0, max)
  /\ c = c0 + Step * R /\ c - Step =< n /\ n < c

Passed(c0, max, c, n) ==
  /\ n >= First(c0) /\ n >= c
  /\ c = c0 + Step * Raises(c0, max)

LimitAt(c0, max, c, n) ==
  \/ Before(c0, c, n)
  \/ \E R \in Nat : Raised(c0, max, c, n, R)
  \/ Passed(c0, max, c, n)

LEMMA StepType == Step \in Nat /\ Step >= 10
  BY HzType DEF Step

(* The number of times a limit is raised is the least that brings it to    *)
(* the greatest one.                                                       *)
LEMMA RaisesType ==
  ASSUME NEW c0 \in Nat, NEW max \in Nat, c0 =< max
  PROVE  /\ Raises(c0, max) \in Nat
         /\ \A R \in Nat : R < Raises(c0, max) <=> c0 + Step * R < max
  <1>. DEFINE x == (max - c0 + Step) - 1
              p == x \div Step
              r == x % Step
  <1>1. Step \in Nat \ {0}
    BY StepType
  <1>2. x \in Nat /\ max - c0 + Step - 1 = x
    BY <1>1
  <1>3. Raises(c0, max) = p
    BY <1>2 DEF Raises
  <1>4. p \in Int /\ r \in 0 .. Step - 1 /\ x = Step * p + r
    <2>. HIDE DEF x
    <2>. QED  BY <1>1, <1>2, DivMod
  <1>5. x = (max - c0) + Step - 1 /\ x \in Int
    BY <1>1
  <1>. HIDE DEF x, p, r
  <1>6. p >= 0
    <2>1. SUFFICES ASSUME p =< -1 PROVE FALSE
      BY <1>4
    <2>2. Step * p =< -Step /\ Step * p \in Int
      BY <1>1, <1>4, <2>1
    <2>. QED  BY <1>1, <1>2, <1>4, <2>2
  <1>7. ASSUME NEW R \in Nat
        PROVE  R < p <=> c0 + Step * R < max
    <2>. DEFINE y == Step * R
                z == Step * p
    <2>1. y \in Int /\ z \in Int /\ z + r = (max - c0) + Step - 1
      BY <1>1, <1>4, <1>5
    <2>2. R < p => y + Step =< z
      <3>1. R < p => Step * (R + 1) =< Step * p
        BY <1>1, <1>4
      <3>2. Step * (R + 1) = Step * R + Step
        BY <1>1
      <3>. QED  BY <3>1, <3>2
    <2>3. ~(R < p) => z =< y
      BY <1>1, <1>4
    <2>4. r \in Int /\ 0 =< r /\ r < Step
      BY <1>1, <1>4
    <2>. HIDE DEF y, z
    <2>5. R < p => c0 + y < max
      BY <1>1, <2>1, <2>2, <2>4
    <2>6. ~(R < p) => ~(c0 + y < max)
      BY <1>1, <2>1, <2>3, <2>4
    <2>. QED  BY <2>5, <2>6 DEF y
  <1>. QED  BY <1>3, <1>4, <1>6, <1>7

(* How often there has been a warning in each of the three cases.          *)
LEMMA WarnedBefore ==
  ASSUME NEW c0 \in Nat, NEW max \in Nat, NEW n \in Nat, n < First(c0)
  PROVE  Warned(c0, max, n) = 0
  BY DEF Warned, First

LEMMA WarnedRaised ==
  ASSUME NEW c0 \in Nat, NEW max \in Nat, c0 =< max, NEW n \in Nat, NEW c,
         NEW R \in Nat, Raised(c0, max, c, n, R)
  PROVE  Warned(c0, max, n) = R
  <1>1. n >= c0 /\ n # 0
    BY DEF Raised, First
  <1>. DEFINE y == Step * (R - 1)
              d == n - c0
              r == d - y
  <1>2. y \in Int /\ Step * R = y + Step /\ d \in Int
    BY StepType
  <1>3. r \in 0 .. Step - 1
    <2>1. Step * R = y + Step /\ c0 + Step * R - Step =< n /\ n < c0 + Step * R
      <3>1. /\ c = c0 + Step * R /\ c - Step =< n /\ n < c
        BY DEF Raised
      <3>. DEFINE z == Step * R
      <3>2. c = c0 + z /\ z = y + Step
        BY <1>2, <3>1
      <3>. HIDE DEF y, z
      <3>3. c - Step = c0 + z - Step
        BY <1>2, <3>2, StepType
      <3>. QED  BY <3>1, <3>2, <3>3 DEF z
    <2>. HIDE DEF y
    <2>. QED  BY <1>2, <2>1, StepType
  <1>4. d = Step * (R - 1) + r
    <2>1. d = y + r
      <3>. HIDE DEF y, d
      <3>. QED  BY <1>2
    <2>. QED  BY <2>1
  <1>. HIDE DEF y, r
  <1>5. (n - c0) \div Step = R - 1
    <2>1. Step \in Nat \ {0} /\ R - 1 \in Int
      BY StepType
    <2>2. (Step * (R - 1) + r) \div Step = R - 1
      BY <1>3, <2>1, DivUnique
    <2>. QED  BY <1>4, <2>2
  <1>6. R - 1 < Raises(c0, max) /\ (R - 1) + 1 = R
    BY RaisesType DEF Raised
  <1>. QED  BY <1>1, <1>5, <1>6 DEF Warned

LEMMA WarnedPassed ==
  ASSUME NEW c0 \in Nat, NEW max \in Nat, c0 =< max, NEW n \in Nat, NEW c,
         Passed(c0, max, c, n)
  PROVE  Warned(c0, max, n)
           = Raises(c0, max) + n - (IF c = 0 THEN 1 ELSE c) + 1
  <1>1. n >= c0 /\ n # 0
    BY DEF Passed, First
  <1>. DEFINE p == Raises(c0, max)
              t == (n - c0) \div Step
              r == (n - c0) % Step
  <1>2. p \in Nat
    BY RaisesType
  <1>3. Step \in Nat \ {0} /\ n - c0 \in Int
    BY StepType
  <1>4. t \in Int /\ r \in 0 .. Step - 1 /\ n - c0 = Step * t + r
    BY <1>3, DivMod
  <1>5. n >= c0 + Step * p
    BY DEF Passed
  <1>. HIDE DEF p, t, r
  <1>6. ~(t < p)
    <2>1. SUFFICES ASSUME t < p PROVE FALSE
      OBVIOUS
    <2>2. Step * (t + 1) =< Step * p
      BY <1>2, <1>3, <1>4, <2>1
    <2>3. Step * (t + 1) = Step * t + Step
      BY <1>3, <1>4
    <2>4. Step * t \in Int /\ Step * p \in Int
      BY <1>2, <1>3, <1>4
    <2>. QED  BY <1>3, <1>4, <1>5, <2>2, <2>3, <2>4
  <1>. QED  BY <1>1, <1>6 DEF Warned, Passed, p, t

(* A tick more.                                                            *)
LEMMA LimitSteps ==
  ASSUME NEW c0 \in Nat, NEW max \in Nat, c0 =< max, NEW n \in Nat,
         NEW c \in Nat, LimitAt(c0, max, c, n)
  PROVE  LET d == IF n + 1 >= c /\ c < max THEN c + Step ELSE c IN
         /\ d \in Nat /\ LimitAt(c0, max, d, n + 1)
         /\ Warned(c0, max, n + 1)
              = Warned(c0, max, n) + IF n + 1 >= c THEN 1 ELSE 0
         /\ Warned(c0, max, n) \in Nat
  <1>. DEFINE d == IF n + 1 >= c /\ c < max THEN c + Step ELSE c
              p == Raises(c0, max)
  <1>1. /\ p \in Nat
        /\ \A R \in Nat : R < p <=> c0 + Step * R < max
    BY RaisesType
  <1>2. d \in Nat /\ n + 1 \in Nat
    BY StepType
  <1>3. Step * 0 = 0 /\ Step * 1 = Step
    BY StepType
  <1>4. CASE Before(c0, c, n)
    <2>1. c = c0 /\ n < First(c0) /\ Warned(c0, max, n) = 0
      BY <1>4, WarnedBefore DEF Before
    <2>2. CASE n + 1 < First(c0)
      <3>1. ~(n + 1 >= c)
        BY <2>1, <2>2 DEF First
      <3>2. Warned(c0, max, n + 1) = 0
        BY <1>2, <2>2, WarnedBefore
      <3>3. LimitAt(c0, max, d, n + 1)
        BY <2>1, <2>2, <3>1 DEF LimitAt, Before
      <3>. QED  BY <1>2, <2>1, <3>1, <3>2, <3>3
    <2>3. CASE n + 1 = First(c0) /\ c0 < max
      <3>1. n + 1 >= c /\ d = c0 + Step
        BY <2>1, <2>3 DEF First
      <3>2. 1 =< p
        BY <1>1, <1>3, <2>3
      <3>3. Raised(c0, max, d, n + 1, 1)
        BY <1>3, <2>3, <3>1, <3>2, StepType DEF Raised, First
      <3>4. Warned(c0, max, n + 1) = 1
        BY <1>2, <3>3, WarnedRaised
      <3>. QED  BY <1>2, <2>1, <3>1, <3>3, <3>4 DEF LimitAt
    <2>4. CASE n + 1 = First(c0) /\ ~(c0 < max)
      <3>1. n + 1 >= c /\ d = c0
        BY <2>1, <2>4 DEF First
      <3>2. p = 0
        BY <1>1, <1>3, <2>4
      <3>3. Passed(c0, max, d, n + 1)
        BY <1>3, <2>1, <2>4, <3>1, <3>2 DEF Passed, First
      <3>4. Warned(c0, max, n + 1) = p + (n + 1) - (IF d = 0 THEN 1 ELSE d) + 1
        BY <1>2, <3>3, WarnedPassed
      <3>5. Warned(c0, max, n + 1) = 1
        BY <2>4, <3>1, <3>2, <3>4 DEF First
      <3>. QED  BY <1>2, <2>1, <3>1, <3>3, <3>5 DEF LimitAt
    <2>. QED  BY <2>1, <2>2, <2>3, <2>4 DEF First
  <1>5. ASSUME NEW R \in Nat, Raised(c0, max, c, n, R)
        PROVE  /\ LimitAt(c0, max, d, n + 1)
               /\ Warned(c0, max, n + 1)
                    = Warned(c0, max, n) + IF n + 1 >= c THEN 1 ELSE 0
               /\ Warned(c0, max, n) \in Nat
    <2>1. /\ c = c0 + Step * R /\ c - Step =< n /\ n < c /\ R >= 1 /\ R =< p
          /\ n >= First(c0)
      BY <1>5 DEF Raised
    <2>2. Warned(c0, max, n) = R
      BY <1>5, WarnedRaised
    <2>3. CASE n + 1 < c
      <3>1. d = c /\ ~(n + 1 >= c)
        BY <2>3
      <3>2. Raised(c0, max, d, n + 1, R)
        BY <2>1, <2>3, <3>1, StepType DEF Raised, First
      <3>3. Warned(c0, max, n + 1) = R
        BY <1>2, <3>2, WarnedRaised
      <3>. QED  BY <2>2, <3>1, <3>2, <3>3 DEF LimitAt
    <2>4. CASE n + 1 = c /\ c < max
      <3>1. d = c + Step /\ n + 1 >= c
        BY <2>4
      <3>2. R + 1 =< p
        BY <1>1, <2>1, <2>4
      <3>3. d = c0 + Step * (R + 1)
        <4>1. Step * (R + 1) = Step * R + Step /\ Step * R \in Int
          BY StepType
        <4>. QED  BY <2>1, <3>1, <4>1, StepType
      <3>4. Raised(c0, max, d, n + 1, R + 1)
        BY <2>1, <2>4, <3>1, <3>2, <3>3, StepType DEF Raised, First
      <3>5. Warned(c0, max, n + 1) = R + 1
        BY <1>2, <3>4, WarnedRaised
      <3>6. LimitAt(c0, max, d, n + 1)
        <4>1. R + 1 \in Nat
          OBVIOUS
        <4>. QED  BY <3>4, <4>1 DEF LimitAt
      <3>. QED  BY <2>2, <3>1, <3>5, <3>6
    <2>5. CASE n + 1 = c /\ ~(c < max)
      <3>1. d = c /\ n + 1 >= c
        BY <2>5
      <3>2. R = p
        BY <1>1, <2>1, <2>5
      <3>3. Passed(c0, max, d, n + 1)
        BY <2>1, <2>5, <3>1, <3>2 DEF Passed, First
      <3>4. Warned(c0, max, n + 1) = p + (n + 1) - (IF d = 0 THEN 1 ELSE d) + 1
        BY <1>2, <3>3, WarnedPassed
      <3>5. Warned(c0, max, n + 1) = R + 1
        BY <1>1, <2>5, <3>1, <3>2, <3>4
      <3>. QED  BY <2>2, <3>1, <3>3, <3>5 DEF LimitAt
    <2>. QED  BY <2>1, <2>3, <2>4, <2>5
  <1>6. CASE Passed(c0, max, c, n)
    <2>1. n >= c /\ c = c0 + Step * p /\ n >= First(c0)
      BY <1>6 DEF Passed
    <2>2. ~(c < max)
      BY <1>1, <2>1
    <2>3. d = c /\ n + 1 >= c
      BY <2>1, <2>2
    <2>4. Passed(c0, max, d, n + 1)
      BY <2>1, <2>3 DEF Passed, First
    <2>5. Warned(c0, max, n) = p + n - (IF c = 0 THEN 1 ELSE c) + 1
      BY <1>6, WarnedPassed
    <2>6. Warned(c0, max, n + 1) = p + (n + 1) - (IF d = 0 THEN 1 ELSE d) + 1
      BY <1>2, <2>4, WarnedPassed
    <2>7. c # 0 \/ n >= 1
      BY <2>1 DEF First
    <2>8. Warned(c0, max, n) \in Nat
      <3>1. n - (IF c = 0 THEN 1 ELSE c) \in Nat
        BY <2>1, <2>7
      <3>. DEFINE z == n - (IF c = 0 THEN 1 ELSE c)
      <3>2. z \in Nat /\ Warned(c0, max, n) = p + z + 1
        BY <2>5, <3>1
      <3>. HIDE DEF z, p
      <3>. QED  BY <1>1, <3>2
    <2>9. Warned(c0, max, n + 1) = Warned(c0, max, n) + 1
      BY <1>1, <2>3, <2>5, <2>6
    <2>. QED  BY <2>3, <2>4, <2>8, <2>9 DEF LimitAt
  <1>. QED  BY <1>2, <1>4, <1>5, <1>6 DEF LimitAt

(* The limit stays below the greatest one and five seconds.                *)
LEMMA LimitBound ==
  ASSUME NEW c0 \in Nat, NEW max \in Nat, c0 =< max, NEW n \in Nat,
         NEW c \in Nat, LimitAt(c0, max, c, n)
  PROVE  c < max + Step
  <1>1. \E R \in Nat : R =< Raises(c0, max) /\ c = c0 + Step * R
    <2>1. Step * 0 = 0
      BY StepType
    <2>. QED  BY <2>1, RaisesType DEF LimitAt, Before, Raised, Passed
  <1>2. PICK R \in Nat : R =< Raises(c0, max) /\ c = c0 + Step * R
    BY <1>1
  <1>3. CASE R = 0
    BY <1>2, <1>3, StepType
  <1>4. CASE R # 0
    <2>1. R - 1 \in Nat /\ R - 1 < Raises(c0, max)
      BY <1>2, <1>4, RaisesType
    <2>2. c0 + Step * (R - 1) < max
      BY <2>1, RaisesType
    <2>3. Step * R = Step * (R - 1) + Step /\ Step * (R - 1) \in Int
      BY StepType
    <2>. QED  BY <1>2, <2>2, <2>3, StepType
  <1>. QED  BY <1>3, <1>4

-----------------------------------------------------------------------------
(* A tick's charges.                                                       *)
UsageType == [utime : Nat, stime : Nat, p_cpu : Nat, virt : Timer,
              prof : Timer, cur : Nat, max : Nat]

SettingType == [virt : Timer, prof : Timer, cur : Nat, max : Nat,
                nice : BOOLEAN]

Use(a, b, p, v, f, c, m) ==
  [utime |-> a, stime |-> b, p_cpu |-> p, virt |-> v, prof |-> f,
   cur |-> c, max |-> m]

(* The usage of a process that asked for the setting s.                    *)
UsageInv(u, s) ==
  /\ u \in UsageType /\ u.max = s.max
  /\ u.p_cpu = IF Spent(u) > MaxCpu THEN MaxCpu ELSE Spent(u)
  /\ u.virt = TimerAt(s.virt, u.utime)
  /\ u.prof = TimerAt(s.prof, Spent(u))
  /\ LimitAt(s.cur, s.max, u.cur, Spent(u))

(* The signals it has been sent after a ticks of its own and n in all.     *)
PostedOf(s, a, n, x) ==
  CASE x = "SIGVTALRM" -> Fired(s.virt, a)
    [] x = "SIGPROF"   -> Fired(s.prof, n)
    [] x = "SIGXCPU"   -> Warned(s.cur, s.max, n)

PostedAt(s, a, n) == [x \in Signals |-> PostedOf(s, a, n, x)]

LEMMA UseFields ==
  ASSUME NEW a, NEW b, NEW p, NEW v, NEW f, NEW c, NEW m
  PROVE  LET u == Use(a, b, p, v, f, c, m) IN
         /\ u.utime = a /\ u.stime = b /\ u.p_cpu = p /\ u.virt = v
         /\ u.prof = f /\ u.cur = c /\ u.max = m
  BY DEF Use

(* What every tick of a process takes from it.                             *)
LEMMA ProcessCharged ==
  ASSUME NEW a, NEW b, NEW p, NEW v, NEW f, NEW c, NEW m,
         NEW noproc, noproc \in BOOLEAN, ~noproc
  PROVE  ChargedProcess(Use(a, b, p, v, f, c, m), noproc)
           = Use(a, b, IF p = MaxCpu THEN p ELSE p + 1, v, TimerTick(f),
                 IF (a + b) + 1 > c /\ c < m THEN c + 5 * hz ELSE c, m)
  <1>. DEFINE u == Use(a, b, p, v, f, c, m)
              pp == IF p = MaxCpu THEN p ELSE p + 1
              cc == IF (a + b) + 1 > c /\ c < m THEN c + 5 * hz ELSE c
              ff == TimerTick(f)
  <1>1. /\ u.utime = a /\ u.stime = b /\ u.p_cpu = p /\ u.prof = f
        /\ u.cur = c /\ u.max = m
    BY UseFields
  <1>2. OverLimit(u) <=> (a + b) + 1 > c
    <2>. HIDE DEF u
    <2>. QED  BY <1>1 DEF OverLimit, Spent
  <1>. HIDE DEF u
  <1>3. ChargedProcess(u, noproc)
          = [u EXCEPT !.p_cpu = IF @ = MaxCpu THEN @ ELSE @ + 1,
                      !.cur = IF OverLimit(u) /\ @ < u.max THEN @ + 5 * hz
                              ELSE @,
                      !.prof = TimerTick(@)]
    BY Zenon DEF ChargedProcess
  <1>4. ChargedProcess(u, noproc)
          = [u EXCEPT !.p_cpu = pp, !.cur = cc, !.prof = ff]
    BY <1>1, <1>2, <1>3
  <1>. HIDE DEF pp, cc, ff
  <1>5. ChargedProcess(u, noproc) = Use(a, b, pp, v, ff, cc, m)
    BY <1>4 DEF u, Use
  <1>. QED  BY <1>5 DEF u, pp, cc, ff

(* Which of the two times is charged; neither if the processor is idle.    *)
LEMMA ModeCharged ==
  ASSUME NEW a, NEW b, NEW p, NEW v, NEW f, NEW c, NEW m,
         NEW user, NEW noproc, user \in BOOLEAN, noproc \in BOOLEAN,
         noproc => ~user
  PROVE  LET u == Use(a, b, p, v, f, c, m)
             w == ChargedMode(u, user, noproc)
         IN  /\ user => w = Use(a + 1, b, p, TimerTick(v), f, c, m)
             /\ ~user /\ ~noproc => w = Use(a, b + 1, p, v, f, c, m)
             /\ ~user /\ noproc => w = u
  <1>. DEFINE u == Use(a, b, p, v, f, c, m)
              vv == TimerTick(v)
              w == ChargedMode(u, user, noproc)
  <1>1. u.utime = a /\ u.stime = b /\ u.virt = v
    BY UseFields
  <1>. HIDE DEF u
  <1>2. CASE user
    <2>1. w = [u EXCEPT !.utime = @ + 1, !.virt = TimerTick(@)]
      BY <1>2 DEF ChargedMode
    <2>2. w = [u EXCEPT !.utime = a + 1, !.virt = vv]
      BY <1>1, <2>1
    <2>. HIDE DEF vv, w
    <2>3. w = Use(a + 1, b, p, vv, f, c, m)
      BY <2>2 DEF u, Use
    <2>. QED  BY <1>2, <2>3 DEF u, w, vv
  <1>3. CASE ~user /\ ~noproc
    <2>1. w = [u EXCEPT !.stime = b + 1]
      BY <1>1, <1>3 DEF ChargedMode
    <2>. HIDE DEF w
    <2>2. w = Use(a, b + 1, p, v, f, c, m)
      BY <2>1 DEF u, Use
    <2>. QED  BY <1>3, <2>2 DEF u, w
  <1>4. CASE ~user /\ noproc
    <2>1. w = u
      BY <1>4 DEF ChargedMode
    <2>. QED  BY <1>4, <2>1 DEF u
  <1>. QED  BY <1>2, <1>3, <1>4

(* A tick that is charged to the process: to its user time or its system   *)
(* time, and in both cases to all the rest.                                *)
Paid(s, u, w, user, up) ==
  /\ UsageInv(w, s)
  /\ w.utime = u.utime + (IF user THEN 1 ELSE 0)
  /\ Spent(w) = Spent(u) + 1
  /\ \A x \in Signals :
       /\ PostedAt(s, u.utime, Spent(u))[x] \in Nat
       /\ PostedAt(s, w.utime, Spent(w))[x]
            = PostedAt(s, u.utime, Spent(u))[x] + IF x \in up THEN 1 ELSE 0

(* The invariant of the usage, the signals, and what has been charged.     *)
LEMMA PaidTick ==
  ASSUME NEW s \in SettingType, s.cur =< s.max, NEW u, UsageInv(u, s),
         NEW user \in BOOLEAN, NEW noproc \in BOOLEAN, ~noproc
  PROVE  Paid(s, u, Charged(u, user, noproc), user, Posted(u, user, noproc))
         /\ Charged(u, user, noproc).stime
              = u.stime + (IF user THEN 0 ELSE 1)
  <1>1. PICK a \in Nat, b \in Nat, p \in Nat, v \in Timer, f \in Timer,
             c \in Nat, m \in Nat : u = Use(a, b, p, v, f, c, m)
    BY DEF UsageInv, UsageType, Use
  <1>2. /\ u.utime = a /\ u.stime = b /\ u.p_cpu = p /\ u.virt = v
        /\ u.prof = f /\ u.cur = c /\ u.max = m
    BY <1>1, UseFields
  <1>. DEFINE n == a + b
              pp == IF p = MaxCpu THEN p ELSE p + 1
              cc == IF n + 1 >= c /\ c < m THEN c + Step ELSE c
              aa == IF user THEN a + 1 ELSE a
              bb == IF user THEN b ELSE b + 1
              vv == IF user THEN TimerTick(v) ELSE v
              moded == ChargedMode(u, user, noproc)
              w == Use(aa, bb, pp, vv, TimerTick(f), cc, m)
  <1>3. /\ n \in Nat /\ Spent(u) = n /\ aa \in Nat /\ bb \in Nat
        /\ aa + bb = n + 1
    BY <1>2 DEF Spent
  <1>4. moded = Use(aa, bb, p, vv, f, c, m)
    <2>1. moded = IF user THEN Use(a + 1, b, p, TimerTick(v), f, c, m)
                  ELSE Use(a, b + 1, p, v, f, c, m)
      BY <1>1, ModeCharged
    <2>2. CASE user
      BY <2>1, <2>2
    <2>3. CASE ~user
      BY <2>1, <2>3
    <2>. QED  BY <2>2, <2>3
  <1>5. Charged(u, user, noproc) = w
    <2>1. Charged(u, user, noproc) = ChargedProcess(moded, noproc)
      BY DEF Charged
    <2>2. cc = IF (aa + bb) + 1 > c /\ c < m THEN c + 5 * hz ELSE c
      <3>1. c + Step = c + 5 * hz
        BY DEF Step
      <3>. HIDE DEF n, aa, bb
      <3>2. (aa + bb) + 1 > c <=> n + 1 >= c
        BY <1>3
      <3>. QED  BY <3>1, <3>2
    <2>. HIDE DEF aa, bb, vv, moded, cc
    <2>3. ChargedProcess(moded, noproc) = w
      BY <1>4, <2>2, ProcessCharged
    <2>. QED  BY <2>1, <2>3
  <1>6. /\ s.virt \in Timer /\ s.prof \in Timer /\ s.cur \in Nat
        /\ s.max \in Nat /\ m = s.max
        /\ v = TimerAt(s.virt, a) /\ f = TimerAt(s.prof, n)
        /\ p = (IF n > MaxCpu THEN MaxCpu ELSE n)
        /\ LimitAt(s.cur, s.max, c, n)
    BY <1>2, <1>3 DEF UsageInv, SettingType
  <1>7. /\ TimerTick(v) = TimerAt(s.virt, a + 1)
        /\ Fired(s.virt, a + 1) = Fired(s.virt, a) + IF Fires(v) THEN 1 ELSE 0
        /\ Fired(s.virt, a) \in Nat
    BY <1>6, TimerSteps
  <1>8. /\ TimerTick(f) = TimerAt(s.prof, n + 1)
        /\ Fired(s.prof, n + 1) = Fired(s.prof, n) + IF Fires(f) THEN 1 ELSE 0
        /\ Fired(s.prof, n) \in Nat
    <2>. HIDE DEF n
    <2>. QED  BY <1>3, <1>6, TimerSteps
  <1>9. /\ cc \in Nat /\ LimitAt(s.cur, s.max, cc, n + 1)
        /\ Warned(s.cur, s.max, n + 1)
             = Warned(s.cur, s.max, n) + IF n + 1 >= c THEN 1 ELSE 0
        /\ Warned(s.cur, s.max, n) \in Nat
    <2>. HIDE DEF n
    <2>. QED  BY <1>3, <1>6, LimitSteps
  <1>10. pp \in Nat /\ pp = IF n + 1 > MaxCpu THEN MaxCpu ELSE n + 1
    <2>. HIDE DEF n
    <2>. QED  BY <1>3, <1>6, ChargeAssumption
  <1>11. /\ vv = TimerAt(s.virt, aa) /\ vv \in Timer
         /\ TimerTick(f) \in Timer
    <2>1. vv = TimerAt(s.virt, aa)
      <3>1. CASE user
        <4>1. vv = TimerTick(v) /\ aa = a + 1
          BY <3>1
        <4>. HIDE DEF vv, aa
        <4>. QED  BY <1>7, <4>1
      <3>2. CASE ~user
        <4>1. vv = v /\ aa = a
          BY <3>2
        <4>. HIDE DEF vv, aa
        <4>. QED  BY <1>6, <4>1
      <3>. QED  BY <3>1, <3>2
    <2>2. TimerAt(s.virt, aa) \in Timer
      <3>. HIDE DEF aa
      <3>. QED  BY <1>3, <1>6, TimerSteps
    <2>3. n + 1 \in Nat
      BY <1>3
    <2>4. TimerTick(f) \in Timer
      <3>1. TimerAt(s.prof, n + 1) \in Timer
        <4>. DEFINE k == n + 1
        <4>. HIDE DEF k
        <4>1. TimerAt(s.prof, k) \in Timer
          BY <1>6, <2>3, TimerSteps DEF k
        <4>. QED  BY <4>1 DEF k
      <3>. QED  BY <1>8, <3>1
    <2>. QED  BY <2>1, <2>2, <2>4
  <1>12. /\ w.utime = aa /\ w.stime = bb /\ w.p_cpu = pp /\ w.virt = vv
         /\ w.prof = TimerTick(f) /\ w.cur = cc /\ w.max = m
    <2>. HIDE DEF aa, bb, pp, vv, cc
    <2>. QED  BY UseFields
  <1>13. Spent(w) = n + 1
    BY <1>3, <1>12 DEF Spent
  <1>14. UsageInv(w, s)
    <2>1. w \in UsageType
      <3>. HIDE DEF aa, bb, pp, vv, cc
      <3>. QED  BY <1>3, <1>9, <1>10, <1>11 DEF UsageType, Use
    <2>. HIDE DEF aa, bb, pp, vv, cc, n, w
    <2>. QED  BY <1>6, <1>8, <1>9, <1>10, <1>11, <1>12, <1>13, <2>1
              DEF UsageInv
  <1>15. Posted(u, user, noproc)
           = {x \in Signals :
                CASE x = "SIGVTALRM" -> user /\ Fires(v)
                  [] x = "SIGPROF"   -> Fires(f)
                  [] x = "SIGXCPU"   -> n + 1 >= c}
    <2>1. OverLimit(moded) <=> n + 1 >= c
      <3>1. moded.utime = aa /\ moded.stime = bb /\ moded.cur = c
        <4>. HIDE DEF aa, bb, vv, moded
        <4>. QED  BY <1>4, UseFields
      <3>. HIDE DEF aa, bb, moded
      <3>. QED  BY <1>3, <3>1 DEF OverLimit, Spent
    <2>. HIDE DEF n, moded
    <2>2. ASSUME NEW x \in Signals
          PROVE  x \in Posted(u, user, noproc)
                   <=> (CASE x = "SIGVTALRM" -> user /\ Fires(v)
                          [] x = "SIGPROF"   -> Fires(f)
                          [] x = "SIGXCPU"   -> n + 1 >= c)
      <3>1. CASE x = "SIGVTALRM"
        BY <1>2, <3>1 DEF Posted
      <3>2. CASE x = "SIGPROF"
        BY <1>2, <3>2 DEF Posted
      <3>3. CASE x = "SIGXCPU"
        BY <2>1, <3>3 DEF Posted, moded
      <3>. QED  BY <3>1, <3>2, <3>3 DEF Signals
    <2>3. Posted(u, user, noproc) \subseteq Signals
      BY DEF Posted
    <2>. QED  BY <2>2, <2>3
  <1>16. ASSUME NEW x \in Signals
         PROVE  /\ PostedAt(s, a, n)[x] \in Nat
                /\ PostedAt(s, aa, n + 1)[x]
                     = PostedAt(s, a, n)[x]
                         + IF x \in Posted(u, user, noproc) THEN 1 ELSE 0
    <2>. HIDE DEF n
    <2>1. CASE x = "SIGVTALRM"
      <3>1. /\ PostedAt(s, a, n)[x] = Fired(s.virt, a)
            /\ PostedAt(s, aa, n + 1)[x] = Fired(s.virt, aa)
        BY <2>1 DEF PostedAt, PostedOf
      <3>2. x \in Posted(u, user, noproc) <=> user /\ Fires(v)
        BY <1>15, <2>1
      <3>3. CASE user
        <4>1. aa = a + 1
          BY <3>3
        <4>2. x \in Posted(u, user, noproc) <=> Fires(v)
          BY <3>2, <3>3
        <4>. HIDE DEF aa
        <4>. QED  BY <1>7, <3>1, <4>1, <4>2
      <3>4. CASE ~user
        <4>1. aa = a
          BY <3>4
        <4>2. x \notin Posted(u, user, noproc)
          BY <3>2, <3>4
        <4>. HIDE DEF aa
        <4>. QED  BY <1>7, <3>1, <4>1, <4>2
      <3>. QED  BY <3>3, <3>4
    <2>2. CASE x = "SIGPROF"
      <3>1. /\ PostedAt(s, a, n)[x] = Fired(s.prof, n)
            /\ PostedAt(s, aa, n + 1)[x] = Fired(s.prof, n + 1)
        BY <2>2 DEF PostedAt, PostedOf
      <3>2. x \in Posted(u, user, noproc) <=> Fires(f)
        BY <1>15, <2>2
      <3>. QED  BY <1>8, <3>1, <3>2
    <2>3. CASE x = "SIGXCPU"
      <3>1. /\ PostedAt(s, a, n)[x] = Warned(s.cur, s.max, n)
            /\ PostedAt(s, aa, n + 1)[x] = Warned(s.cur, s.max, n + 1)
        BY <2>3 DEF PostedAt, PostedOf
      <3>2. x \in Posted(u, user, noproc) <=> n + 1 >= c
        BY <1>15, <2>3
      <3>. QED  BY <1>9, <3>1, <3>2
    <2>. QED  BY <2>1, <2>2, <2>3 DEF Signals
  <1>17. w.utime = u.utime + (IF user THEN 1 ELSE 0)
         /\ w.stime = u.stime + (IF user THEN 0 ELSE 1)
    BY <1>2, <1>12
  <1>. HIDE DEF aa, bb, pp, vv, cc, n, w
  <1>18. Paid(s, u, w, user, Posted(u, user, noproc))
    BY <1>2, <1>3, <1>12, <1>13, <1>14, <1>16, <1>17 DEF Paid
  <1>. QED  BY <1>5, <1>17, <1>18

(* A tick of an idle processor.                                            *)
LEMMA IdleTick ==
  ASSUME NEW u, NEW s, UsageInv(u, s),
         NEW user \in BOOLEAN, NEW noproc \in BOOLEAN, noproc, ~user
  PROVE  Charged(u, user, noproc) = u /\ Posted(u, user, noproc) = {}
  <1>1. Charged(u, user, noproc) = u
    BY DEF Charged, ChargedMode, ChargedProcess
  <1>2. ASSUME NEW x \in Signals
        PROVE  x \notin Posted(u, user, noproc)
    <2>1. CASE x = "SIGVTALRM"
      BY <2>1 DEF Posted
    <2>2. CASE x = "SIGPROF"
      BY <2>2 DEF Posted
    <2>3. CASE x = "SIGXCPU"
      BY <2>3 DEF Posted
    <2>. QED  BY <2>1, <2>2, <2>3 DEF Signals
  <1>3. Posted(u, user, noproc) \subseteq Signals
    BY DEF Posted
  <1>. QED  BY <1>1, <1>2, <1>3

-----------------------------------------------------------------------------
(* The processor's time: each tick goes to one state of it, and the user   *)
(* and system time of the process are part of what the states were given.  *)
Shared ==
  LET c == cp_time IN
  /\ c \in [States -> Nat] /\ ticks \in Nat
  /\ c["CP_USER"] + c["CP_NICE"] = usage.utime
  /\ usage.utime + c["CP_SYS"] + c["CP_IDLE"] = ticks
  /\ c["CP_SYS"] >= usage.stime

(* The time of day: what has been added to it is one for each tick and     *)
(* the part of the corrections that is not left over.                      *)
Kept ==
  /\ IsClock(clock) /\ asked \in Int
  /\ InTicks(clock) + clock.adjdelta = ticks + asked

(* The usage and the signals are those that the settings give after as     *)
(* many ticks.                                                             *)
Charges ==
  /\ setting \in Settings
  /\ UsageInv(usage, setting)
  /\ posted = PostedAt(setting, usage.utime, Spent(usage))

(* The invariant; its last two parts are about the last answer alone.      *)
ClockInv ==
  /\ Charges /\ Shared /\ Kept
  /\ HztoSound /\ PanelAddressRight

LEMMA SettingTypes ==
  ASSUME setting \in Settings
  PROVE  setting \in SettingType /\ setting.cur =< setting.max
  BY SettingAssumption DEF SettingType

(* How often a process has been sent each signal is a number.              *)
LEMMA PostedType ==
  ASSUME NEW s \in SettingType, s.cur =< s.max, NEW u, UsageInv(u, s)
  PROVE  \A x \in Signals : PostedAt(s, u.utime, Spent(u))[x] \in Nat
  <1>1. PICK a \in Nat, b \in Nat : u.utime = a /\ u.stime = b
    BY DEF UsageInv, UsageType
  <1>. DEFINE n == Spent(u)
  <1>2. n \in Nat
    BY <1>1 DEF Spent
  <1>3. /\ s.virt \in Timer /\ s.prof \in Timer /\ s.cur \in Nat
        /\ s.max \in Nat /\ LimitAt(s.cur, s.max, u.cur, n)
        /\ u.cur \in Nat
    BY DEF SettingType, UsageInv, UsageType
  <1>. HIDE DEF n
  <1>4. Fired(s.virt, a) \in Nat /\ Fired(s.prof, n) \in Nat
    BY <1>2, <1>3, TimerSteps
  <1>5. Warned(s.cur, s.max, n) \in Nat
    BY <1>2, <1>3, LimitSteps
  <1>6. ASSUME NEW x \in Signals
        PROVE  PostedAt(s, a, n)[x] \in Nat
    <2>1. CASE x = "SIGVTALRM"
      BY <1>4, <2>1 DEF PostedAt, PostedOf
    <2>2. CASE x = "SIGPROF"
      BY <1>4, <2>2 DEF PostedAt, PostedOf
    <2>3. CASE x = "SIGXCPU"
      BY <1>5, <2>3 DEF PostedAt, PostedOf
    <2>. QED  BY <2>1, <2>2, <2>3 DEF Signals
  <1>. QED  BY <1>1, <1>6 DEF n

(* The state of the processor that a tick is counted in.                   *)
LEMMA StateCharged ==
  ASSUME NEW user \in BOOLEAN, NEW noproc \in BOOLEAN, noproc => ~user,
         NEW basepri \in BOOLEAN, NEW nice \in BOOLEAN
  PROVE  LET at == gatherstats(user, noproc, basepri, nice) IN
         /\ at \in States
         /\ user <=> at \in {"CP_USER", "CP_NICE"}
         /\ ~noproc /\ ~user => at = "CP_SYS"
  <1>. DEFINE at == gatherstats(user, noproc, basepri, nice)
  <1>1. CASE user
    <2>1. at = IF nice THEN "CP_NICE" ELSE "CP_USER"
      BY <1>1 DEF gatherstats
    <2>. HIDE DEF at
    <2>2. at \in {"CP_USER", "CP_NICE"}
      BY <2>1
    <2>. QED  BY <1>1, <2>2 DEF States, at
  <1>2. CASE ~user
    <2>1. at \in {"CP_SYS", "CP_IDLE"} /\ (~noproc => at = "CP_SYS")
      BY <1>2 DEF gatherstats
    <2>. HIDE DEF at
    <2>. QED  BY <1>2, <2>1 DEF States, at
  <1>. HIDE DEF at
  <1>. QED  BY <1>1, <1>2 DEF at

(* At the start, no tick has been charged.                                 *)
LEMMA ClockInitial == ClockInit => ClockInv
  <1>. SUFFICES ASSUME ClockInit PROVE ClockInv
    OBVIOUS
  <1>. DEFINE s == setting
  <1>1. /\ s \in Settings /\ s \in SettingType /\ s.cur =< s.max
        /\ usage = Use(0, 0, 0, s.virt, s.prof, s.cur, s.max)
    BY SettingTypes DEF ClockInit, Use
  <1>2. /\ usage.utime = 0 /\ usage.stime = 0 /\ usage.p_cpu = 0
        /\ usage.virt = s.virt /\ usage.prof = s.prof
        /\ usage.cur = s.cur /\ usage.max = s.max /\ Spent(usage) = 0
    BY <1>1, UseFields DEF Spent
  <1>3. ASSUME NEW t \in Timer
        PROVE  TimerAt(t, 0) = t /\ Fired(t, 0) = 0
    <2>1. PICK v \in Nat, i \in Nat : t = [value |-> v, interval |-> i]
      BY DEF Timer
    <2>. QED  BY <2>1 DEF TimerAt, Fired
  <1>4. LimitAt(s.cur, s.max, s.cur, 0) /\ Warned(s.cur, s.max, 0) = 0
    BY <1>1 DEF SettingType, LimitAt, Before, First, Warned
  <1>5. s.virt \in Timer /\ s.prof \in Timer /\ s.cur \in Nat /\ s.max \in Nat
    BY <1>1 DEF SettingType
  <1>6. UsageInv(usage, s)
    <2>1. usage \in UsageType
      <3>. HIDE DEF s
      <3>. QED  BY <1>1, <1>5 DEF UsageType, Use
    <2>2. ~(0 > MaxCpu)
      BY ChargeAssumption
    <2>. HIDE DEF s
    <2>. QED  BY <1>2, <1>3, <1>4, <1>5, <2>1, <2>2 DEF UsageInv
  <1>7. posted = PostedAt(s, usage.utime, Spent(usage))
    <2>. HIDE DEF s
    <2>1. ASSUME NEW x \in Signals
          PROVE  PostedAt(s, 0, 0)[x] = 0
      <3>1. CASE x = "SIGVTALRM"
        BY <1>3, <1>5, <3>1 DEF PostedAt, PostedOf
      <3>2. CASE x = "SIGPROF"
        BY <1>3, <1>5, <3>2 DEF PostedAt, PostedOf
      <3>3. CASE x = "SIGXCPU"
        BY <1>4, <3>3 DEF PostedAt, PostedOf
      <3>. QED  BY <3>1, <3>2, <3>3 DEF Signals
    <2>2. PostedAt(s, 0, 0) = [x \in Signals |-> 0]
      <3>1. PostedAt(s, 0, 0)
              = [x \in Signals |-> PostedAt(s, 0, 0)[x]]
        BY DEF PostedAt
      <3>. QED  BY <2>1, <3>1
    <2>. QED  BY <1>2, <2>2 DEF ClockInit
  <1>8. Charges
    BY <1>1, <1>6, <1>7 DEF Charges
  <1>9. Shared
    BY <1>2 DEF Shared, ClockInit, States
  <1>10. Kept
    BY HzType DEF Kept, ClockInit, IsClock, InTicks
  <1>11. HztoSound /\ PanelAddressRight
    BY DEF ClockInit, HztoSound, PanelAddressRight
  <1>. QED  BY <1>8, <1>9, <1>10, <1>11 DEF ClockInv

-----------------------------------------------------------------------------
(* What a tick does to the charges, with its conditions as parameters.     *)
ChargedTick(user, noproc, basepri) ==
  /\ ticks' = ticks + 1
  /\ usage' = Charged(usage, user, noproc)
  /\ posted' = [x \in Signals |->
       posted[x] + IF x \in Posted(usage, user, noproc) THEN 1 ELSE 0]
  /\ cp_time' = [cp_time EXCEPT
       ![gatherstats(user, noproc, basepri, setting.nice)] = @ + 1]
  /\ setting' = setting

(* To the process, if there is one, and to what it was sent.               *)
LEMMA TickProcess ==
  ASSUME Charges, NEW user \in BOOLEAN, NEW noproc \in BOOLEAN,
         noproc => ~user, NEW basepri \in BOOLEAN,
         ChargedTick(user, noproc, basepri)
  PROVE  /\ Charges'
         /\ usage'.utime = usage.utime + (IF user THEN 1 ELSE 0)
         /\ usage'.stime
              = usage.stime + (IF user \/ noproc THEN 0 ELSE 1)
  <1>. DEFINE at(u) == PostedAt(setting, u.utime, Spent(u))
              up == Posted(usage, user, noproc)
  <1>1. /\ setting \in SettingType /\ setting.cur =< setting.max
        /\ setting' = setting /\ setting \in Settings
    BY SettingTypes DEF Charges, ChargedTick
  <1>2. /\ usage' = Charged(usage, user, noproc)
        /\ UsageInv(usage, setting) /\ posted = at(usage)
    BY DEF Charges, ChargedTick
  <1>3. posted' = [x \in Signals |-> at(usage)[x] + IF x \in up THEN 1 ELSE 0]
    BY <1>2 DEF ChargedTick
  <1>4. \A u : at(u) = [x \in Signals |-> at(u)[x]]
    BY DEF PostedAt
  <1>5. usage.utime \in Int /\ usage.stime \in Int
    BY <1>2 DEF UsageInv, UsageType
  <1>6. CASE noproc
    <2>1. usage' = usage /\ up = {}
      BY <1>2, <1>6, IdleTick
    <2>2. \A x \in Signals : at(usage)[x] \in Nat
      BY <1>1, <1>2, <1>6, PostedType
    <2>. HIDE DEF at, up
    <2>3. posted' = [x \in Signals |-> at(usage)[x]]
      BY <1>3, <2>1, <2>2
    <2>4. posted' = at(usage')
      BY <1>4, <2>1, <2>3
    <2>5. Charges'
      BY <1>1, <1>2, <2>1, <2>4 DEF Charges, at
    <2>6. ~user
      BY <1>6
    <2>7. /\ usage.utime = usage.utime + (IF user THEN 1 ELSE 0)
          /\ usage.stime = usage.stime + (IF user \/ noproc THEN 0 ELSE 1)
      BY <1>5, <1>6, <2>6
    <2>. QED  BY <2>1, <2>5, <2>7
  <1>7. CASE ~noproc
    <2>1. /\ Paid(setting, usage, usage', user, up)
          /\ usage'.stime = usage.stime + (IF user THEN 0 ELSE 1)
      BY <1>1, <1>2, <1>7, PaidTick
    <2>2. /\ UsageInv(usage', setting)
          /\ usage'.utime = usage.utime + (IF user THEN 1 ELSE 0)
      BY <2>1 DEF Paid
    <2>3. \A x \in Signals :
            at(usage')[x] = at(usage)[x] + IF x \in up THEN 1 ELSE 0
      BY <2>1 DEF Paid
    <2>. HIDE DEF at, up
    <2>4. posted' = [x \in Signals |-> at(usage')[x]]
      BY <1>3, <2>3
    <2>5. posted' = at(usage')
      BY <1>4, <2>4
    <2>. QED  BY <1>1, <1>7, <2>1, <2>2, <2>5 DEF Charges, at
  <1>. QED  BY <1>6, <1>7

(* To the time the processor has spent in each state.                      *)
LEMMA TickShared ==
  ASSUME Charges, Shared, NEW user \in BOOLEAN, NEW noproc \in BOOLEAN,
         noproc => ~user, NEW basepri \in BOOLEAN,
         ChargedTick(user, noproc, basepri)
  PROVE  Shared'
  <1>. DEFINE at == gatherstats(user, noproc, basepri, setting.nice)
              c == cp_time
              d == cp_time'
  <1>1. /\ c \in [States -> Nat] /\ ticks \in Nat
        /\ c["CP_USER"] + c["CP_NICE"] = usage.utime
        /\ usage.utime + c["CP_SYS"] + c["CP_IDLE"] = ticks
        /\ c["CP_SYS"] >= usage.stime
        /\ usage.utime \in Nat /\ usage.stime \in Nat
    BY DEF Shared, Charges, UsageInv, UsageType
  <1>2. /\ usage'.utime = usage.utime + (IF user THEN 1 ELSE 0)
        /\ usage'.stime = usage.stime + (IF user \/ noproc THEN 0 ELSE 1)
    BY TickProcess
  <1>3. /\ at \in States
        /\ user <=> at \in {"CP_USER", "CP_NICE"}
        /\ ~noproc /\ ~user => at = "CP_SYS"
    <2>1. setting.nice \in BOOLEAN
      BY SettingTypes DEF Charges, SettingType
    <2>. QED  BY <2>1, StateCharged
  <1>4. d = [c EXCEPT ![at] = @ + 1] /\ ticks' = ticks + 1
    BY DEF ChargedTick
  <1>. HIDE DEF at, c, d
  <1>5. /\ d \in [States -> Nat]
        /\ \A x \in States : d[x] = IF x = at THEN c[x] + 1 ELSE c[x]
    BY <1>1, <1>3, <1>4
  <1>6. \A x \in States : c[x] \in Nat
    BY <1>1
  <1>7. {"CP_USER", "CP_NICE", "CP_SYS", "CP_IDLE"} = States
    BY DEF States
  <1>8. /\ d["CP_USER"] + d["CP_NICE"] = usage'.utime
        /\ usage'.utime + d["CP_SYS"] + d["CP_IDLE"] = ticks'
        /\ d["CP_SYS"] >= usage'.stime
    <2>1. CASE at = "CP_USER"
      BY <1>1, <1>2, <1>3, <1>4, <1>5, <1>6, <1>7, <2>1
    <2>2. CASE at = "CP_NICE"
      BY <1>1, <1>2, <1>3, <1>4, <1>5, <1>6, <1>7, <2>2
    <2>3. CASE at = "CP_SYS"
      BY <1>1, <1>2, <1>3, <1>4, <1>5, <1>6, <1>7, <2>3
    <2>4. CASE at = "CP_IDLE"
      BY <1>1, <1>2, <1>3, <1>4, <1>5, <1>6, <1>7, <2>4
    <2>. QED  BY <1>3, <2>1, <2>2, <2>3, <2>4 DEF States
  <1>. QED  BY <1>1, <1>4, <1>5, <1>8 DEF Shared, d

-----------------------------------------------------------------------------
(* The lamps.                                                              *)
LEMMA ModeOf ==
  /\ mode(UserPs) = 3 /\ mode(KernelPs) = 0 /\ mode(DriverPs) = 0
  BY SMT DEF mode, UserPs, KernelPs, DriverPs

(* The registers of the bank that decode_phys_addr looks up.               *)
LEMMA LampsDecoded ==
  ASSUME NEW pc \in Pcs, NEW base \in Bases,
         NEW ps \in {UserPs, KernelPs, DriverPs}
  PROVE  AddressRight(pc, base) => Decoded[pc][ps][base] = Mmu(pc, base)
  <1>1. /\ pc \in Nat /\ pc < 65536 /\ base \in Nat /\ base < 65536
    <2>1. pc \in Word /\ base \in Word
      BY AddressAssumption
    <2>2. \A x \in Word : x \in Nat /\ x < 65536
      BY SMT DEF Word
    <2>. QED  BY <2>1, <2>2
  <1>. DEFINE i == AprIndex(pc, ps)
              apr == OnlyIn(i, base)
  <1>2. mode(ps) \in {0, 3}
    BY ModeOf
  <1>3. segnum(pc) \in 0 .. 7
    BY <1>1, SMT DEF segnum
  <1>4. i \in 0 .. 15
    <2>. DEFINE n == segnum(pc)
    <2>1. i = IF mode(ps) = 0 THEN n ELSE n + 8
      BY DEF AprIndex
    <2>. HIDE DEF i, n
    <2>. QED  BY <1>3, <2>1 DEF n
  <1>5. apr[i] = base
    <2>. HIDE DEF i
    <2>. QED  BY <1>4 DEF OnlyIn
  <1>6. decode_phys_addr(pc, ps, apr)
          = PhysMask(Or(AprMask(base) * 64, OffsetMask(pc)))
    <2>. HIDE DEF apr
    <2>. QED  BY <1>2, <1>5 DEF decode_phys_addr, i
  <1>7. Decoded[pc][ps][base] = decode_phys_addr(pc, ps, apr)
    BY DEF Decoded
  <1>. QED  BY <1>1, <1>6, <1>7, LampsRight

-----------------------------------------------------------------------------
(* The steps of the clock.                                                 *)
Slew ==
  /\ InTicks(clock') + clock'.adjdelta = ticks' + asked'
  /\ InTicks(clock') - InTicks(clock) \in 0 .. 2

(* A tick, a correction, a question, and nothing.                          *)
LEMMA ClockTick ==
  ASSUME ClockInv, NEW pc \in Pcs, NEW base \in Bases,
         NEW ps \in {UserPs, KernelPs, DriverPs}, NEW noproc \in BOOLEAN,
         hardclock_charges(pc, ps, base, noproc)
  PROVE  ClockInv' /\ Slew
  <1>. DEFINE user == ps = UserPs
              basepri == ps # DriverPs
  <1>1. user \in BOOLEAN /\ basepri \in BOOLEAN
    OBVIOUS
  <1>2. noproc => ~user
    BY DEF hardclock_charges
  <1>3. ChargedTick(user, noproc, basepri)
    BY DEF hardclock_charges, ChargedTick
  <1>4. /\ clock' = Advanced(clock) /\ asked' = asked /\ ticks' = ticks + 1
        /\ answer' = [of |-> "lamps", pc |-> pc, base |-> base,
                      is |-> Decoded[pc][ps][base]]
    BY DEF hardclock_charges
  <1>. HIDE DEF user, basepri
  <1>5. Charges' /\ Shared'
    BY <1>1, <1>2, <1>3, TickProcess, TickShared DEF ClockInv
  <1>6. /\ IsClock(clock) /\ asked \in Int /\ ticks \in Nat
        /\ InTicks(clock) + clock.adjdelta = ticks + asked
    BY DEF ClockInv, Kept, Shared
  <1>7. /\ IsClock(clock')
        /\ InTicks(clock') + clock'.adjdelta
             = InTicks(clock) + clock.adjdelta + 1
        /\ InTicks(clock') - InTicks(clock) \in 0 .. 2
    BY <1>4, <1>6, AdvancedClock
  <1>8. InTicks(clock) \in Int /\ clock.adjdelta \in Int
    BY <1>6, HzType DEF InTicks, IsClock
  <1>9. Kept' /\ Slew
    BY <1>4, <1>6, <1>7, <1>8 DEF Kept, Slew
  <1>10. HztoSound'
    BY <1>4 DEF HztoSound
  <1>11. PanelAddressRight'
    <2>1. /\ answer'.pc = pc /\ answer'.base = base
          /\ answer'.is = Decoded[pc][ps][base]
      BY <1>4
    <2>. QED  BY <2>1, LampsDecoded DEF PanelAddressRight
  <1>. QED  BY <1>5, <1>9, <1>10, <1>11 DEF ClockInv

LEMMA ClockAdjusted ==
  ASSUME ClockInv, NEW delta \in Adjust, adjtime(delta)
  PROVE  ClockInv' /\ Slew
  <1>1. /\ IsClock(clock) /\ asked \in Int /\ ticks \in Nat
        /\ InTicks(clock) + clock.adjdelta = ticks + asked
    BY DEF ClockInv, Kept, Shared
  <1>2. delta \in Int
    BY InputAssumption, SMT
  <1>3. /\ asked' = asked - clock.adjdelta + delta
        /\ clock' = [clock EXCEPT !.adjdelta = delta]
        /\ answer' = [of |-> "adjtime"] /\ ticks' = ticks
        /\ setting' = setting /\ usage' = usage /\ cp_time' = cp_time
        /\ posted' = posted
    BY DEF adjtime, charges
  <1>4. PICK x \in Int, y \in Int, z \in Int :
          clock = [sec |-> x, lbolt |-> y, adjdelta |-> z]
    BY <1>1 DEF IsClock
  <1>5. clock' = [sec |-> x, lbolt |-> y, adjdelta |-> delta]
    BY <1>3, <1>4
  <1>6. /\ InTicks(clock') = InTicks(clock) /\ InTicks(clock) \in Int
        /\ clock.adjdelta = z /\ clock'.adjdelta = delta /\ IsClock(clock')
    BY <1>2, <1>4, <1>5, HzType DEF InTicks, IsClock
  <1>7. Kept' /\ Slew
    BY <1>1, <1>2, <1>3, <1>6 DEF Kept, Slew
  <1>8. Charges' /\ Shared'
    BY <1>3 DEF ClockInv, Charges, Shared
  <1>9. HztoSound' /\ PanelAddressRight'
    BY <1>3 DEF HztoSound, PanelAddressRight
  <1>. QED  BY <1>7, <1>8, <1>9 DEF ClockInv

LEMMA ClockAsked ==
  ASSUME ClockInv, NEW sec \in Seconds, NEW usec \in Usecs, ask(sec, usec)
  PROVE  ClockInv' /\ Slew
  <1>1. /\ clock' = clock /\ asked' = asked /\ ticks' = ticks
        /\ setting' = setting /\ usage' = usage /\ cp_time' = cp_time
        /\ posted' = posted
        /\ answer' = [of |-> "hzto", sec |-> sec, usec |-> usec,
                      is |-> hzto(sec, usec)]
    BY DEF ask, charges
  <1>2. Charges' /\ Shared' /\ Kept'
    BY <1>1 DEF ClockInv, Charges, Shared, Kept
  <1>3. InTicks(clock) \in Int
    BY HzType DEF ClockInv, Kept, InTicks, IsClock
  <1>4. Slew
    BY <1>1, <1>3 DEF ClockInv, Kept, Slew
  <1>5. /\ sec \in Int /\ -2147483 < sec /\ sec =< MaxLong
        /\ usec \in Int /\ -1000000 < usec /\ usec < 1000000
    BY InputAssumption, SMT
  <1>6. Sound(sec, sec * 1000 + Quotient(usec, 1000), hzto(sec, usec))
    BY <1>5, HztoCorrect, SMT
  <1>7. HztoSound'
    <2>. DEFINE n == hzto(sec, usec)
                ms == sec * 1000 + Quotient(usec, 1000)
    <2>1. /\ answer'.sec = sec /\ answer'.usec = usec /\ answer'.is = n
      BY <1>1
    <2>2. Sound(sec, ms, n)
      BY <1>6
    <2>. HIDE DEF n, ms
    <2>. QED  BY <2>1, <2>2 DEF HztoSound, Sound, Tick, ms
  <1>8. PanelAddressRight'
    BY <1>1 DEF PanelAddressRight
  <1>. QED  BY <1>2, <1>4, <1>7, <1>8 DEF ClockInv

LEMMA ClockStep ==
  ASSUME ClockInv, ClockNext
  PROVE  ClockInv' /\ Slew
  BY ClockTick, ClockAdjusted, ClockAsked DEF ClockNext

LEMMA ClockStutter ==
  ASSUME ClockInv, UNCHANGED clockVars
  PROVE  ClockInv'
  BY DEF ClockInv, clockVars, charges, Charges, Shared, Kept, HztoSound,
         PanelAddressRight

(* The clock keeps its invariant.                                          *)
THEOREM ClockCorrect == ClockSpec => []ClockInv
  <1>1. ClockInv /\ [ClockNext]_clockVars => ClockInv'
    BY ClockStep, ClockStutter
  <1>. QED  BY <1>1, ClockInitial, PTL DEF ClockSpec

(* What has been charged, from the parts of the invariant.                 *)
LEMMA ClockInvTicks == ClockInv => TicksCharged
  <1>. SUFFICES ASSUME ClockInv PROVE TicksCharged
    OBVIOUS
  <1>. DEFINE c == cp_time
              user == c["CP_USER"] + c["CP_NICE"]
              kernel == c["CP_SYS"] + c["CP_IDLE"]
  <1>1. /\ c \in [States -> Nat]
        /\ user = usage.utime
        /\ usage.utime + c["CP_SYS"] + c["CP_IDLE"] = ticks
        /\ c["CP_SYS"] >= usage.stime
    BY DEF ClockInv, Shared
  <1>2. /\ UsageInv(usage, setting) /\ setting \in Settings
        /\ posted = PostedAt(setting, usage.utime, Spent(usage))
    BY DEF ClockInv, Charges
  <1>3. user + kernel = ticks
    <2>1. c["CP_SYS"] \in Nat /\ c["CP_IDLE"] \in Nat /\ usage.utime \in Nat
      BY <1>1, <1>2 DEF States, UsageInv, UsageType
    <2>. HIDE DEF c
    <2>. QED  BY <1>1, <2>1
  <1>4. usage.cur < setting.max + Step
    <2>. DEFINE n == Spent(usage)
    <2>1. /\ n \in Nat /\ usage.cur \in Nat
          /\ LimitAt(setting.cur, setting.max, usage.cur, n)
      BY <1>2 DEF UsageInv, UsageType, Spent
    <2>2. /\ setting.cur \in Nat /\ setting.max \in Nat
          /\ setting.cur =< setting.max
      BY <1>2, SettingTypes DEF SettingType
    <2>. HIDE DEF n
    <2>. QED  BY <2>1, <2>2, LimitBound
  <1>5. usage.p_cpu = IF Spent(usage) > MaxCpu THEN MaxCpu ELSE Spent(usage)
    BY <1>2 DEF UsageInv
  <1>6. posted = [s \in Signals |->
            CASE s = "SIGVTALRM" -> Fired(setting.virt, user)
              [] s = "SIGPROF"   -> Fired(setting.prof, Spent(usage))
              [] s = "SIGXCPU"   ->
                   Warned(setting.cur, setting.max, Spent(usage))]
    <2>1. posted = PostedAt(setting, user, Spent(usage))
      BY <1>1, <1>2, Zenon
    <2>. HIDE DEF user
    <2>. QED  BY <2>1, Zenon DEF PostedAt, PostedOf
  <1>. QED  BY <1>1, <1>3, <1>4, <1>5, <1>6 DEF TicksCharged

(* Every tick is charged once; timers fire and limits warn as often as     *)
(* their settings say, however many ticks there are.                       *)
THEOREM ClockCharges == ClockSpec => []TicksCharged
  BY ClockCorrect, ClockInvTicks, PTL

(* For every hz from 2 to 1000, hzto answers to every time to come with    *)
(* its ticks or, if there are more than an int can say, with the greatest  *)
(* int, and never waits for one in the past that is within an int's reach. *)
THEOREM ClockWaits == ClockSpec => []HztoSound
  <1>1. ClockInv => HztoSound
    BY DEF ClockInv
  <1>. QED  BY <1>1, ClockCorrect, PTL

(* The lamps show the physical address, from the registers of every mode,  *)
(* for every pc and base that decode_phys_addr cuts nothing off.           *)
THEOREM ClockShows == ClockSpec => []PanelAddressRight
  <1>1. ClockInv => PanelAddressRight
    BY DEF ClockInv
  <1>. QED  BY <1>1, ClockCorrect, PTL

(* No correction is lost or applied twice; time never runs backwards.      *)
THEOREM ClockSlews == ClockSpec => TimeSlewed
  <1>1. ClockInv /\ [ClockNext]_clockVars => [Slew]_clock
    BY ClockStep DEF clockVars
  <1>2. ClockSpec => [][Slew]_clock
    BY <1>1, ClockCorrect, PTL DEF ClockSpec
  <1>3. Slew <=> /\ InTicks(clock') + clock'.adjdelta = ticks' + asked'
                 /\ InTicks(clock') - InTicks(clock) \in 0 .. 2
    BY DEF Slew
  <1>. QED  BY <1>2, <1>3, PTL DEF TimeSlewed
=============================================================================
