--------------------------- MODULE BsdPanelProofs ---------------------------
(***************************************************************************)
(* Proofs about BsdPanel, for any set of clients, any number of words and  *)
(* ticks, any faults and any time between the test of panel_seq and the    *)
(* sleep: the types, how long a client may sleep on a panel it has not     *)
(* been given, and in which order the words of a frame were written.       *)
(***************************************************************************)
EXTENDS BsdPanel, TLAPS

ClientRecords ==
  [at : Places, next : Words, copied : [Words -> Nat], seen : Nat,
   missed : Nat, signalled : BOOLEAN]

Sent == {"test", "block", "asleep", "send"}

(* What the client has copied: the words of this frame in the order they   *)
(* were written, each at least as new as the tick the client was woken for *)
(* and as every word left from the frame before.                           *)
InOrder(r) ==
  /\ r.seen =< panel_seq
  /\ \A w \in Words : r.copied[w] =< panel_seq
  /\ r.at = "copy" => \A v, w \in Words : v < r.next =>
       /\ r.copied[v] >= r.seen
       /\ v =< w /\ w < r.next => r.copied[v] =< r.copied[w]
       /\ w >= r.next => r.copied[v] >= r.copied[w]
  /\ r.at \in Sent =>
       /\ \A v, w \in Words : v =< w => r.copied[v] =< r.copied[w]
       /\ r.copied[1] >= r.seen

(* A client on its way to sleep, or asleep, has been given every tick but  *)
(* those that fell between its test and its sleep.                         *)
Brief(r) ==
  r.at \in {"block", "asleep"} =>
    panel_seq - last_seq =< r.missed /\ r.missed =< Window

FrameInv ==
  /\ \A w \in Words : panel[w] = panel_seq
  /\ \A p \in Client : InOrder(client[p]) /\ Brief(client[p])

-----------------------------------------------------------------------------
LEMMA WordFacts == 1 \in Words /\ NWords \in Words
BY PanelAssumption DEF Words

LEMMA PanelInit == Init => TypeOK /\ FrameInv
<1> SUFFICES ASSUME Init PROVE TypeOK /\ FrameInv
  OBVIOUS
<1>1. Fresh \in ClientRecords
  <2>1. 1 \in Words /\ 0 \in Nat /\ [w \in Words |-> 0] \in [Words -> Nat]
    BY WordFacts
  <2> QED BY <2>1, Zenon DEF Fresh, ClientRecords, Places
<1>2. TypeOK
  BY <1>1 DEF Init, TypeOK, ClientRecords
<1>3. FrameInv
  BY DEF Init, FrameInv, InOrder, Brief, Fresh, Sent
<1> QED BY <1>2, <1>3

(* A client is given another record while panel and panel_seq stay as they *)
(* are; last_seq stays too or catches up.                                  *)
LEMMA OneClient ==
  ASSUME TypeOK, FrameInv, NEW p \in Client, NEW r \in ClientRecords,
         client' = [client EXCEPT ![p] = r],
         UNCHANGED <<panel, panel_seq>>,
         last_seq' \in {last_seq, panel_seq},
         inKernel' \in {inKernel, p, Nobody}, frames' \in Nat,
         InOrder(r), Brief(r)
  PROVE  TypeOK' /\ FrameInv'
<1>1. TypeOK'
  BY DEF TypeOK, ClientRecords
<1>2. ASSUME NEW q \in Client PROVE InOrder(client[q])' /\ Brief(client[q])'
  <2>1. PICK s \in ClientRecords :
          client'[q] = s /\ InOrder(s) /\ Brief(s)
    <3>1. CASE q = p
      BY <3>1 DEF TypeOK
    <3>2. CASE q # p
      BY <3>2 DEF TypeOK, FrameInv, ClientRecords
    <3> QED BY <3>1, <3>2
  <2>2. InOrder(client[q])'
    BY <2>1 DEF InOrder
  <2>3. s.missed \in Nat /\ panel_seq \in Nat /\ last_seq \in Nat
    BY DEF ClientRecords, TypeOK
  <2>4. Brief(client[q])'
    BY <2>1, <2>3 DEF Brief
  <2> QED BY <2>2, <2>4
<1> QED BY <1>1, <1>2 DEF FrameInv

(* A tick: the panel is newer than all that has been copied.               *)
LEMMA TickSteps == ASSUME TypeOK, FrameInv, hardclock
                   PROVE  TypeOK' /\ FrameInv'
<1>1. /\ panel_seq \in Nat /\ panel_seq' = panel_seq + 1
      /\ panel' = [w \in Words |-> panel_seq']
      /\ last_seq \in Nat /\ Window \in Nat
      /\ UNCHANGED <<last_seq, inKernel, frames>>
  BY PanelAssumption DEF hardclock, TypeOK
<1>2. ASSUME NEW p \in Client
      PROVE  /\ client'[p] \in ClientRecords
             /\ InOrder(client[p])' /\ Brief(client[p])'
  <2> DEFINE r == client[p]
  <2>1. /\ r \in ClientRecords /\ InOrder(r) /\ Brief(r)
        /\ r.missed \in Nat /\ r.copied \in [Words -> Nat] /\ r.seen \in Nat
    BY DEF TypeOK, ClientRecords, FrameInv
  <2>2. r.at = "block" => r.missed < Window
    BY DEF hardclock
  <2>3. client'[p] = CASE r.at = "asleep" -> [r EXCEPT !.at = "test"]
                       [] r.at = "block" -> [r EXCEPT !.missed = @ + 1]
                       [] OTHER -> r
    BY DEF hardclock
  <2>4. ASSUME NEW s \in ClientRecords, s.copied = r.copied, s.seen = r.seen,
               s.next = r.next, s.at = r.at \/ {s.at, r.at} \subseteq Sent,
               client'[p] = s
        PROVE  InOrder(client[p])'
    <3>1. \A w \in Words : s.copied[w] =< panel_seq'
      <4> SUFFICES ASSUME NEW w \in Words PROVE r.copied[w] =< panel_seq + 1
        BY <1>1, <2>4
      <4>1. r.copied[w] =< panel_seq /\ r.copied[w] \in Nat
        BY <2>1 DEF InOrder
      <4> QED BY <1>1, <4>1
    <3>2. s.seen =< panel_seq'
      BY <1>1, <2>1, <2>4 DEF InOrder
    <3> HIDE DEF r
    <3>3. s.at = "copy" => r.at = "copy"
      BY <2>4 DEF Sent
    <3>4. s.at \in Sent => r.at \in Sent
      BY <2>4
    <3> QED BY <2>1, <2>4, <3>1, <3>2, <3>3, <3>4 DEF InOrder
  <2>5. CASE r.at = "asleep"
    <3> DEFINE s == [r EXCEPT !.at = "test"]
    <3>1. /\ s \in ClientRecords /\ s.copied = r.copied /\ s.seen = r.seen
          /\ s.next = r.next /\ s.at = "test"
      BY <2>1 DEF ClientRecords, Places
    <3>2. client'[p] = s
      BY <2>3, <2>5
    <3> HIDE DEF s, r
    <3>3. InOrder(client[p])'
      BY <2>4, <2>5, <3>1, <3>2 DEF Sent
    <3> QED BY <3>1, <3>2, <3>3 DEF Brief
  <2>6. CASE r.at = "block"
    <3> DEFINE s == [r EXCEPT !.missed = @ + 1]
    <3>1. /\ s \in ClientRecords /\ s.copied = r.copied /\ s.seen = r.seen
          /\ s.next = r.next /\ s.at = "block" /\ s.missed = r.missed + 1
      BY <2>1, <2>6 DEF ClientRecords, Places
    <3>2. client'[p] = s
      BY <2>3, <2>6
    <3> HIDE DEF s, r
    <3>3. InOrder(client[p])'
      BY <2>4, <2>6, <3>1, <3>2 DEF Sent
    <3>4. panel_seq - last_seq =< r.missed /\ r.missed < Window
      BY <2>1, <2>2, <2>6 DEF Brief
    <3>5. Brief(client[p])'
      BY <1>1, <2>1, <3>1, <3>2, <3>4 DEF Brief
    <3> QED BY <3>1, <3>2, <3>3, <3>5
  <2>7. CASE r.at \notin {"asleep", "block"}
    <3>1. client'[p] = r
      BY <2>3, <2>7
    <3> HIDE DEF r
    <3>2. InOrder(client[p])'
      BY <2>1, <2>4, <3>1
    <3> QED BY <2>1, <2>7, <3>1, <3>2 DEF Brief
  <2> QED BY <2>5, <2>6, <2>7
<1>3. client' \in [Client -> ClientRecords]
  <2>1. client' = [p \in Client |-> client'[p]]
    BY DEF hardclock
  <2> QED BY <1>2, <2>1
<1>4. TypeOK'
  BY <1>1, <1>3 DEF TypeOK, ClientRecords
<1> QED BY <1>1, <1>2, <1>4 DEF FrameInv

(* The clients.                                                            *)
LEMMA ClientSteps ==
  ASSUME TypeOK, FrameInv, NEW p \in Client, Step(p) \/ signal(p)
  PROVE  TypeOK' /\ FrameInv'
<1> USE DEF UserMode, KernelMode, Move
<1>0. /\ client[p] \in ClientRecords
      /\ InOrder(client[p]) /\ Brief(client[p])
      /\ panel_seq \in Nat /\ last_seq \in Nat /\ frames \in Nat
      /\ \A w \in Words : panel[w] = panel_seq
  BY DEF TypeOK, ClientRecords, FrameInv
<1> DEFINE Same == UNCHANGED <<panel, panel_seq>>
                   /\ inKernel' \in {inKernel, p, Nobody} /\ frames' \in Nat
(* Steps that go on to a place where nothing is said of what was copied.   *)
<1>1. ASSUME NEW to \in {"read", "gone"},
             client' = [client EXCEPT ![p].at = to],
             Same, UNCHANGED last_seq
      PROVE  TypeOK' /\ FrameInv'
  <2> DEFINE r == [client[p] EXCEPT !.at = to]
  <2>1. r \in ClientRecords /\ r.at = to /\ r.copied = client[p].copied
        /\ r.seen = client[p].seen
    BY <1>0 DEF ClientRecords, Places
  <2>2. client' = [client EXCEPT ![p] = r]
    BY <1>1 DEF TypeOK
  <2> HIDE DEF r
  <2>3. InOrder(r) /\ Brief(r)
    BY <1>0, <2>1 DEF InOrder, Brief, Sent
  <2> QED BY <1>1, <2>1, <2>2, <2>3, OneClient
(* Steps from one place after the frame was copied to another.             *)
<1>2. ASSUME NEW to \in Sent, client[p].at \in Sent,
             client' = [client EXCEPT ![p].at = to],
             to \in {"test", "send"} \/ client[p].at = "block",
             Same, UNCHANGED last_seq
      PROVE  TypeOK' /\ FrameInv'
  <2> DEFINE r == [client[p] EXCEPT !.at = to]
  <2>1. r \in ClientRecords /\ r.at = to /\ r.copied = client[p].copied
        /\ r.seen = client[p].seen /\ r.missed = client[p].missed
    BY <1>0 DEF ClientRecords, Places, Sent
  <2>2. client' = [client EXCEPT ![p] = r]
    BY <1>2 DEF TypeOK
  <2> HIDE DEF r
  <2>3. InOrder(r) /\ Brief(r)
    BY <1>0, <1>2, <2>1 DEF InOrder, Brief, Sent
  <2> QED BY <1>2, <2>1, <2>2, <2>3, OneClient
<1>3. CASE setup(p) \/ die(p)
  BY <1>0, <1>1, <1>3 DEF setup, die
<1>4. CASE read_panel_from_kmem(p)
  <2>1. CASE client' = [client EXCEPT ![p].at = "copy", ![p].next = 1]
             /\ inKernel' = p
    <3> DEFINE r == [client[p] EXCEPT !.at = "copy", !.next = 1]
    <3>1. r \in ClientRecords /\ r.at = "copy" /\ r.next = 1
          /\ r.copied = client[p].copied /\ r.seen = client[p].seen
      BY <1>0, WordFacts, Zenon DEF ClientRecords, Places
    <3>2. client' = [client EXCEPT ![p] = r]
      BY <2>1 DEF TypeOK
    <3>3. \A v \in Words : ~(v < 1)
      BY DEF Words
    <3> HIDE DEF r
    <3>4. InOrder(r) /\ Brief(r)
      BY <1>0, <3>1, <3>3 DEF InOrder, Brief, Sent
    <3> QED BY <1>0, <1>4, <2>1, <3>1, <3>2, <3>4, OneClient
            DEF read_panel_from_kmem
  <2>2. CASE Move(p, "gone") /\ UNCHANGED inKernel
    BY <1>0, <1>1, <1>4, <2>2 DEF read_panel_from_kmem
  <2> QED BY <1>4, <2>1, <2>2 DEF read_panel_from_kmem
<1>5. CASE copy(p)
  <2> DEFINE k == client[p].next
             last == k = NWords
             r == [client[p] EXCEPT
                     !.copied = [client[p].copied EXCEPT ![k] = panel[k]],
                     !.next = IF last THEN 1 ELSE k + 1,
                     !.at = IF last THEN "send" ELSE "copy"]
  <2>1. /\ k \in Words /\ k \in 1 .. NWords /\ NWords \in Nat
        /\ client[p].copied \in [Words -> Nat] /\ client[p].seen \in Nat
        /\ client[p].at = "copy" /\ panel[k] = panel_seq
    BY <1>0, <1>5, PanelAssumption DEF copy, ClientRecords, Words
  <2>2. r \in ClientRecords
    <3>1. (IF last THEN 1 ELSE k + 1) \in Words
      BY <2>1 DEF Words
    <3>2. [client[p].copied EXCEPT ![k] = panel[k]] \in [Words -> Nat]
      BY <1>0, <2>1
    <3> QED BY <1>0, <3>1, <3>2 DEF ClientRecords, Places
  <2>3. client' = [client EXCEPT ![p] = r]
    BY <1>5 DEF copy, TypeOK
  <2>4. /\ \A w \in Words : r.copied[w] = IF w = k THEN panel_seq
                                        ELSE client[p].copied[w]
        /\ r.seen = client[p].seen
        /\ r.next = IF last THEN 1 ELSE k + 1
        /\ r.at = IF last THEN "send" ELSE "copy"
    <3>1. r.copied = [client[p].copied EXCEPT ![k] = panel[k]]
      BY <1>0 DEF ClientRecords
    <3> QED BY <1>0, <2>1, <3>1 DEF ClientRecords
  <2>5. \A w \in Words : /\ client[p].copied[w] \in Nat
                         /\ client[p].copied[w] =< panel_seq
    BY <1>0, <2>1 DEF InOrder
  <2>6. \A w \in Words : r.copied[w] =< panel_seq
    BY <1>0, <2>4, <2>5
  <2>7. \A v \in Words : v =< k => r.copied[v] >= r.seen
    <3> SUFFICES ASSUME NEW v \in Words, v =< k PROVE r.copied[v] >= r.seen
      OBVIOUS
    <3>1. v < k => client[p].copied[v] >= client[p].seen
      BY <1>0, <2>1 DEF InOrder
    <3>2. client[p].seen =< panel_seq /\ v \in Int /\ k \in Int
      BY <1>0, <2>1 DEF InOrder, Words
    <3> HIDE DEF k, r, last
    <3> QED BY <1>0, <2>1, <2>4, <3>1, <3>2
  <2>8. \A v, w \in Words :
          v =< k => /\ v =< w /\ w =< k => r.copied[v] =< r.copied[w]
                    /\ w > k => r.copied[v] >= r.copied[w]
    <3> SUFFICES ASSUME NEW v \in Words, NEW w \in Words, v =< k
                 PROVE  /\ v =< w /\ w =< k => r.copied[v] =< r.copied[w]
                        /\ w > k => r.copied[v] >= r.copied[w]
      OBVIOUS
    <3>1. v < k => /\ v =< w /\ w < k
                        => client[p].copied[v] =< client[p].copied[w]
                   /\ w >= k => client[p].copied[v] >= client[p].copied[w]
      BY <1>0, <2>1 DEF InOrder
    <3>2. v \in Int /\ w \in Int /\ k \in Int
      BY <2>1 DEF Words
    <3>3. /\ client[p].copied[v] \in Nat /\ client[p].copied[w] \in Nat
          /\ client[p].copied[v] =< panel_seq
          /\ client[p].copied[w] =< panel_seq
      BY <2>5
    <3> HIDE DEF k, r, last
    <3> QED BY <1>0, <2>4, <3>1, <3>2, <3>3
  <2>9. InOrder(r) /\ Brief(r)
    <3>1. r.seen =< panel_seq
      BY <1>0, <2>4 DEF InOrder
    <3>2. CASE last
      <4>1. \A w \in Words : w =< k
        BY <3>2 DEF Words
      <4>2. r.at = "send" /\ 1 \in Words
        BY <2>4, <3>2, WordFacts
      <4> HIDE DEF k, r, last
      <4> QED BY <2>6, <2>7, <2>8, <3>1, <4>1, <4>2 DEF InOrder, Brief, Sent
    <3>3. CASE ~last
      <4>1. r.at = "copy" /\ r.next = k + 1
        BY <2>4, <3>3
      <4>2. \A w \in Words : /\ w < k + 1 <=> w =< k
                             /\ w >= k + 1 <=> w > k
        BY <2>1 DEF Words
      <4> HIDE DEF k, r, last
      <4> QED BY <2>6, <2>7, <2>8, <3>1, <4>1, <4>2 DEF InOrder, Brief, Sent
    <3> QED BY <3>2, <3>3
  <2>10. Same /\ UNCHANGED last_seq
    BY <1>0, <1>5 DEF copy
  <2> HIDE DEF r
  <2> QED BY <2>2, <2>3, <2>9, <2>10, OneClient
<1>6. CASE send(p)
  <2>1. CASE Move(p, "gone") /\ UNCHANGED <<inKernel, frames>>
    BY <1>0, <1>1, <1>6, <2>1 DEF send
  <2>2. CASE frames' = frames + 1 /\ inKernel' = p /\ Move(p, "test")
    BY <1>0, <1>2, <1>6, <2>2 DEF send, Sent
  <2> QED BY <1>6, <2>1, <2>2 DEF send
<1>7. CASE sys_wait_for_panel(p)
  <2>1. CASE MustWait
    <3> DEFINE r == [client[p] EXCEPT !.at = "block", !.missed = 0]
    <3>1. r \in ClientRecords /\ r.at = "block" /\ r.missed = 0
          /\ r.copied = client[p].copied /\ r.seen = client[p].seen
      <4>1. 0 \in Nat
        OBVIOUS
      <4> QED BY <1>0, <4>1, Zenon DEF ClientRecords, Places
    <3>2. client' = [client EXCEPT ![p] = r] /\ client[p].at = "test"
      BY <1>7, <2>1 DEF sys_wait_for_panel, TypeOK
    <3> HIDE DEF r
    <3>3. InOrder(r)
      BY <1>0, <3>1, <3>2 DEF InOrder, Sent
    <3>4. Brief(r)
      BY <1>0, <2>1, <3>1, PanelAssumption DEF Brief, MustWait
    <3> QED BY <1>0, <1>7, <2>1, <3>1, <3>2, <3>3, <3>4, OneClient
            DEF sys_wait_for_panel
  <2>2. CASE ~MustWait
    <3> DEFINE r == [client[p] EXCEPT !.at = "read", !.seen = panel_seq]
    <3>1. r \in ClientRecords /\ r.at = "read" /\ r.seen = panel_seq
          /\ r.copied = client[p].copied
      BY <1>0 DEF ClientRecords, Places
    <3>2. client' = [client EXCEPT ![p] = r]
      BY <1>7, <2>2 DEF sys_wait_for_panel, TypeOK
    <3> HIDE DEF r
    <3>3. InOrder(r) /\ Brief(r)
      BY <1>0, <3>1 DEF InOrder, Brief, Sent
    <3> QED BY <1>0, <1>7, <2>2, <3>1, <3>2, <3>3, OneClient
            DEF sys_wait_for_panel
  <2> QED BY <2>1, <2>2
<1>8. CASE tsleep(p)
  BY <1>0, <1>2, <1>8 DEF tsleep, Sent
<1>9. CASE signal(p)
  <2> DEFINE r == [client[p] EXCEPT !.signalled = TRUE,
                     !.at = IF client[p].at = "asleep" THEN "test"
                            ELSE client[p].at]
  <2>1. /\ r \in ClientRecords /\ r.copied = client[p].copied
        /\ r.seen = client[p].seen /\ r.missed = client[p].missed
        /\ r.next = client[p].next
        /\ r.at = IF client[p].at = "asleep" THEN "test" ELSE client[p].at
    BY <1>0 DEF ClientRecords, Places
  <2>2. client' = [client EXCEPT ![p] = r]
    BY <1>9 DEF signal, TypeOK
  <2> HIDE DEF r
  <2>3. InOrder(r)
    BY <1>0, <2>1 DEF InOrder, Sent
  <2>4. Brief(r)
    BY <1>0, <2>1 DEF Brief
  <2> QED BY <1>0, <1>9, <2>1, <2>2, <2>3, <2>4, OneClient DEF signal
<1> QED BY <1>3, <1>4, <1>5, <1>6, <1>7, <1>8, <1>9 DEF Step

-----------------------------------------------------------------------------
(* Every reachable state is well typed and satisfies the invariant.        *)
THEOREM PanelCorrect == Spec => [](TypeOK /\ FrameInv)
<1>1. TypeOK /\ FrameInv /\ [Next]_vars => TypeOK' /\ FrameInv'
  <2> SUFFICES ASSUME TypeOK, FrameInv, [Next]_vars PROVE TypeOK' /\ FrameInv'
    OBVIOUS
  <2>1. CASE UNCHANGED vars
    BY <2>1 DEF vars, TypeOK, FrameInv, InOrder, Brief
  <2> QED BY <2>1, TickSteps, ClientSteps DEF Next
<1> QED BY <1>1, PanelInit, PTL DEF Spec

(* A tick that falls between the test and the sleep delays a client by the *)
(* ticks of that moment and no more.                                       *)
THEOREM SleepIsBrief == Spec => []SleepsBriefly
<1>1. FrameInv => SleepsBriefly
  BY DEF FrameInv, Brief, SleepsBriefly
<1> QED BY <1>1, PanelCorrect, PTL

(* The words of a frame, and of the next one, are in the order of ticks.   *)
THEOREM FramesInOrder == Spec => []FrameOrdered
<1>1. TypeOK /\ FrameInv => FrameOrdered
  BY DEF FrameInv, InOrder, FrameOrdered, Sent
<1> QED BY <1>1, PanelCorrect, PTL
=============================================================================
