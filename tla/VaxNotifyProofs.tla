-------------------------- MODULE VaxNotifyProofs --------------------------
(***************************************************************************)
(* Proofs about VaxNotify, for any set of pids, any number of ticks and of *)
(* processes and any faults: the types, the order in which a client's      *)
(* words were written, and what follows for the frames it sends.           *)
(***************************************************************************)
EXTENDS VaxNotify, TLAPS

USE DEF kernelVars

ClientRecords ==
  [at : Steps, ignores : BOOLEAN, kq : BOOLEAN, knote : BOOLEAN,
   panel : Words, frame : Words, signalled : 0..MaxTicks, heard : 0..MaxTicks]

(* The clock interrupt keeps the types.                                     *)
LEMMA TickTypes == ASSUME TypeOK, Tick PROVE TypeOK'
<1>1. ticks' \in 0..MaxTicks
  BY VaxAssumption DEF Tick, TypeOK
<1>2. ASSUME NEW p \in Pid, Signal(p)
      PROVE  /\ proc' \in [Pid -> {"none", "client", "other", "zombie"}]
             /\ client' \in [Pid -> ClientRecords]
  <2>1. CASE proc' = proc
             /\ client' = [client EXCEPT ![p].knote = TRUE,
                                         ![p].signalled = ticks']
    BY <1>1, <2>1 DEF TypeOK, ClientRecords
  <2>2. CASE UNCHANGED <<proc, client>>
    BY <2>2 DEF TypeOK, ClientRecords
  <2>3. CASE Dies(p) /\ UNCHANGED client
    BY <2>3 DEF Dies, TypeOK, ClientRecords
  <2> QED BY <1>2, <2>1, <2>2, <2>3 DEF Signal
<1>3. /\ panel_client_pid' \in Pid \cup {0}
      /\ proc' \in [Pid -> {"none", "client", "other", "zombie"}]
      /\ client' \in [Pid -> ClientRecords]
  BY <1>2, Zenon DEF Tick, Notify, TypeOK, ClientRecords
<1>4. UNCHANGED <<panel_notification_enabled, starts>>
  BY DEF Tick
<1> QED BY <1>1, <1>3, <1>4 DEF TypeOK, ClientRecords

(* A client is given another record, and nothing else changes.              *)
LEMMA OneClient ==
  ASSUME TypeOK, NEW p \in Pid, NEW r \in ClientRecords,
         client' = [client EXCEPT ![p] = r],
         UNCHANGED <<kernelVars, starts, proc>>
  PROVE  TypeOK'
BY DEF TypeOK, ClientRecords

(* So do the clients and those who start, kill and administrate.            *)
LEMMA ClientTypes ==
  ASSUME TypeOK, NEW p \in Pid,
         ClientStep(p) \/ Fails(p) \/ WaitInterrupted(p)
  PROVE  TypeOK'
<1> USE DEF At, Goes, Exits, Dies, Steps, Words
<1>0. client[p] \in ClientRecords /\ ticks \in 0..MaxTicks
  BY DEF TypeOK, ClientRecords
<1>1. CASE SetupPanelNotification(p)
  <2> PICK ignores \in BOOLEAN, kq \in BOOLEAN :
        client' = [client EXCEPT ![p].at = "register",
                                 ![p].ignores = ignores, ![p].kq = kq]
    BY <1>1 DEF SetupPanelNotification
  <2> DEFINE r == [client[p] EXCEPT !.at = "register", !.ignores = ignores,
                                    !.kq = kq]
  <2>1. r \in ClientRecords
    BY <1>0 DEF ClientRecords
  <2>2. client' = [client EXCEPT ![p] = r]
    BY <1>1 DEF SetupPanelNotification, TypeOK
  <2> QED BY <1>1, <2>1, <2>2, OneClient DEF SetupPanelNotification
<1>2. CASE RegisterPid(p)
  BY <1>2 DEF RegisterPid, TypeOK
<1>3. CASE RegisterEnabled(p)
  BY <1>3 DEF RegisterEnabled, TypeOK
<1>4. CASE Open(p)
  BY <1>4 DEF Open, TypeOK
<1>5. CASE WaitForPanel(p)
  BY <1>5 DEF WaitForPanel, TypeOK
<1>6. CASE WaitInterrupted(p)
  BY <1>6 DEF WaitInterrupted, TypeOK
<1>7. CASE WaitFails(p) \/ Fails(p)
  BY <1>7 DEF WaitFails, Fails, TypeOK
<1>8. CASE ReadAddress(p)
  <2> DEFINE r == [client[p] EXCEPT !.at = "data", !.panel.address = ticks]
  <2>1. r \in ClientRecords
    BY <1>0 DEF ClientRecords
  <2>2. client' = [client EXCEPT ![p] = r]
    BY <1>8 DEF ReadAddress, TypeOK
  <2> QED BY <1>8, <2>1, <2>2, OneClient DEF ReadAddress
<1>9. CASE ReadData(p)
  <2> DEFINE r == [client[p] EXCEPT !.at = "send", !.panel.data = ticks]
  <2>1. r \in ClientRecords
    BY <1>0 DEF ClientRecords
  <2>2. client' = [client EXCEPT ![p] = r]
    BY <1>9 DEF ReadData, TypeOK
  <2> QED BY <1>9, <2>1, <2>2, OneClient DEF ReadData
<1>10. CASE SendFrame(p)
  <2> DEFINE r == [client[p] EXCEPT !.at = "wait", !.frame = client[p].panel]
  <2>1. r \in ClientRecords
    BY <1>0 DEF ClientRecords
  <2>2. client' = [client EXCEPT ![p] = r]
    BY <1>10 DEF SendFrame, TypeOK
  <2> QED BY <1>10, <2>1, <2>2, OneClient DEF SendFrame
<1> QED
  BY <1>1, <1>2, <1>3, <1>4, <1>5, <1>6, <1>7, <1>8, <1>9, <1>10
  DEF ClientStep

LEMMA ProcessTypes ==
  ASSUME TypeOK, NEW p \in Pid,
         Kill(p) \/ Reap(p) \/ \E kind \in {"client", "other"} : Start(p, kind)
  PROVE  TypeOK'
<1>1. CASE Kill(p) \/ Reap(p)
  BY <1>1 DEF TypeOK, Kill, Reap, Dies
<1>2. ASSUME NEW kind \in {"client", "other"}, Start(p, kind) PROVE TypeOK'
  <2>1. starts' \in 0..MaxStarts
    BY <1>2, VaxAssumption DEF TypeOK, Start
  <2>2. Fresh \in ClientRecords
    BY VaxAssumption DEF Fresh, NoWords, ClientRecords, Steps, Words
  <2>3. client' \in [Pid -> ClientRecords]
    BY <1>2, <2>2 DEF TypeOK, Start, ClientRecords
  <2> QED BY <1>2, <2>1, <2>3 DEF TypeOK, Start, ClientRecords
<1> QED BY <1>1, <1>2

(* Every reachable state is well typed.                                     *)
THEOREM VaxTypeCorrect == Spec => []TypeOK
<1>1. Init => TypeOK
  <2>1. Fresh \in ClientRecords
    BY VaxAssumption DEF Fresh, NoWords, ClientRecords, Steps, Words
  <2> QED BY <2>1, VaxAssumption DEF Init, TypeOK, ClientRecords
<1>2. TypeOK /\ [Next]_vars => TypeOK'
  <2> SUFFICES ASSUME TypeOK, [Next]_vars PROVE TypeOK'
    OBVIOUS
  <2>1. CASE Tick
    BY <2>1, TickTypes
  <2>2. CASE Admin
    BY <2>2 DEF Admin, TypeOK
  <2>3. ASSUME NEW p \in Pid,
               ClientStep(p) \/ Fails(p) \/ WaitInterrupted(p)
        PROVE  TypeOK'
    BY <2>3, ClientTypes
  <2>4. ASSUME NEW p \in Pid,
               Kill(p) \/ Reap(p)
                 \/ \E kind \in {"client", "other"} : Start(p, kind)
        PROVE  TypeOK'
    BY <2>4, ProcessTypes
  <2>5. CASE UNCHANGED vars
    BY <2>5 DEF vars, TypeOK
  <2> QED BY <2>1, <2>2, <2>3, <2>4, <2>5 DEF Next
<1> QED BY <1>1, <1>2, PTL DEF Spec

-----------------------------------------------------------------------------
(* A step that leaves ticks alone and gives one client a record in order    *)
(* keeps the invariant.                                                     *)
LEMMA OneOrdered ==
  ASSUME TypeOK, OrderInv, UNCHANGED ticks, NEW p \in Pid,
         NEW r \in ClientRecords, client' = [client EXCEPT ![p] = r],
         Ordered(r)
  PROVE  OrderInv'
<1> SUFFICES ASSUME NEW q \in Pid PROVE Ordered(client[q])'
  BY DEF OrderInv
<1>1. CASE q = p
  <2>1. client'[q] = r
    BY <1>1 DEF TypeOK
  <2> QED BY <2>1 DEF Ordered
<1>2. CASE q # p
  <2>1. client'[q] = client[q]
    BY <1>2 DEF TypeOK
  <2> QED BY <2>1 DEF Ordered, OrderInv
<1> QED BY <1>1, <1>2

LEMMA OthersOrdered ==
  ASSUME OrderInv, UNCHANGED <<ticks, client>> PROVE OrderInv'
BY DEF OrderInv, Ordered

(* The clock: signals are of the tick that has come.                        *)
LEMMA TickOrdered == ASSUME TypeOK, OrderInv, Tick PROVE OrderInv'
<1> SUFFICES ASSUME NEW q \in Pid PROVE Ordered(client[q])'
  BY DEF OrderInv
<1>1. ticks \in Nat /\ ticks' = ticks + 1
  BY VaxAssumption DEF Tick, TypeOK
<1>2. client[q] \in ClientRecords /\ Ordered(client[q])
  BY DEF TypeOK, OrderInv, ClientRecords
<1>3. \/ client'[q] = client[q]
      \/ client'[q] = [client[q] EXCEPT !.knote = TRUE, !.signalled = ticks']
  <2>1. ASSUME NEW p \in Pid, Signal(p)
        PROVE  \/ client'[q] = client[q]
               \/ client'[q] = [client[q] EXCEPT !.knote = TRUE,
                                                 !.signalled = ticks']
    BY <2>1 DEF Signal, TypeOK
  <2> QED BY <2>1 DEF Tick, Notify, TypeOK
<1>4. CASE client'[q] = client[q]
  BY <1>1, <1>2, <1>4, VaxAssumption DEF Ordered, ClientRecords, Words
<1>5. CASE client'[q] = [client[q] EXCEPT !.knote = TRUE, !.signalled = ticks']
  BY <1>1, <1>2, <1>5, VaxAssumption DEF Ordered, ClientRecords, Words
<1> QED BY <1>3, <1>4, <1>5

(* The client: what each step does to its record, and that the record is    *)
(* in order.                                                                *)
LEMMA ClientOrdered ==
  ASSUME TypeOK, OrderInv, NEW p \in Pid,
         ClientStep(p) \/ Fails(p) \/ WaitInterrupted(p)
  PROVE  OrderInv'
<1> USE DEF At, Steps, Words
<1>0. /\ client[p] \in ClientRecords /\ Ordered(client[p])
      /\ ticks \in 0..MaxTicks /\ MaxTicks \in Nat
  BY VaxAssumption DEF TypeOK, ClientRecords, OrderInv
<1>1. CASE SetupPanelNotification(p)
  <2> PICK ignores \in BOOLEAN, kq \in BOOLEAN :
        client' = [client EXCEPT ![p].at = "register",
                                 ![p].ignores = ignores, ![p].kq = kq]
    BY <1>1 DEF SetupPanelNotification
  <2> DEFINE r == [client[p] EXCEPT !.at = "register", !.ignores = ignores,
                                    !.kq = kq]
  <2>1. r \in ClientRecords
    BY <1>0 DEF ClientRecords
  <2>2. client' = [client EXCEPT ![p] = r]
    BY DEF TypeOK
  <2>3. client[p].at = "setup"
    BY <1>1 DEF SetupPanelNotification
  <2>4. Ordered(r)
    BY <1>0, <2>3 DEF Ordered, ClientRecords
  <2> QED BY <1>1, <2>1, <2>2, <2>4, OneOrdered DEF SetupPanelNotification
<1>2. CASE RegisterPid(p)
  <2> DEFINE r == [client[p] EXCEPT !.at = "enable"]
  <2>1. r \in ClientRecords
    BY <1>0 DEF ClientRecords
  <2>2. client' = [client EXCEPT ![p] = r]
    BY <1>2 DEF RegisterPid, Goes, TypeOK
  <2>3. client[p].at = "register"
    BY <1>2 DEF RegisterPid
  <2>4. Ordered(r)
    BY <1>0, <2>3 DEF Ordered, ClientRecords
  <2> QED BY <1>2, <2>1, <2>2, <2>4, OneOrdered DEF RegisterPid
<1>3. CASE RegisterEnabled(p)
  <2> DEFINE r == [client[p] EXCEPT !.at = "open"]
  <2>1. r \in ClientRecords
    BY <1>0 DEF ClientRecords
  <2>2. client' = [client EXCEPT ![p] = r]
    BY <1>3 DEF RegisterEnabled, Goes, TypeOK
  <2>3. client[p].at = "enable"
    BY <1>3 DEF RegisterEnabled
  <2>4. Ordered(r)
    BY <1>0, <2>3 DEF Ordered, ClientRecords
  <2> QED BY <1>3, <2>1, <2>2, <2>4, OneOrdered DEF RegisterEnabled
<1>4. CASE Open(p)
  <2> DEFINE r == [client[p] EXCEPT !.at = "wait"]
  <2>1. r \in ClientRecords
    BY <1>0 DEF ClientRecords
  <2>2. client' = [client EXCEPT ![p] = r]
    BY <1>4 DEF Open, Goes, TypeOK
  <2>3. client[p].at = "open"
    BY <1>4 DEF Open
  <2>4. Ordered(r)
    BY <1>0, <2>3 DEF Ordered, ClientRecords
  <2> QED BY <1>4, <2>1, <2>2, <2>4, OneOrdered DEF Open
<1>5. CASE WaitForPanel(p)
  <2> DEFINE r == [client[p] EXCEPT !.at = "address", !.knote = FALSE,
                                    !.heard = client[p].signalled]
  <2>1. r \in ClientRecords
    BY <1>0 DEF ClientRecords
  <2>2. client' = [client EXCEPT ![p] = r]
    BY <1>5 DEF WaitForPanel, Goes, TypeOK
  <2>3. client[p].at = "wait"
    BY <1>5 DEF WaitForPanel
  <2>4. Ordered(r)
    BY <1>0, <2>3 DEF Ordered, ClientRecords
  <2> QED BY <1>5, <2>1, <2>2, <2>4, OneOrdered DEF WaitForPanel
<1>6. CASE WaitInterrupted(p)
  <2> DEFINE r == [client[p] EXCEPT !.at = "address"]
  <2>1. r \in ClientRecords
    BY <1>0 DEF ClientRecords
  <2>2. client' = [client EXCEPT ![p] = r]
    BY <1>6 DEF WaitInterrupted, Goes, TypeOK
  <2>3. client[p].at = "wait"
    BY <1>6 DEF WaitInterrupted
  <2>4. Ordered(r)
    BY <1>0, <2>3 DEF Ordered, ClientRecords
  <2> QED BY <1>6, <2>1, <2>2, <2>4, OneOrdered DEF WaitInterrupted
<1>7. CASE WaitFails(p) \/ Fails(p)
  BY <1>7, OthersOrdered DEF WaitFails, Fails, Exits
<1>8. CASE ReadAddress(p)
  <2> DEFINE r == [client[p] EXCEPT !.at = "data", !.panel.address = ticks]
  <2>1. r \in ClientRecords
    BY <1>0 DEF ClientRecords
  <2>2. client' = [client EXCEPT ![p] = r]
    BY <1>8 DEF ReadAddress, Goes, TypeOK
  <2>3. client[p].at = "address"
    BY <1>8 DEF ReadAddress
  <2>4. Ordered(r)
    BY <1>0, <2>3 DEF Ordered, ClientRecords
  <2> QED BY <1>8, <2>1, <2>2, <2>4, OneOrdered DEF ReadAddress
<1>9. CASE ReadData(p)
  <2> DEFINE r == [client[p] EXCEPT !.at = "send", !.panel.data = ticks]
  <2>1. r \in ClientRecords
    BY <1>0 DEF ClientRecords
  <2>2. client' = [client EXCEPT ![p] = r]
    BY <1>9 DEF ReadData, Goes, TypeOK
  <2>3. client[p].at = "data"
    BY <1>9 DEF ReadData
  <2>4. Ordered(r)
    BY <1>0, <2>3 DEF Ordered, ClientRecords
  <2> QED BY <1>9, <2>1, <2>2, <2>4, OneOrdered DEF ReadData
<1>10. CASE SendFrame(p)
  <2> DEFINE r == [client[p] EXCEPT !.at = "wait", !.frame = client[p].panel]
  <2>1. r \in ClientRecords
    BY <1>0 DEF ClientRecords
  <2>2. client' = [client EXCEPT ![p] = r]
    BY <1>10 DEF SendFrame, Goes, TypeOK
  <2>3. client[p].at = "send"
    BY <1>10 DEF SendFrame
  <2>4. Ordered(r)
    BY <1>0, <2>3 DEF Ordered, ClientRecords
  <2> QED BY <1>10, <2>1, <2>2, <2>4, OneOrdered DEF SendFrame
<1> QED
  BY <1>1, <1>2, <1>3, <1>4, <1>5, <1>6, <1>7, <1>8, <1>9, <1>10
  DEF ClientStep

(* The words of every client were written in the order OrderInv says.       *)
THEOREM WordsInOrder == Spec => []OrderInv
<1>0. Fresh \in ClientRecords
  BY VaxAssumption DEF Fresh, NoWords, ClientRecords, Steps, Words
<1>1. Init => OrderInv
  <2> SUFFICES ASSUME Init, NEW p \in Pid PROVE Ordered(client[p])
    BY DEF OrderInv
  <2>1. client[p] = Fresh /\ ticks = 0
    BY DEF Init
  <2> QED BY <2>1 DEF Ordered, Fresh, NoWords
<1>2. TypeOK /\ OrderInv /\ [Next]_vars => OrderInv'
  <2> SUFFICES ASSUME TypeOK, OrderInv, [Next]_vars PROVE OrderInv'
    OBVIOUS
  <2>1. CASE Tick
    BY <2>1, TickOrdered
  <2>2. CASE Admin \/ UNCHANGED vars
    BY <2>2, OthersOrdered DEF Admin, vars
  <2>3. ASSUME NEW p \in Pid, Kill(p) \/ Reap(p) PROVE OrderInv'
    BY <2>3, OthersOrdered DEF Kill, Reap
  <2>4. ASSUME NEW p \in Pid, NEW kind \in {"client", "other"}, Start(p, kind)
        PROVE  OrderInv'
    <3>1. Ordered(Fresh)
      BY VaxAssumption DEF Ordered, Fresh, NoWords, TypeOK
    <3> QED BY <1>0, <2>4, <3>1, OneOrdered DEF Start
  <2>5. ASSUME NEW p \in Pid,
               ClientStep(p) \/ Fails(p) \/ WaitInterrupted(p)
        PROVE  OrderInv'
    BY <2>5, ClientOrdered
  <2> QED BY <2>1, <2>2, <2>3, <2>4, <2>5 DEF Next
<1> QED BY <1>1, <1>2, VaxTypeCorrect, PTL DEF Spec

(* A frame is at least as new as the signal it answers.                     *)
THEOREM FramesAreFresh == Spec => []FrameFresh
<1>1. TypeOK /\ OrderInv => FrameFresh
  BY VaxAssumption DEF TypeOK, OrderInv, Ordered, FrameFresh, At, Words
<1> QED BY <1>1, VaxTypeCorrect, WordsInOrder, PTL

(* Frames never go back.                                                    *)
THEOREM FramesMoveForward == Spec => FramesForward
<1>1. TypeOK /\ OrderInv /\ [Next]_vars => [\A p \in Pid : Forward(p)]_vars
  <2> SUFFICES ASSUME TypeOK, OrderInv, Next, NEW p \in Pid,
                      client'[p].frame # client[p].frame,
                      client'[p].frame # NoWords
               PROVE  /\ client'[p].frame.address >= client[p].frame.data
                      /\ client'[p].frame.data >= client'[p].frame.address
    BY DEF Forward
  <2>1. SendFrame(p)
    <3>1. ~Tick /\ ~Admin
      BY DEF Tick, Notify, Signal, Admin, TypeOK
    <3>2. ASSUME NEW q \in Pid, NEW kind \in {"client", "other"}
          PROVE  ~Start(q, kind)
      BY DEF Start, Fresh, NoWords, TypeOK
    <3>3. ASSUME NEW q \in Pid PROVE ~Kill(q) /\ ~Reap(q) /\ ~Fails(q)
      BY DEF Kill, Reap, Fails, Exits
    <3>5. ASSUME NEW q \in Pid PROVE ~WaitInterrupted(q)
      BY DEF WaitInterrupted, Goes, TypeOK
    <3>4. ASSUME NEW q \in Pid, ClientStep(q) PROVE SendFrame(q) /\ q = p
      <4>1. ~RegisterPid(q) /\ ~RegisterEnabled(q) /\ ~Open(q)
        BY DEF RegisterPid, RegisterEnabled, Open, Goes, TypeOK
      <4>2. ~SetupPanelNotification(q)
        <5> SUFFICES ASSUME NEW ignores \in BOOLEAN, NEW kq \in BOOLEAN,
              client' = [client EXCEPT ![q].at = "register",
                                       ![q].ignores = ignores, ![q].kq = kq]
            PROVE  FALSE
          BY DEF SetupPanelNotification
        <5>1. client'[p].frame = client[p].frame
          BY DEF TypeOK
        <5> QED BY <5>1
      <4>3. ~WaitForPanel(q) /\ ~WaitFails(q)
        BY DEF WaitForPanel, WaitFails, Exits, TypeOK
      <4>4. ~ReadAddress(q) /\ ~ReadData(q)
        BY DEF ReadAddress, ReadData, TypeOK
      <4> QED BY <3>4, <4>1, <4>2, <4>3, <4>4
               DEF ClientStep, SendFrame, TypeOK
    <3> QED BY <3>1, <3>2, <3>3, <3>4, <3>5 DEF Next
  <2>2. client'[p].frame = client[p].panel /\ client[p].at = "send"
    BY <2>1 DEF SendFrame, At, TypeOK
  <2> QED BY <2>2, VaxAssumption DEF OrderInv, Ordered, TypeOK, Words
<1> QED BY <1>1, VaxTypeCorrect, WordsInOrder, PTL DEF Spec, FramesForward
=============================================================================
