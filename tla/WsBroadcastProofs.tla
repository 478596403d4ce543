------------------------- MODULE WsBroadcastProofs -------------------------
(***************************************************************************)
(* Theorems about WsBroadcast for any set of connections and workers, any  *)
(* assignment of connections to workers and any number of packets: the     *)
(* types, the registry and the connections in it, and what is put on the   *)
(* wire of each connection.                                                *)
(***************************************************************************)
EXTENDS WsBroadcast, SequenceTheorems, WellFoundedInduction,
        TLAPS

(* The frames the actions append are frames.                                *)
LEMMA FrameTypes == /\ Hello \in Frame /\ Pong \in Frame /\ CloseFrame \in Frame
                    /\ \A n \in 0..MaxPackets : n \in Frame
  BY WsAssumption DEF Frame, Packet, Hello

(* What a busy worker holds.                                                *)
LEMMA BusyTypes ==
  /\ Idle \in BusyStates
  /\ \A s \in Step, c \in Conn :
       /\ Busy(s, c) \in BusyStates /\ Busy(s, c) # Idle
       /\ Busy(s, c).conn = c /\ Busy(s, c).at = s
  <1>1. Idle \in BusyStates  BY DEF BusyStates
  <1>2. Idle.at = "idle"  BY DEF Idle
  <1>3. ASSUME NEW s \in Step, NEW c \in Conn
        PROVE  /\ Busy(s, c) \in BusyStates /\ Busy(s, c) # Idle
               /\ Busy(s, c).conn = c /\ Busy(s, c).at = s
    <2>1. Busy(s, c) \in BusyStates  BY DEF BusyStates
    <2>2. Busy(s, c).conn = c /\ Busy(s, c).at = s  BY DEF Busy
    <2>3. Busy(s, c) # Idle  BY <1>2, <2>2 DEF Step
    <2>. QED  BY <2>1, <2>2, <2>3
  <1>. QED  BY <1>1, <1>3

-----------------------------------------------------------------------------
(* Types.                                                                   *)
LEMMA TypeInit == Init => TypeOK
  <1>. SUFFICES ASSUME Init PROVE TypeOK  OBVIOUS
  <1>1. <<>> \in Seq(Frame)  BY EmptySeq
  <1>2. 0 \in 0..MaxPackets  BY WsAssumption
  <1>. QED  BY <1>1, <1>2, BusyTypes DEF Init, TypeOK

(* do_write keeps both buffers sequences of frames.                         *)
LEMMA DoWriteTypes ==
  ASSUME TypeOK, NEW c \in Conn, NEW b \in Seq(Frame), DoWrite(c, b)
  PROVE  /\ write_buffers' \in [Conn -> Seq(Frame)]
         /\ sending_buffers' \in [Conn -> Seq(Frame)]
  BY EmptySeq DEF TypeOK, DoWrite

LEMMA TypeNetwork ==
  ASSUME TypeOK, NEW c \in Conn, Network(c)
  PROVE  TypeOK'
  <1> USE DEF TypeOK, udpVars, runVars, readVars, flagVars, bufVars
  <1>1. CASE PeerEof(c)  BY <1>1 DEF PeerEof
  <1>2. CASE PeerReset(c)  BY <1>2 DEF PeerReset
  <1>3. CASE Upgrade(c)
    <2>1. <<Hello>> \in Seq(Frame)  BY FrameTypes
    <2>2. worker' \in [Worker -> BusyStates]
      BY <1>3, WsAssumption, BusyTypes DEF Upgrade, Goto, Step
    <2>. QED  BY <1>3, <2>1, <2>2 DEF Upgrade
  <1>4. CASE ReadHeader(c)  BY <1>4 DEF ReadHeader
  <1>5. CASE ReadData(c)  BY <1>5 DEF ReadData
  <1>6. CASE ReadPing(c)
    <2>1. Append(posted[c], Pong) \in Seq(Frame)  BY FrameTypes
    <2>. QED  BY <1>6, <2>1 DEF ReadPing
  <1>7. CASE ReadClose(c)
    <2>1. worker' \in [Worker -> BusyStates]
      BY <1>7, WsAssumption, BusyTypes DEF ReadClose, Goto, Step
    <2>. QED  BY <1>7, <2>1 DEF ReadClose
  <1>. QED  BY <1>1, <1>2, <1>3, <1>4, <1>5, <1>6, <1>7 DEF Network
LEMMA TypeHandler ==
  ASSUME TypeOK, NEW c \in Conn, Handler(c)
  PROVE  TypeOK'
  <1> USE DEF TypeOK, udpVars, runVars, readVars, flagVars, bufVars
  <1>a. \A s \in Step : Goto(s, c) => worker' \in [Worker -> BusyStates]
    BY WsAssumption, BusyTypes DEF Goto
  <1>b. Done(c) => worker' \in [Worker -> BusyStates]
    BY WsAssumption, BusyTypes DEF Done
  <1>d. DestroyIfQuiet(c)
          => mem' \in [Conn -> {"none", "live", "unwound", "deleted"}]
    BY DEF DestroyIfQuiet
  <1>1. CASE OnOpen(c)  BY <1>1, <1>a DEF OnOpen, Step
  <1>2. CASE StartReading(c)  BY <1>2, <1>b DEF StartReading
  <1>3. CASE OpenThrows(c)  BY <1>3, <1>b DEF OpenThrows
  <1>4. CASE ReadErrorHeader(c)  BY <1>4 DEF ReadErrorHeader
  <1>5. CASE ReadErrorBody(c)  BY <1>5, <1>a DEF ReadErrorBody, Step
  <1>6. CASE SendPosted(c)
    <2>1. posted[c] \in Seq(Frame) /\ posted[c] # <<>>  BY <1>6 DEF SendPosted
    <2>2. Head(posted[c]) \in Frame /\ Tail(posted[c]) \in Seq(Frame)
      BY <2>1, HeadTailProperties
    <2>3. Append(write_buffers[c], Head(posted[c])) \in Seq(Frame)  BY <2>2
    <2>4. /\ write_buffers' \in [Conn -> Seq(Frame)]
          /\ sending_buffers' \in [Conn -> Seq(Frame)]
      BY <1>6, <2>3, DoWriteTypes DEF SendPosted
    <2>. QED  BY <1>6, <2>2, <2>4 DEF SendPosted
  <1>7. CASE WriteOk(c)
    <2>1. delivered[c] \o sending_buffers[c] \in Seq(Frame)
      BY ConcatProperties
    <2>. QED  BY <1>7, <2>1, EmptySeq DEF WriteOk
  <1>8. CASE WriteEnds(c)
    <2>1. worker' \in [Worker -> BusyStates]  BY <1>8, <1>a DEF WriteEnds, Step
    <2>2. mem' \in [Conn -> {"none", "live", "unwound", "deleted"}]
      BY <1>8, <1>d DEF WriteEnds
    <2>. QED  BY <1>8, <2>1, <2>2, EmptySeq DEF WriteEnds
  <1>9. CASE OrphanWrite(c)  BY <1>9, EmptySeq DEF OrphanWrite
  <1>10. CASE OnCloseFrame(c)
    <2>1. Append(write_buffers[c], CloseFrame) \in Seq(Frame)  BY FrameTypes
    <2>2. /\ write_buffers' \in [Conn -> Seq(Frame)]
          /\ sending_buffers' \in [Conn -> Seq(Frame)]
      BY <1>10, <2>1, DoWriteTypes DEF OnCloseFrame
    <2>. QED  BY <1>10, <1>b, <1>d, <2>2 DEF OnCloseFrame, Erase
  <1>11. CASE OnError(c)  BY <1>11, <1>a DEF OnError, Erase, Step
  <1>12. CASE OnClose(c)  BY <1>12, <1>b, <1>d DEF OnClose, Erase
  <1>. QED  BY <1>1, <1>2, <1>3, <1>4, <1>5, <1>6, <1>7, <1>8, <1>9, <1>10, <1>11,
               <1>12 DEF Handler

(* The UDP thread and the stop.                                             *)
LEMMA TypeProxy ==
  ASSUME TypeOK, UdpRecv \/ UdpExit \/ UdpThread \/ ServerStop \/ RequestStop
  PROVE  TypeOK'
  <1> USE DEF TypeOK, udpVars, runVars, readVars, flagVars, bufVars
  <1>1. CASE UdpRecv  BY <1>1, WsAssumption DEF UdpRecv
  <1>2. CASE UdpExit  BY <1>2 DEF UdpExit
  <1>3. CASE UdpLock  BY <1>3 DEF UdpLock
  <1>4. CASE UdpUnlock  BY <1>4 DEF UdpUnlock
  <1>5. ASSUME NEW c \in Conn, UdpSend(c) PROVE TypeOK'
    <2>1. json \in Frame  BY FrameTypes
    <2>2. Append(posted[c], json) \in Seq(Frame)  BY <2>1
    <2>3. posted' \in [Conn -> Seq(Frame)] /\ crashed' \in BOOLEAN
      BY <1>5, <2>2 DEF UdpSend
    <2>. QED  BY <1>5, <2>3 DEF UdpSend
  <1>6. CASE ServerStop  BY <1>6 DEF ServerStop
  <1>7. CASE RequestStop  BY <1>7 DEF RequestStop
  <1>. QED  BY <1>1, <1>2, <1>3, <1>4, <1>5, <1>6, <1>7 DEF UdpThread
LEMMA TypeNext == TypeOK /\ [Next]_vars => TypeOK'
  <1>. SUFFICES ASSUME TypeOK, [Next]_vars PROVE TypeOK'  OBVIOUS
  <1>1. CASE Next  BY <1>1, TypeNetwork, TypeHandler, TypeProxy DEF Next
  <1>2. CASE UNCHANGED vars
    BY <1>2 DEF vars, TypeOK, udpVars, runVars, readVars, flagVars, bufVars
  <1>. QED  BY <1>1, <1>2

(* Every variable keeps its type (members of ProxyBase and Connection).     *)
THEOREM TypeCorrect == Spec => []TypeOK
  BY TypeInit, TypeNext, PTL DEF Spec

-----------------------------------------------------------------------------
(* The registry.                                                            *)
LEMMA RegistryInit == Init => RegistryInv
  BY DEF Init, RegistryInv

(* A worker that is idle or in a handler of connection c.                   *)
Serves(b, c) == b = Idle \/ \E s \in Step : b = Busy(s, c)

LEMMA OthersUndisturbed ==
  ASSUME TypeOK, NEW c \in Conn, NEW b, Serves(b, c),
         Serves(worker[WorkerOf[c]], c),
         worker' = [worker EXCEPT ![WorkerOf[c]] = b],
         NEW d \in Conn, d # c, NEW s \in Step
  PROVE  At(s, d)' <=> At(s, d)
  <1>1. b # Busy(s, d) /\ worker[WorkerOf[c]] # Busy(s, d)
    BY BusyTypes DEF Serves
  <1>2. WorkerOf[c] \in Worker /\ WorkerOf[d] \in Worker  BY WsAssumption
  <1>. QED  BY <1>1, <1>2 DEF At, TypeOK

(* What a step of connection c has to establish about c alone.              *)
LEMMA RegistryStep ==
  ASSUME TypeOK, RegistryInv, NEW c \in Conn, NEW b, Serves(b, c),
         Serves(worker[WorkerOf[c]], c),
         worker' = [worker EXCEPT ![WorkerOf[c]] = b],
         UNCHANGED <<udp, todo>>,
         ws_clients' \subseteq Conn, todo \subseteq ws_clients',
         \A d \in Conn \ {c} : mem'[d] = mem[d] /\ closing'[d] = closing[d],
         \A d \in Conn \ {c} : d \in ws_clients' <=> d \in ws_clients,
         c \in ws_clients' => mem'[c] \in {"live", "unwound"},
         b # Idle => mem'[c] = "live",
         mem'[c] = "none" \/ b = Busy("onopen", c) => ~closing'[c],
         closing'[c] => b = Busy("closeframe", c) \/ c \notin ws_clients'
  PROVE  RegistryInv'
  <1>1. WorkerOf[c] \in Worker  BY WsAssumption
  <1>2. worker'[WorkerOf[c]] = b  BY <1>1 DEF TypeOK
  <1>3. \A s \in Step : At(s, c)' <=> b = Busy(s, c)  BY <1>2 DEF At
  <1>4. "onopen" \in Step /\ "closeframe" \in Step  BY DEF Step
  <1>5. \A d \in Conn \ {c} : At("onopen", d)' <=> At("onopen", d)
    BY <1>4, OthersUndisturbed
  <1>5a. \A d \in Conn \ {c} : At("closeframe", d)' <=> At("closeframe", d)
    BY <1>4, OthersUndisturbed
  <1>6. (udp # "broadcast" => todo = {})' /\ (todo \subseteq ws_clients)'
    BY DEF RegistryInv
  <1>7. \A d \in ws_clients' : mem'[d] \in {"live", "unwound"}
    BY DEF RegistryInv
  <1>8. ASSUME NEW w \in Worker, worker'[w] # Idle
        PROVE  WorkerOf[worker'[w].conn] = w /\ mem'[worker'[w].conn] = "live"
    <2>1. CASE w = WorkerOf[c]
      <3>1. b # Idle /\ b.conn = c  BY <1>2, <1>8, <2>1, BusyTypes DEF Serves
      <3>. QED  BY <1>2, <2>1, <3>1
    <2>2. CASE w # WorkerOf[c]
      <3>1. worker'[w] = worker[w]  BY <2>2 DEF TypeOK
      <3>2. WorkerOf[worker[w].conn] = w /\ mem[worker[w].conn] = "live"
        BY <1>8, <3>1 DEF RegistryInv
      <3>3. worker[w].conn \in Conn
        <4>1. worker[w] \in BusyStates  BY DEF TypeOK
        <4>2. PICK s \in Step, d \in Conn : worker[w] = Busy(s, d)
          BY <1>8, <3>1, <4>1 DEF BusyStates
        <4>. QED  BY <4>2, BusyTypes
      <3>4. worker[w].conn # c  BY <2>2, <3>2
      <3>. QED  BY <3>1, <3>2, <3>3, <3>4
    <2>. QED  BY <2>1, <2>2
  <1>9. ASSUME NEW d \in Conn
        PROVE  /\ mem'[d] = "none" \/ At("onopen", d)' => ~closing'[d]
               /\ closing'[d] => At("closeframe", d)' \/ d \notin ws_clients'
    <2>1. CASE d = c  BY <1>3, <1>4, <2>1
    <2>2. CASE d # c  BY <1>5, <1>5a, <2>2 DEF RegistryInv
    <2>. QED  BY <2>1, <2>2
  <1>. QED  BY <1>6, <1>7, <1>8, <1>9 DEF RegistryInv

(* Steps that leave alone all that the invariant speaks of.                 *)
LEMMA RegistryQuiet ==
  ASSUME RegistryInv,
         UNCHANGED <<ws_clients, udp, todo, worker, mem, closing>>
  PROVE  RegistryInv'
  BY DEF RegistryInv, At

LEMMA RegistryNetwork ==
  ASSUME TypeOK, RegistryInv, NEW c \in Conn, Network(c)
  PROVE  RegistryInv'
  <1> USE DEF udpVars, runVars, readVars, flagVars, bufVars
  <1>a. todo \subseteq ws_clients /\ ws_clients \subseteq Conn
    BY DEF RegistryInv, TypeOK
  <1>1. CASE Upgrade(c)
    <2>1. c \notin ws_clients /\ ~closing[c]
      BY <1>1 DEF Upgrade, RegistryInv
    <2>2. Serves(Busy("onopen", c), c) /\ Serves(worker[WorkerOf[c]], c)
      BY <1>1 DEF Upgrade, Ready, Serves, Step
    <2>3. worker' = [worker EXCEPT ![WorkerOf[c]] = Busy("onopen", c)]
      BY <1>1 DEF Upgrade, Goto
    <2>4. mem'[c] = "live" /\ \A d \in Conn \ {c} : mem'[d] = mem[d]
      BY <1>1 DEF Upgrade, TypeOK
    <2>5. UNCHANGED <<ws_clients, udp, todo, closing>>  BY <1>1 DEF Upgrade
    <2>. QED  BY <1>a, <2>1, <2>2, <2>3, <2>4, <2>5, RegistryStep
  <1>2. CASE ReadClose(c)
    <2>1. Serves(Busy("closeframe", c), c) /\ Serves(worker[WorkerOf[c]], c)
      BY <1>2 DEF ReadClose, Reading, Ready, Serves, Step
    <2>2. Busy("onopen", c) # Busy("closeframe", c)  BY BusyTypes DEF Step
    <2>3. worker' = [worker EXCEPT ![WorkerOf[c]] = Busy("closeframe", c)]
      BY <1>2 DEF ReadClose, Goto
    <2>4. \A d \in Conn \ {c} : closing'[d] = closing[d]
      BY <1>2 DEF ReadClose, TypeOK
    <2>5. UNCHANGED <<ws_clients, udp, todo, mem>> /\ mem[c] = "live"
      BY <1>2 DEF ReadClose, Reading
    <2>. QED  BY <1>a, <2>1, <2>2, <2>3, <2>4, <2>5, RegistryStep
  <1>3. CASE ~Upgrade(c) /\ ~ReadClose(c)
    BY <1>3, RegistryQuiet
    DEF Network, PeerEof, PeerReset, ReadHeader, ReadData, ReadPing
  <1>. QED  BY <1>1, <1>2, <1>3

(* While the mutex is free nothing is left of an iteration.                 *)
LEMMA FreeMeansDone == RegistryInv /\ MutexFree => todo = {}
  BY DEF RegistryInv, MutexFree

LEMMA RegistryHandler ==
  ASSUME TypeOK, RegistryInv, NEW c \in Conn, Handler(c)
  PROVE  RegistryInv'
  <1> USE DEF udpVars, runVars, readVars, flagVars, bufVars
  <1>a. WorkerOf[c] \in Worker  BY WsAssumption
  <1>b. \A s \in Step : /\ Serves(Busy(s, c), c)
                        /\ Busy(s, c) # Idle
                        /\ At(s, c) => /\ Serves(worker[WorkerOf[c]], c)
                                       /\ mem[c] = "live"
    BY <1>a, BusyTypes DEF Serves, At, RegistryInv
  <1>c. Serves(Idle, c)  BY DEF Serves
  <1>d. \A s, t \in Step : s # t => Busy(s, c) # Busy(t, c)  BY BusyTypes
  <1>e. Ready(c) => Serves(worker[WorkerOf[c]], c) /\ (closing[c] => c \notin ws_clients)
    BY <1>d, BusyTypes DEF Ready, Serves, RegistryInv, At, Step
  <1>f. todo \subseteq ws_clients /\ ws_clients \subseteq Conn
        /\ (c \in ws_clients => mem[c] \in {"live", "unwound"})
    BY DEF RegistryInv, TypeOK
  <1>g. \A s \in Step : Busy(s, c) # Idle  BY BusyTypes
  <1>1. CASE OnOpen(c)
    <2>1. At("onopen", c) /\ todo = {}  BY <1>1, FreeMeansDone DEF OnOpen
    <2>2. mem[c] = "live" /\ ~closing[c]  BY <1>b, <2>1 DEF RegistryInv, Step
    <2>. QED  BY <1>1, <1>b, <1>d, <2>1, <2>2, RegistryStep
              DEF OnOpen, Goto, TypeOK, Step
  <1>2. CASE StartReading(c)
    <2>1. At("opened", c) /\ mem[c] = "live"  BY <1>2, <1>b DEF StartReading, Step
    <2>2. closing[c] => c \notin ws_clients
      BY <1>d, <2>1 DEF RegistryInv, At, Step
    <2>. QED  BY <1>2, <1>b, <1>c, <2>1, <2>2, RegistryStep
              DEF StartReading, Done, TypeOK, Step, RegistryInv, Busy, Idle
  <1>3. CASE OpenThrows(c)
    <2>1. At("opened", c)  BY <1>3 DEF OpenThrows
    <2>2. closing[c] => c \notin ws_clients
      BY <1>d, <2>1 DEF RegistryInv, At, Step
    <2>3. mem'[c] = "unwound" /\ \A d \in Conn \ {c} : mem'[d] = mem[d]
      BY <1>3 DEF OpenThrows, TypeOK
    <2>4. worker' = [worker EXCEPT ![WorkerOf[c]] = Idle]
      BY <1>3 DEF OpenThrows, Done
    <2>5. UNCHANGED <<ws_clients, udp, todo, closing>>  BY <1>3 DEF OpenThrows
    <2>. QED  BY <1>b, <1>c, <1>f, <1>g, <2>1, <2>2, <2>3, <2>4, <2>5, RegistryStep
              DEF Step
  <1>4. CASE ReadErrorHeader(c)  BY <1>4, RegistryQuiet DEF ReadErrorHeader
  <1>5. CASE ReadErrorBody(c)
    <2>1. Ready(c) /\ mem[c] = "live"  BY <1>5 DEF ReadErrorBody, Reading
    <2>2. UNCHANGED <<ws_clients, udp, todo, mem, closing>>
      BY <1>5 DEF ReadErrorBody
    <2>3. CASE UNCHANGED worker  BY <2>2, <2>3, RegistryQuiet
    <2>4. CASE Goto("onerror", c)
      BY <1>b, <1>d, <1>e, <1>f, <2>1, <2>2, <2>4, RegistryStep DEF Goto, Step
    <2>. QED  BY <1>5, <2>3, <2>4 DEF ReadErrorBody
  <1>6. CASE SendPosted(c)  BY <1>6, RegistryQuiet DEF SendPosted
  <1>7. CASE WriteOk(c)  BY <1>7, RegistryQuiet DEF WriteOk
  <1>8. CASE WriteEnds(c)
    <2>1. Ready(c) /\ mem[c] = "live"  BY <1>8 DEF WriteEnds
    <2>2. UNCHANGED <<ws_clients, udp, todo, closing>>  BY <1>8 DEF WriteEnds
    <2>3. CASE Goto("onclose", c) /\ UNCHANGED mem
      BY <1>b, <1>d, <1>e, <1>f, <2>1, <2>2, <2>3, RegistryStep DEF Goto, Step
    <2>4. CASE closing[c] /\ UNCHANGED worker /\ DestroyIfQuiet(c)
      <3>1. worker' = [worker EXCEPT ![WorkerOf[c]] = Idle]
        BY <1>a, <2>1, <2>4 DEF Ready, TypeOK
      <3>2. mem'[c] # "none" /\ \A d \in Conn \ {c} : mem'[d] = mem[d]
        BY <2>1, <2>4 DEF DestroyIfQuiet, TypeOK
      <3>. QED  BY <1>c, <1>e, <1>f, <1>g, <2>1, <2>2, <2>4, <3>1, <3>2, RegistryStep
                DEF Step
    <2>. QED  BY <1>8, <2>3, <2>4 DEF WriteEnds, CloseHandlerCalled
  <1>9. CASE OrphanWrite(c)  BY <1>9, RegistryQuiet DEF OrphanWrite
  <1>10. CASE OnCloseFrame(c)
    <2>1. At("closeframe", c) /\ todo = {}  BY <1>10, FreeMeansDone DEF OnCloseFrame
    <2>2. mem'[c] # "none" /\ \A d \in Conn \ {c} : mem'[d] = mem[d]
      BY <1>10, <1>b, <2>1 DEF OnCloseFrame, DestroyIfQuiet, TypeOK, Step
    <2>3. worker' = [worker EXCEPT ![WorkerOf[c]] = Idle]
      BY <1>10 DEF OnCloseFrame, Done
    <2>4. UNCHANGED <<udp, todo, closing>> /\ ws_clients' = ws_clients \ {c}
      BY <1>10 DEF OnCloseFrame, Erase
    <2>. QED  BY <1>b, <1>c, <1>f, <1>g, <2>1, <2>2, <2>3, <2>4, RegistryStep DEF Step
  <1>11. CASE OnError(c)
    <2>1. At("onerror", c) /\ todo = {}  BY <1>11, FreeMeansDone DEF OnError
    <2>2. UNCHANGED <<udp, todo, mem, closing>> /\ ws_clients' = ws_clients \ {c}
      BY <1>11 DEF OnError, Erase
    <2>. QED  BY <1>11, <1>b, <1>d, <1>f, <2>1, <2>2, RegistryStep
              DEF OnError, Goto, Step
  <1>12. CASE OnClose(c)
    <2>1. At("onclose", c) /\ todo = {}  BY <1>12, FreeMeansDone DEF OnClose
    <2>2. mem'[c] # "none" /\ \A d \in Conn \ {c} : mem'[d] = mem[d]
      BY <1>12, <1>b, <2>1 DEF OnClose, DestroyIfQuiet, TypeOK, Step
    <2>3. worker' = [worker EXCEPT ![WorkerOf[c]] = Idle]
      BY <1>12 DEF OnClose, Done
    <2>4. UNCHANGED <<udp, todo, closing>> /\ ws_clients' = ws_clients \ {c}
      BY <1>12 DEF OnClose, Erase
    <2>. QED  BY <1>b, <1>c, <1>f, <1>g, <2>1, <2>2, <2>3, <2>4, RegistryStep DEF Step
  <1>. QED  BY <1>1, <1>2, <1>3, <1>4, <1>5, <1>6, <1>7, <1>8, <1>9, <1>10, <1>11,
               <1>12 DEF Handler

LEMMA RegistryProxy ==
  ASSUME TypeOK, RegistryInv,
         UdpRecv \/ UdpExit \/ UdpThread \/ ServerStop \/ RequestStop
  PROVE  RegistryInv'
  <1> USE DEF udpVars, runVars, readVars, flagVars, bufVars
  <1>1. CASE UdpThread
    <2>1. CASE UdpLock  BY <2>1 DEF UdpLock, RegistryInv, At
    <2>2. CASE UdpUnlock  BY <2>2 DEF UdpUnlock, RegistryInv, At
    <2>3. ASSUME NEW c \in Conn, UdpSend(c) PROVE RegistryInv'
      BY <2>3 DEF UdpSend, RegistryInv, At
    <2>. QED  BY <1>1, <2>1, <2>2, <2>3 DEF UdpThread
  <1>2. CASE UdpRecv \/ UdpExit
    BY <1>2 DEF UdpRecv, UdpExit, RegistryInv, At
  <1>3. CASE ServerStop \/ RequestStop
    BY <1>3, RegistryQuiet DEF ServerStop, RequestStop
  <1>. QED  BY <1>1, <1>2, <1>3

LEMMA RegistryNext == TypeOK /\ RegistryInv /\ [Next]_vars => RegistryInv'
  <1>. SUFFICES ASSUME TypeOK, RegistryInv, [Next]_vars PROVE RegistryInv'
    OBVIOUS
  <1>1. CASE Next  BY <1>1, RegistryNetwork, RegistryHandler, RegistryProxy DEF Next
  <1>2. CASE UNCHANGED vars
    BY <1>2, RegistryQuiet DEF vars, udpVars, flagVars
  <1>. QED  BY <1>1, <1>2

(* The inductive invariant.                                                 *)
THEOREM RegistryCorrect == Spec => []RegistryInv
  BY TypeCorrect, RegistryInit, RegistryNext, PTL DEF Spec

(* ws_clients and the set the UDP thread iterates over never hold a         *)
(* connection that check_destroy has freed (proxybase.cpp's onclose).       *)
THEOREM NoDeletedClient == Spec => []NeverDeletedWhileRegistered
  <1>1. RegistryInv => NeverDeletedWhileRegistered
    BY DEF RegistryInv, NeverDeletedWhileRegistered
  <1>. QED  BY <1>1, RegistryCorrect, PTL

(* The connection a worker's handler belongs to outlives the handler's wait *)
(* for ws_clients_mutex.                                                    *)
THEOREM HandlersOwnTheirConnection == Spec => []HandlerOwnsConnection
  <1>1. RegistryInv => HandlerOwnsConnection
    BY DEF RegistryInv, HandlerOwnsConnection
  <1>. QED  BY <1>1, RegistryCorrect, PTL

(* No step inserts into or erases from ws_clients under the iterator of the *)
(* broadcast loop (lock_guard in proxybase.cpp's four places).              *)
THEOREM IteratorValid == Spec => IterationStable
  <1>1. [Next]_vars => [udp = "broadcast" => ws_clients' = ws_clients]_vars
    <2>. SUFFICES ASSUME Next, udp = "broadcast" PROVE ws_clients' = ws_clients
      OBVIOUS
    <2>1. ~MutexFree  BY DEF MutexFree
    <2>2. CASE \E c \in Conn : Network(c)
      BY <2>2 DEF Network, PeerEof, PeerReset, Upgrade, ReadHeader, ReadData,
                  ReadPing, ReadClose
    <2>3. CASE \E c \in Conn : Handler(c)
      BY <2>1, <2>3 DEF Handler, OnOpen, StartReading, OpenThrows, ReadErrorHeader,
         ReadErrorBody, SendPosted, WriteOk, WriteEnds, OrphanWrite, OnCloseFrame,
         OnError, OnClose
    <2>4. CASE UdpRecv \/ UdpExit \/ UdpThread \/ ServerStop \/ RequestStop
      BY <2>4 DEF UdpRecv, UdpExit, UdpThread, UdpLock, UdpUnlock, UdpSend,
                  ServerStop, RequestStop
    <2>. QED  BY <2>2, <2>3, <2>4 DEF Next
  <1>. QED  BY <1>1, PTL DEF Spec, IterationStable

-----------------------------------------------------------------------------
(* The wire.                                                                *)
NoGoodbye(s) == \A i \in 1 .. Len(s) : s[i] # CloseFrame

GoodbyeLast(s) == \A i \in 1 .. Len(s) : s[i] = CloseFrame => i = Len(s)

BeginsWithHello(s) == s # <<>> /\ s[1] = Hello

(* Before the handshake nothing is written, after it Hello is first.       *)
Opening(c) ==
  /\ mem[c] = "none" =>
       /\ delivered[c] = <<>> /\ sending_buffers[c] = <<>>
       /\ write_buffers[c] = <<>> /\ ~close_connection[c]
  /\ mem[c] = "live" /\ ~close_connection[c] =>
       \/ BeginsWithHello(delivered[c])
       \/ delivered[c] = <<>> /\ BeginsWithHello(sending_buffers[c])

(* No Close frame is posted, none is delivered, and none is in a buffer of *)
(* a connection in service.  One that has to wait for the frames before it *)
(* waits for good: the end of their write frees the connection, as its     *)
(* Close handler has been called and nothing is read any more.             *)
Closing(c) ==
  /\ NoGoodbye(posted[c]) /\ NoGoodbye(delivered[c])
  /\ ~close_connection[c] =>
       NoGoodbye(sending_buffers[c]) /\ NoGoodbye(write_buffers[c])
  /\ mem[c] = "live" =>
       /\ GoodbyeLast(sending_buffers[c])
       /\ ~NoGoodbye(write_buffers[c]) =>
            sending_buffers[c] # <<>> /\ closing[c]

(* The Close handler is called once the connection is being read, and then *)
(* it is read no more.                                                     *)
Reader(c) ==
  /\ closing[c] => ~is_reading[c] /\ ~At("opened", c)
  /\ At("closeframe", c) => closing[c]

WireInv == \A c \in Conn : Opening(c) /\ Closing(c) /\ Reader(c)

-----------------------------------------------------------------------------
(* Sequences of frames.                                                    *)
LEMMA Frames ==
  /\ Hello # CloseFrame /\ Pong # CloseFrame
  /\ \A n \in Nat : n # CloseFrame
  BY DEF Hello, Pong, CloseFrame

LEMMA NothingSent ==
  NoGoodbye(<<>>) /\ GoodbyeLast(<<>>) /\ ~BeginsWithHello(<<>>)
  BY DEF NoGoodbye, GoodbyeLast, BeginsWithHello

LEMMA NotLast == \A s : NoGoodbye(s) => GoodbyeLast(s)
  BY DEF NoGoodbye, GoodbyeLast

LEMMA Appended ==
  ASSUME NEW s \in Seq(Frame), NEW f \in Frame, NoGoodbye(s)
  PROVE  /\ f # CloseFrame => NoGoodbye(Append(s, f))
         /\ GoodbyeLast(Append(s, f))
  <1>1. /\ Len(Append(s, f)) = Len(s) + 1 /\ Len(s) \in Nat
        /\ \A i \in 1 .. Len(s) : Append(s, f)[i] = s[i]
        /\ Append(s, f)[Len(s) + 1] = f
    BY AppendProperties, LenProperties
  <1>. QED  BY <1>1 DEF NoGoodbye, GoodbyeLast

LEMMA Joined ==
  ASSUME NEW s \in Seq(Frame), NEW t \in Seq(Frame), NoGoodbye(s)
  PROVE  /\ NoGoodbye(t) => NoGoodbye(s \o t)
         /\ GoodbyeLast(t) => GoodbyeLast(s \o t)
         /\ BeginsWithHello(s) => BeginsWithHello(s \o t)
         /\ s = <<>> => s \o t = t
  <1>1. /\ Len(s \o t) = Len(s) + Len(t) /\ Len(s) \in Nat /\ Len(t) \in Nat
        /\ \A i \in 1 .. Len(s) : (s \o t)[i] = s[i]
        /\ \A i \in Len(s) + 1 .. Len(s) + Len(t) :
             (s \o t)[i] = t[i - Len(s)]
    BY ConcatProperties, LenProperties
  <1>2. BeginsWithHello(s) => BeginsWithHello(s \o t)
    <2>1. s # <<>> => Len(s) > 0  BY <1>1, EmptySeq
    <2>. QED  BY <1>1, <2>1 DEF BeginsWithHello
  <1>3. NoGoodbye(t) => NoGoodbye(s \o t)
    BY <1>1 DEF NoGoodbye
  <1>4. ASSUME GoodbyeLast(t), NEW i \in 1 .. Len(s \o t),
               (s \o t)[i] = CloseFrame
        PROVE  i = Len(s \o t)
    <2>1. i > Len(s)
      BY <1>1, <1>4 DEF NoGoodbye
    <2>2. i - Len(s) \in 1 .. Len(t) /\ t[i - Len(s)] = CloseFrame
      BY <1>1, <1>4, <2>1
    <2>3. i - Len(s) = Len(t)
      BY <1>4, <2>2 DEF GoodbyeLast
    <2>. QED  BY <1>1, <2>3
  <1>5. s = <<>> => s \o t = t
    BY ConcatEmptySeq
  <1>. QED  BY <1>2, <1>3, <1>4, <1>5 DEF GoodbyeLast

LEMMA Popped ==
  ASSUME NEW s \in Seq(Frame), s # <<>>, NoGoodbye(s)
  PROVE  /\ Head(s) \in Frame /\ Head(s) # CloseFrame
         /\ Tail(s) \in Seq(Frame) /\ NoGoodbye(Tail(s))
  <1>1. /\ Head(s) \in Frame /\ Tail(s) \in Seq(Frame)
        /\ Len(Tail(s)) = Len(s) - 1
        /\ \A i \in 1 .. Len(Tail(s)) : Tail(s)[i] = s[i + 1]
    BY HeadTailProperties
  <1>2. Len(s) \in Nat \ {0}
    BY EmptySeq
  <1>3. Head(s) = s[1]
    OBVIOUS
  <1>. QED  BY <1>1, <1>2, <1>3 DEF NoGoodbye

-----------------------------------------------------------------------------
LEMMA WireInit == Init => WireInv
  <1>. SUFFICES ASSUME Init, NEW c \in Conn
                PROVE  Opening(c) /\ Closing(c) /\ Reader(c)
    BY DEF WireInv
  <1>1. Opening(c)  BY DEF Init, Opening
  <1>2. Closing(c)  BY NothingSent DEF Init, Closing
  <1>3. ~At("closeframe", c)
    BY BusyTypes, WsAssumption DEF Init, At, Step
  <1>4. Reader(c)  BY <1>3 DEF Init, Reader
  <1>. QED  BY <1>1, <1>2, <1>4

-----------------------------------------------------------------------------
(* What a connection has in its buffers stays there; only flags are set.   *)
Untouched(c) ==
  /\ mem'[c] = mem[c]
  /\ delivered'[c] = delivered[c]
  /\ sending_buffers'[c] = sending_buffers[c]
  /\ write_buffers'[c] = write_buffers[c]
  /\ posted'[c] = posted[c]
  /\ close_connection'[c] = close_connection[c]
  /\ closing'[c] = closing[c]
  /\ is_reading'[c] = is_reading[c]

NotSoon(c) == \A s \in {"opened", "closeframe"} : At(s, c)' => At(s, c)

LEMMA Undisturbed ==
  ASSUME WireInv, NEW c \in Conn, Untouched(c), NotSoon(c)
  PROVE  (Opening(c) /\ Closing(c) /\ Reader(c))'
  <1>1. Opening(c) /\ Closing(c) /\ Reader(c)
    BY DEF WireInv
  <1>2. Opening(c)'  BY <1>1 DEF Opening, Untouched, BeginsWithHello
  <1>3. Closing(c)'
    BY <1>1 DEF Closing, Untouched, NoGoodbye, GoodbyeLast
  <1>4. Reader(c)'  BY <1>1 DEF Reader, Untouched, NotSoon
  <1>. QED  BY <1>2, <1>3, <1>4

(* A worker that turns to another connection, or rests, is at nothing new. *)
LEMMA OtherWork ==
  ASSUME TypeOK, NEW c \in Conn, NEW d \in Conn, d # c,
         \/ UNCHANGED worker
         \/ Done(c)
         \/ \E s \in Step : Goto(s, c)
  PROVE  NotSoon(d)
  <1>1. "opened" \in Step /\ "closeframe" \in Step
    BY DEF Step
  <1>2. WorkerOf[c] \in Worker /\ WorkerOf[d] \in Worker
    BY WsAssumption
  <1>3. CASE UNCHANGED worker
    BY <1>3 DEF NotSoon, At
  <1>4. CASE Done(c)
    BY <1>1, <1>2, <1>4, BusyTypes DEF Done, TypeOK, NotSoon, At
  <1>5. ASSUME NEW s \in Step, Goto(s, c)
        PROVE  NotSoon(d)
    <2>1. \A t \in Step : Busy(s, c) # Busy(t, d)
      BY BusyTypes
    <2>. QED  BY <1>1, <1>2, <1>5, <2>1 DEF Goto, TypeOK, NotSoon, At
  <1>. QED  BY <1>3, <1>4, <1>5

(* A step of one connection leaves the others as they are.                 *)
LEMMA OthersOnWire ==
  ASSUME TypeOK, NEW c \in Conn, Network(c) \/ Handler(c),
         NEW d \in Conn, d # c
  PROVE  Untouched(d) /\ NotSoon(d)
  <1> USE DEF udpVars, runVars, readVars, flagVars, bufVars
  <1>a. ASSUME DestroyIfQuiet(c) PROVE mem'[d] = mem[d]
    BY <1>a DEF DestroyIfQuiet, TypeOK
  <1>b. ASSUME NEW b, DoWrite(c, b)
        PROVE  /\ sending_buffers'[d] = sending_buffers[d]
               /\ write_buffers'[d] = write_buffers[d]
    BY <1>b DEF DoWrite, TypeOK
  <1>1. NotSoon(d)
    <2>1. \/ UNCHANGED worker \/ Done(c)
          \/ \E s \in Step : Goto(s, c)
      BY DEF Network, Handler, PeerEof, PeerReset, Upgrade, ReadHeader,
             ReadData, ReadPing, ReadClose, OnOpen, StartReading, OpenThrows,
             ReadErrorHeader, ReadErrorBody, SendPosted, WriteOk, WriteEnds,
             OrphanWrite, OnCloseFrame, OnError, OnClose, Step
    <2>. QED  BY <2>1, OtherWork
  <1>2. CASE Network(c)
    BY <1>1, <1>2 DEF Network, PeerEof, PeerReset, Upgrade, ReadHeader,
                      ReadData, ReadPing, ReadClose, Untouched, TypeOK
  <1>3. CASE OnOpen(c) \/ StartReading(c) \/ OpenThrows(c)
    BY <1>1, <1>3 DEF OnOpen, StartReading, OpenThrows, Untouched, TypeOK
  <1>4. CASE ReadErrorHeader(c) \/ ReadErrorBody(c) \/ OnError(c)
    BY <1>1, <1>4
       DEF ReadErrorHeader, ReadErrorBody, OnError, Untouched, TypeOK
  <1>5. CASE SendPosted(c)
    <2>1. /\ sending_buffers'[d] = sending_buffers[d]
          /\ write_buffers'[d] = write_buffers[d]
      BY <1>5, <1>b DEF SendPosted
    <2>. QED  BY <1>1, <1>5, <2>1 DEF SendPosted, Untouched, TypeOK
  <1>6. CASE WriteOk(c) \/ OrphanWrite(c)
    BY <1>1, <1>6 DEF WriteOk, OrphanWrite, Untouched, TypeOK
  <1>7. CASE WriteEnds(c)
    <2>1. mem'[d] = mem[d]  BY <1>7, <1>a DEF WriteEnds
    <2>. QED  BY <1>1, <1>7, <2>1 DEF WriteEnds, Untouched, TypeOK
  <1>8. CASE OnCloseFrame(c)
    <2>1. /\ sending_buffers'[d] = sending_buffers[d]
          /\ write_buffers'[d] = write_buffers[d]
      BY <1>8, <1>b DEF OnCloseFrame
    <2>2. mem'[d] = mem[d]  BY <1>8, <1>a DEF OnCloseFrame
    <2>. QED  BY <1>1, <1>8, <2>1, <2>2 DEF OnCloseFrame, Untouched, TypeOK
  <1>9. CASE OnClose(c)
    <2>1. mem'[d] = mem[d]  BY <1>9, <1>a DEF OnClose
    <2>. QED  BY <1>1, <1>9, <2>1 DEF OnClose, Untouched
  <1>10. Untouched(d)
    BY <1>2, <1>3, <1>4, <1>5, <1>6, <1>7, <1>8, <1>9 DEF Handler
  <1>. QED  BY <1>1, <1>10

-----------------------------------------------------------------------------
(* do_write, with one more frame behind those that wait.                   *)
LEMMA BuffersInOrder ==
  ASSUME TypeOK, NEW c \in Conn, Opening(c), Closing(c), mem[c] = "live",
         NEW f \in Frame, DoWrite(c, Append(write_buffers[c], f))
  PROVE  /\ sending_buffers'[c] # <<>>
         /\ GoodbyeLast(sending_buffers'[c])
         /\ f # CloseFrame /\ ~close_connection[c] =>
              /\ NoGoodbye(sending_buffers'[c])
              /\ NoGoodbye(write_buffers'[c])
         /\ f # CloseFrame /\ ~NoGoodbye(write_buffers'[c]) => closing[c]
         /\ ~close_connection[c] =>
              \/ BeginsWithHello(delivered[c])
              \/ delivered[c] = <<>> /\ BeginsWithHello(sending_buffers'[c])
  <1>1. write_buffers[c] \in Seq(Frame)
    BY DEF TypeOK
  <1>2. CASE sending_buffers[c] = <<>>
    <2>1. /\ sending_buffers'[c] = Append(write_buffers[c], f)
          /\ write_buffers'[c] = <<>>
      BY <1>2 DEF DoWrite, TypeOK
    <2>2. NoGoodbye(write_buffers[c])
      BY <1>2 DEF Closing
    <2>3. /\ f # CloseFrame => NoGoodbye(sending_buffers'[c])
          /\ GoodbyeLast(sending_buffers'[c])
          /\ sending_buffers'[c] # <<>>
      BY <1>1, <2>1, <2>2, Appended, AppendProperties
    <2>4. ~close_connection[c] => BeginsWithHello(delivered[c])
      BY <1>2 DEF Opening, BeginsWithHello
    <2>. QED  BY <2>1, <2>3, <2>4, NothingSent
  <1>3. CASE sending_buffers[c] # <<>>
    <2>1. /\ sending_buffers'[c] = sending_buffers[c]
          /\ write_buffers'[c] = Append(write_buffers[c], f)
      BY <1>3 DEF DoWrite, TypeOK
    <2>2. f # CloseFrame /\ NoGoodbye(write_buffers[c])
            => NoGoodbye(write_buffers'[c])
      BY <1>1, <2>1, Appended
    <2>. QED  BY <1>3, <2>1, <2>2 DEF Opening, Closing, BeginsWithHello
  <1>. QED  BY <1>2, <1>3

LEMMA WireNetwork ==
  ASSUME TypeOK, RegistryInv, WireInv, NEW c \in Conn, Network(c)
  PROVE  (Opening(c) /\ Closing(c) /\ Reader(c))'
  <1> USE DEF udpVars, runVars, readVars, flagVars, bufVars
  <1>a. Opening(c) /\ Closing(c) /\ Reader(c)
    BY DEF WireInv
  <1>b. WorkerOf[c] \in Worker
    BY WsAssumption
  <1>c. Busy("onopen", c) # Busy("opened", c)
        /\ Busy("onopen", c) # Busy("closeframe", c)
        /\ Busy("closeframe", c) # Busy("opened", c)
    BY BusyTypes DEF Step
  <1>1. CASE Upgrade(c)
    <2>1. /\ mem'[c] = "live" /\ delivered'[c] = <<>>
          /\ sending_buffers'[c] = <<Hello>> /\ write_buffers'[c] = <<>>
          /\ posted'[c] = posted[c] /\ ~close_connection'[c]
          /\ closing'[c] = closing[c] /\ is_reading'[c] = is_reading[c]
      BY <1>1, <1>a DEF Upgrade, Opening, TypeOK
    <2>2. worker'[WorkerOf[c]] = Busy("onopen", c)
      BY <1>1, <1>b DEF Upgrade, Goto, TypeOK
    <2>3. ~At("opened", c)' /\ ~At("closeframe", c)'
      BY <1>c, <2>2 DEF At
    <2>4. /\ BeginsWithHello(<<Hello>>) /\ NoGoodbye(<<Hello>>)
          /\ GoodbyeLast(<<Hello>>)
      BY Frames DEF BeginsWithHello, NoGoodbye, GoodbyeLast
    <2>5. Opening(c)'
      BY <2>1, <2>4 DEF Opening, BeginsWithHello
    <2>6. Closing(c)'
      BY <1>a, <2>1, <2>4, NothingSent DEF Closing, NoGoodbye, GoodbyeLast
    <2>. QED  BY <1>a, <2>1, <2>3, <2>5, <2>6 DEF Reader
  <1>2. CASE ReadPing(c)
    <2>1. posted'[c] = Append(posted[c], Pong) /\ posted[c] \in Seq(Frame)
      BY <1>2 DEF ReadPing, TypeOK
    <2>2. NoGoodbye(posted'[c])
      BY <1>a, <2>1, Appended, Frames, FrameTypes DEF Closing
    <2>3. Opening(c)'
      BY <1>2, <1>a DEF ReadPing, Opening, BeginsWithHello
    <2>4. Closing(c)'
      BY <1>2, <1>a, <2>2 DEF ReadPing, Closing, NoGoodbye, GoodbyeLast
    <2>. QED  BY <1>2, <1>a, <2>3, <2>4 DEF ReadPing, Reader, At
  <1>3. CASE ReadClose(c)
    <2>1. ~is_reading'[c] /\ closing'[c]
      BY <1>3 DEF ReadClose, TypeOK
    <2>2. worker'[WorkerOf[c]] = Busy("closeframe", c)
      BY <1>3, <1>b DEF ReadClose, Goto, TypeOK
    <2>3. Reader(c)'
      BY <1>c, <2>1, <2>2 DEF Reader, At
    <2>4. Opening(c)'
      BY <1>3, <1>a DEF ReadClose, Opening, BeginsWithHello
    <2>5. Closing(c)'
      BY <1>3, <1>a, <2>1 DEF ReadClose, Closing, NoGoodbye, GoodbyeLast
    <2>. QED  BY <2>3, <2>4, <2>5
  <1>4. CASE PeerEof(c) \/ PeerReset(c) \/ ReadHeader(c) \/ ReadData(c)
    <2>1. Untouched(c) /\ NotSoon(c)
      BY <1>4 DEF PeerEof, PeerReset, ReadHeader, ReadData, Untouched,
                  NotSoon, At
    <2>. QED  BY <2>1, Undisturbed
  <1>. QED  BY <1>1, <1>2, <1>3, <1>4 DEF Network

LEMMA WireHandler ==
  ASSUME TypeOK, RegistryInv, WireInv, NEW c \in Conn, Handler(c)
  PROVE  (Opening(c) /\ Closing(c) /\ Reader(c))'
  <1> USE DEF udpVars, runVars, readVars, flagVars, bufVars
  <1>a. Opening(c) /\ Closing(c) /\ Reader(c)
    BY DEF WireInv
  <1>b. WorkerOf[c] \in Worker
    BY WsAssumption
  <1>c. \A s, t \in Step : s # t => Busy(s, c) # Busy(t, c)
    BY BusyTypes
  <1>d. \A s \in Step : Busy(s, c) # Idle
    BY BusyTypes
  <1>e. Done(c) => NotSoon(c)
    BY <1>b, <1>d DEF Done, TypeOK, NotSoon, At, Step
  <1>f. \A s \in Step \ {"opened", "closeframe"} : Goto(s, c) => NotSoon(c)
    BY <1>b, <1>c DEF Goto, TypeOK, NotSoon, At, Step
  <1>g. \A s \in Step : At(s, c) => mem[c] = "live"
    BY <1>b, BusyTypes DEF At, RegistryInv
  <1>h. ASSUME DestroyIfQuiet(c), mem[c] = "live"
        PROVE  mem'[c] = IF sending_buffers'[c] = <<>> /\ ~is_reading'[c]
                         THEN "deleted" ELSE "live"
    BY <1>h DEF DestroyIfQuiet, TypeOK
  <1>1. CASE OnOpen(c)
    <2>1. At("onopen", c) /\ ~closing[c]
      BY <1>1 DEF OnOpen, RegistryInv
    <2>2. worker'[WorkerOf[c]] = Busy("opened", c)
      BY <1>1, <1>b DEF OnOpen, Goto, TypeOK
    <2>3. ~At("closeframe", c)'
      BY <1>c, <2>2 DEF At, Step
    <2>4. Opening(c)' /\ Closing(c)'
      BY <1>1, <1>a DEF OnOpen, Opening, Closing, BeginsWithHello,
                        NoGoodbye, GoodbyeLast
    <2>. QED  BY <1>1, <2>1, <2>3, <2>4 DEF OnOpen, Reader
  <1>2. CASE StartReading(c)
    <2>1. ~closing[c]
      BY <1>2, <1>a DEF StartReading, Reader
    <2>2. Opening(c)' /\ Closing(c)'
      BY <1>2, <1>a DEF StartReading, Opening, Closing, BeginsWithHello,
                        NoGoodbye, GoodbyeLast
    <2>. QED  BY <1>2, <1>a, <1>e, <2>1, <2>2
              DEF StartReading, Reader, NotSoon
  <1>3. CASE OpenThrows(c)
    <2>1. mem'[c] = "unwound"
      BY <1>3 DEF OpenThrows, TypeOK
    <2>2. Opening(c)' /\ Closing(c)'
      BY <1>3, <1>a, <2>1 DEF OpenThrows, Opening, Closing, NoGoodbye
    <2>. QED  BY <1>3, <1>a, <1>e, <2>2 DEF OpenThrows, Reader, NotSoon
  <1>4. CASE ReadErrorHeader(c) \/ ReadErrorBody(c)
    <2>1. close_connection'[c] /\ ~is_reading'[c] /\ mem[c] # "none"
      BY <1>4 DEF ReadErrorHeader, ReadErrorBody, Reading, TypeOK
    <2>2. NotSoon(c)
      <3>1. UNCHANGED worker \/ Goto("onerror", c)
        BY <1>4 DEF ReadErrorHeader, ReadErrorBody
      <3>. QED  BY <1>f, <3>1 DEF NotSoon, At, Step
    <2>3. UNCHANGED <<mem, closing, posted, bufVars>>
      BY <1>4 DEF ReadErrorHeader, ReadErrorBody
    <2>4. Opening(c)'
      BY <2>1, <2>3 DEF Opening
    <2>5. Closing(c)'
      BY <1>a, <2>1, <2>3 DEF Closing, NoGoodbye, GoodbyeLast
    <2>. QED  BY <1>a, <2>1, <2>2, <2>3, <2>4, <2>5 DEF Reader, NotSoon
  <1>5. CASE SendPosted(c)
    <2>1. /\ NoGoodbye(posted'[c]) /\ Head(posted[c]) \in Frame
          /\ Head(posted[c]) # CloseFrame
      <3>1. posted[c] \in Seq(Frame) /\ posted[c] # <<>>
            /\ posted'[c] = Tail(posted[c])
        BY <1>5 DEF SendPosted, TypeOK
      <3>. QED  BY <1>a, <3>1, Popped DEF Closing
    <2>2. Reader(c)'
      BY <1>5, <1>a DEF SendPosted, Reader, At
    <2>3. CASE mem[c] = "live"
      <3>1. DoWrite(c, Append(write_buffers[c], Head(posted[c])))
        BY <1>5, <2>3 DEF SendPosted
      <3>2. UNCHANGED <<mem, delivered, close_connection, closing>>
        BY <1>5 DEF SendPosted
      <3>3. /\ sending_buffers'[c] # <<>>
            /\ GoodbyeLast(sending_buffers'[c])
            /\ ~close_connection[c] =>
                 /\ NoGoodbye(sending_buffers'[c])
                 /\ NoGoodbye(write_buffers'[c])
            /\ ~NoGoodbye(write_buffers'[c]) => closing[c]
            /\ ~close_connection[c] =>
                 \/ BeginsWithHello(delivered[c])
                 \/ /\ delivered[c] = <<>>
                    /\ BeginsWithHello(sending_buffers'[c])
        BY <1>a, <2>1, <2>3, <3>1, BuffersInOrder
      <3>4. Opening(c)'
        BY <2>3, <3>2, <3>3 DEF Opening, BeginsWithHello
      <3>5. Closing(c)'
        BY <1>a, <2>1, <3>2, <3>3 DEF Closing, NoGoodbye, GoodbyeLast
      <3>. QED  BY <2>2, <3>4, <3>5
    <2>4. CASE mem[c] # "live"
      <3>1. UNCHANGED <<mem, bufVars, flagVars>>
        BY <1>5, <2>4 DEF SendPosted
      <3>. QED  BY <1>a, <2>1, <2>2, <3>1
                DEF Opening, Closing, BeginsWithHello, NoGoodbye, GoodbyeLast
    <2>. QED  BY <2>3, <2>4
  <1>6. CASE WriteOk(c)
    <2>1. /\ mem[c] = "live" /\ ~close_connection[c]
          /\ delivered'[c] = delivered[c] \o sending_buffers[c]
          /\ sending_buffers'[c] = write_buffers[c]
          /\ write_buffers'[c] = <<>>
          /\ delivered[c] \in Seq(Frame) /\ sending_buffers[c] \in Seq(Frame)
      BY <1>6 DEF WriteOk, InService, TypeOK
    <2>2. UNCHANGED <<worker, mem, readVars, flagVars, posted>>
      BY <1>6 DEF WriteOk
    <2>3. NoGoodbye(delivered'[c])
      BY <1>a, <2>1, Joined DEF Closing
    <2>4. BeginsWithHello(delivered'[c])
      BY <1>a, <2>1, Joined DEF Closing, Opening
    <2>5. Opening(c)'
      BY <2>1, <2>2, <2>4 DEF Opening, BeginsWithHello
    <2>6. Closing(c)'
      BY <1>a, <2>1, <2>2, <2>3, NotLast, NothingSent
         DEF Closing, NoGoodbye, GoodbyeLast
    <2>. QED  BY <1>a, <2>2, <2>5, <2>6 DEF Reader, At
  <1>7. CASE WriteEnds(c)
    <2>1. /\ mem[c] = "live" /\ close_connection'[c]
          /\ sending_buffers'[c] = <<>>
      BY <1>7 DEF WriteEnds, TypeOK
    <2>2. UNCHANGED <<readVars, closing, posted, write_buffers, delivered>>
      BY <1>7 DEF WriteEnds
    <2>3. NotSoon(c) /\ mem'[c] \in {"live", "deleted"}
          /\ (closing[c] => mem'[c] = "deleted")
      <3>1. CASE ~closing[c] /\ Goto("onclose", c) /\ UNCHANGED mem
        BY <1>f, <2>1, <3>1 DEF Step
      <3>2. CASE closing[c] /\ UNCHANGED worker /\ DestroyIfQuiet(c)
        <4>1. ~is_reading'[c]
          BY <1>a, <2>2, <3>2 DEF Reader
        <4>. QED  BY <1>h, <2>1, <3>2, <4>1 DEF NotSoon, At
      <3>. QED  BY <1>7, <3>1, <3>2 DEF WriteEnds, CloseHandlerCalled
    <2>4. Opening(c)'
      BY <2>1, <2>3 DEF Opening
    <2>5. Closing(c)'
      BY <1>a, <2>1, <2>2, <2>3, NothingSent
         DEF Closing, NoGoodbye, GoodbyeLast
    <2>. QED  BY <1>a, <2>2, <2>3, <2>4, <2>5 DEF Reader, NotSoon
  <1>8. CASE OrphanWrite(c)
    <2>1. mem[c] = "unwound" /\ sending_buffers'[c] = <<>>
      BY <1>8 DEF OrphanWrite, TypeOK
    <2>2. UNCHANGED <<worker, mem, readVars, flagVars, posted, write_buffers,
                      delivered>>
      BY <1>8 DEF OrphanWrite
    <2>3. Opening(c)'
      BY <2>1, <2>2 DEF Opening
    <2>4. Closing(c)'
      BY <1>a, <2>1, <2>2, NothingSent DEF Closing, NoGoodbye
    <2>. QED  BY <1>a, <2>2, <2>3, <2>4 DEF Reader, At
  <1>9. CASE OnCloseFrame(c)
    <2>1. At("closeframe", c) /\ mem[c] = "live" /\ closing[c]
      BY <1>9, <1>a, <1>g DEF OnCloseFrame, Reader, Step
    <2>2. /\ sending_buffers'[c] # <<>>
          /\ GoodbyeLast(sending_buffers'[c])
      BY <1>9, <1>a, <2>1, FrameTypes, BuffersInOrder DEF OnCloseFrame
    <2>3. mem'[c] = "live" /\ close_connection'[c]
          /\ UNCHANGED <<is_reading, closing, posted, delivered>>
      BY <1>9, <1>h, <2>1, <2>2 DEF OnCloseFrame, TypeOK
    <2>4. Opening(c)'
      BY <2>3 DEF Opening
    <2>5. Closing(c)'
      BY <1>a, <2>1, <2>2, <2>3 DEF Closing, NoGoodbye
    <2>6. NotSoon(c)
      BY <1>9, <1>e DEF OnCloseFrame
    <2>. QED  BY <1>a, <2>3, <2>4, <2>5, <2>6 DEF Reader, NotSoon
  <1>10. CASE OnError(c)
    <2>1. NotSoon(c)
      BY <1>10, <1>f DEF OnError, Step
    <2>2. Untouched(c)
      BY <1>10 DEF OnError, Untouched
    <2>. QED  BY <2>1, <2>2, Undisturbed
  <1>11. CASE OnClose(c)
    <2>1. mem[c] = "live"
      BY <1>11, <1>g DEF OnClose, Step
    <2>2. mem'[c] \in {"live", "deleted"}
      BY <1>11, <1>h, <2>1 DEF OnClose
    <2>3. UNCHANGED <<readVars, flagVars, posted, bufVars>>
      BY <1>11 DEF OnClose
    <2>4. NotSoon(c)
      BY <1>11, <1>e DEF OnClose
    <2>5. Opening(c)' /\ Closing(c)'
      BY <1>a, <2>1, <2>2, <2>3
         DEF Opening, Closing, BeginsWithHello, NoGoodbye, GoodbyeLast
    <2>. QED  BY <1>a, <2>3, <2>4, <2>5 DEF Reader, NotSoon
  <1>. QED  BY <1>1, <1>2, <1>3, <1>4, <1>5, <1>6, <1>7, <1>8, <1>9, <1>10,
               <1>11 DEF Handler

(* The UDP thread only posts, and no Close frame.                          *)
LEMMA WireProxy ==
  ASSUME TypeOK, WireInv,
         UdpRecv \/ UdpExit \/ UdpThread \/ ServerStop \/ RequestStop
  PROVE  WireInv'
  <1> USE DEF udpVars, runVars, readVars, flagVars, bufVars
  <1>1. ASSUME NEW d \in Conn, UdpSend(d), NEW c \in Conn
        PROVE  (Opening(c) /\ Closing(c) /\ Reader(c))'
    <2>1. Opening(c) /\ Closing(c) /\ Reader(c)
      BY DEF WireInv
    <2>2. UNCHANGED <<mem, worker, readVars, flagVars, bufVars>>
      BY <1>1 DEF UdpSend
    <2>3. NoGoodbye(posted'[c])
      <3>1. posted[c] \in Seq(Frame) /\ NoGoodbye(posted[c])
        BY <2>1 DEF Closing, TypeOK
      <3>2. json \in Frame /\ json # CloseFrame
        BY FrameTypes, Frames, WsAssumption DEF TypeOK
      <3>3. posted'[c] \in {posted[c], Append(posted[c], json)}
        BY <1>1 DEF UdpSend, TypeOK
      <3>. QED  BY <3>1, <3>2, <3>3, Appended
    <2>. QED  BY <2>1, <2>2, <2>3
              DEF Opening, Closing, Reader, At, BeginsWithHello, NoGoodbye,
                  GoodbyeLast
  <1>2. ASSUME UdpRecv \/ UdpExit \/ UdpLock \/ UdpUnlock \/ ServerStop
                 \/ RequestStop,
               NEW c \in Conn
        PROVE  (Opening(c) /\ Closing(c) /\ Reader(c))'
    <2>1. Untouched(c) /\ NotSoon(c)
      BY <1>2 DEF UdpRecv, UdpExit, UdpLock, UdpUnlock, ServerStop,
                  RequestStop, Untouched, NotSoon, At
    <2>. QED  BY <2>1, Undisturbed
  <1>. QED  BY <1>1, <1>2 DEF UdpThread, WireInv

LEMMA WireNext == TypeOK /\ RegistryInv /\ WireInv /\ [Next]_vars => WireInv'
  <1>. SUFFICES ASSUME TypeOK, RegistryInv, WireInv, [Next]_vars
                PROVE  WireInv'
    OBVIOUS
  <1>1. ASSUME NEW c \in Conn, Network(c) \/ Handler(c)
        PROVE  WireInv'
    <2>1. (Opening(c) /\ Closing(c) /\ Reader(c))'
      BY <1>1, WireNetwork, WireHandler
    <2>2. ASSUME NEW d \in Conn, d # c
          PROVE  (Opening(d) /\ Closing(d) /\ Reader(d))'
      BY <1>1, <2>2, OthersOnWire, Undisturbed
    <2>. QED  BY <2>1, <2>2 DEF WireInv
  <1>2. CASE UdpRecv \/ UdpExit \/ UdpThread \/ ServerStop \/ RequestStop
    BY <1>2, WireProxy
  <1>3. CASE UNCHANGED vars
    <2>1. ASSUME NEW c \in Conn
          PROVE  Untouched(c) /\ NotSoon(c)
      BY <1>3 DEF vars, udpVars, readVars, flagVars, bufVars, Untouched,
                  NotSoon, At
    <2>. QED  BY <2>1, Undisturbed DEF WireInv
  <1>. QED  BY <1>1, <1>2, <1>3 DEF Next

(* The inductive invariant: where a Close frame may be, and that the       *)
(* response to the handshake is the first of all.                          *)
THEOREM WireCorrect == Spec => []WireInv
  BY TypeCorrect, RegistryCorrect, WireInit, WireNext, PTL DEF Spec

(* A client sees the response to its handshake first and nothing after the *)
(* Close frame, although texts are posted before the handshake is over and *)
(* remain queued behind a Close frame (do_write and close in crow_all.h).  *)
THEOREM WireProtocolKept == Spec => []WireProtocol
  <1>1. TypeOK /\ WireInv => WireProtocol
    <2>. SUFFICES ASSUME TypeOK, WireInv, NEW c \in Conn, mem[c] = "live"
                  PROVE  /\ ~close_connection[c] /\ OnWire(c) # <<>>
                              => Head(OnWire(c)) = Hello
                         /\ GoodbyeLast(OnWire(c))
      BY DEF WireProtocol, GoodbyeLast
    <2>1. Opening(c) /\ Closing(c)
      BY DEF WireInv
    <2>2. delivered[c] \in Seq(Frame) /\ sending_buffers[c] \in Seq(Frame)
      BY DEF TypeOK
    <2>3. OnWire(c) \in Seq(Frame) /\ GoodbyeLast(OnWire(c))
      BY <2>1, <2>2, Joined, ConcatProperties DEF OnWire, Closing
    <2>4. ~close_connection[c] => BeginsWithHello(OnWire(c))
      BY <2>1, <2>2, Joined DEF OnWire, Closing, Opening
    <2>5. BeginsWithHello(OnWire(c)) => Head(OnWire(c)) = Hello
      BY <2>3 DEF BeginsWithHello
    <2>. QED  BY <2>3, <2>4, <2>5
  <1>. QED  BY <1>1, TypeCorrect, WireCorrect, PTL

-----------------------------------------------------------------------------
(* WsBroadcast implements PanelFeed: the lemmas about the packets in a     *)
(* sequence of frames that the mapping needs, by induction over the        *)
(* sequence; what the feed sees of each action; and that no client is      *)
(* served with a gap.                                                      *)

(* Induction over the natural numbers, with a set for the property: a set  *)
(* that lacks some number lacks a least one.                               *)
LEMMA SetInduction ==
  ASSUME NEW T \in SUBSET Nat, 0 \in T, \A n \in T : n + 1 \in T
  PROVE  T = Nat
  <1>. DEFINE R == OpToRel(<, Nat)
  <1>1. IsWellFoundedOn(R, Nat)
    BY NatLessThanWellFounded, Zenon
  <1>2. ASSUME Nat \ T # {}
        PROVE  FALSE
    <2>1. PICK x \in Nat \ T : \A y \in Nat \ T : ~(<<y, x>> \in R)
      <3>. HIDE DEF R
      <3>. QED  BY <1>1, <1>2, WFMin, Zenon
    <2>2. \A y \in Nat \ T : ~(y < x)
      BY <2>1 DEF OpToRel
    <2>3. x # 0 /\ x - 1 \in Nat
      OBVIOUS
    <2>4. x - 1 \in T
      BY <2>2, <2>3
    <2>. QED  BY <2>4
  <1>. QED  BY <1>2

-----------------------------------------------------------------------------
(* Packets.  What the recursion of PacketsUpTo says of one of its values,  *)
(* and of the function as a whole.                                         *)
StepOf(s, f, i) == IF i = 0 THEN <<>>
                   ELSE IF s[i] \in Packet THEN Append(f[i - 1], s[i])
                        ELSE f[i - 1]
Recursion(s, n, f) == f = [i \in 0 .. n |-> StepOf(s, f, i)]

(* The recursion has a solution, so that PacketsUpTo is one.                *)
LEMMA PacketsExist ==
  ASSUME NEW s, NEW n \in Nat
  PROVE  \E f : Recursion(s, n, f)
  <1>. DEFINE T == {m \in Nat : \E f : Recursion(s, m, f)}
  <1>1. 0 \in T
    <2>1. Recursion(s, 0, [i \in 0 .. 0 |-> <<>>])
      BY DEF Recursion, StepOf
    <2>. QED  BY <2>1
  <1>2. ASSUME NEW m \in T
        PROVE  m + 1 \in T
    <2>1. PICK f : Recursion(s, m, f)
      OBVIOUS
    <2>. DEFINE g == [i \in 0 .. m + 1 |-> IF i =< m THEN f[i]
                                           ELSE StepOf(s, f, i)]
    <2>2. \A i \in 0 .. m + 1 : StepOf(s, g, i) = StepOf(s, f, i)
      BY DEF StepOf
    <2>3. \A i \in 0 .. m : f[i] = StepOf(s, f, i)
      BY <2>1 DEF Recursion
    <2>4. Recursion(s, m + 1, g)
      BY <2>2, <2>3 DEF Recursion
    <2>5. \E h : Recursion(s, m + 1, h)
      <3>. HIDE DEF g
      <3>. QED  BY <2>4
    <2>. QED  BY <2>5
  <1>3. T \subseteq Nat
    OBVIOUS
  <1>4. T = Nat
    <2>. HIDE DEF T
    <2>. QED  BY <1>1, <1>2, <1>3, SetInduction
  <1>. QED  BY <1>4

(* ... and this is what it says of each prefix.                             *)
LEMMA PacketsUnfold ==
  ASSUME NEW s \in Seq(Frame)
  PROVE  /\ PacketsUpTo(s)[0] = <<>>
         /\ \A i \in 1 .. Len(s) :
              PacketsUpTo(s)[i] =
                IF s[i] \in Packet THEN Append(PacketsUpTo(s)[i - 1], s[i])
                ELSE PacketsUpTo(s)[i - 1]
  <1>1. Len(s) \in Nat
    BY LenProperties
  <1>2. \E g : Recursion(s, Len(s), g)
    BY <1>1, PacketsExist
  <1>3. Recursion(s, Len(s), PacketsUpTo(s))
    BY <1>2 DEF Recursion, StepOf, PacketsUpTo
  <1>. DEFINE f == PacketsUpTo(s)
  <1>4. \A i \in 0 .. Len(s) : f[i] = StepOf(s, f, i)
    <2>. HIDE DEF f
    <2>1. Recursion(s, Len(s), f) =>
            \A i \in 0 .. Len(s) : f[i] = StepOf(s, f, i)
      BY DEF Recursion
    <2>. QED  BY <1>3, <2>1 DEF f
  <1>. HIDE DEF f
  <1>5. f[0] = <<>> /\ \A i \in 1 .. Len(s) : f[i] =
          IF s[i] \in Packet THEN Append(f[i - 1], s[i]) ELSE f[i - 1]
    BY <1>1, <1>4 DEF StepOf
  <1>. QED  BY <1>5 DEF f

(* The packets in the beginning of a sequence of frames.                   *)
LEMMA PacketsPrefix ==
  ASSUME NEW s \in Seq(Frame), NEW x \in Frame
  PROVE  \A i \in 0 .. Len(s) :
           PacketsUpTo(Append(s, x))[i] = PacketsUpTo(s)[i]
  <1>. DEFINE t == Append(s, x)
              T == {n \in Nat : n =< Len(s) =>
                                  PacketsUpTo(t)[n] = PacketsUpTo(s)[n]}
  <1>1. /\ t \in Seq(Frame) /\ Len(t) = Len(s) + 1 /\ Len(s) \in Nat
        /\ \A i \in 1 .. Len(s) : t[i] = s[i]
    BY AppendProperties, LenProperties
  <1>. HIDE DEF t
  <1>2. 0 \in T
    BY <1>1, PacketsUnfold
  <1>3. ASSUME NEW n \in T
        PROVE  n + 1 \in T
    <2>. SUFFICES ASSUME n + 1 =< Len(s)
                  PROVE  PacketsUpTo(t)[n + 1] = PacketsUpTo(s)[n + 1]
      OBVIOUS
    <2>1. n + 1 \in 1 .. Len(s) /\ n + 1 \in 1 .. Len(t) /\ (n + 1) - 1 = n
      BY <1>1
    <2>2. PacketsUpTo(t)[n] = PacketsUpTo(s)[n]
      BY <1>1
    <2>. QED  BY <1>1, <2>1, <2>2, PacketsUnfold
  <1>4. T \subseteq Nat
    OBVIOUS
  <1>5. T = Nat
    <2>. HIDE DEF T
    <2>. QED  BY <1>2, <1>3, <1>4, SetInduction
  <1>. QED  BY <1>1, <1>5 DEF t

(* One frame more.                                                          *)
LEMMA PacketsAppend ==
  ASSUME NEW s \in Seq(Frame), NEW x \in Frame
  PROVE  Packets(Append(s, x)) =
           IF x \in Packet THEN Append(Packets(s), x) ELSE Packets(s)
  <1>. DEFINE t == Append(s, x)
  <1>1. /\ t \in Seq(Frame) /\ Len(t) = Len(s) + 1 /\ Len(s) \in Nat
        /\ t[Len(s) + 1] = x
    BY AppendProperties, LenProperties
  <1>2. PacketsUpTo(t)[Len(s)] = PacketsUpTo(s)[Len(s)]
    BY <1>1, PacketsPrefix
  <1>. HIDE DEF t
  <1>3. Len(t) \in 1 .. Len(t) /\ Len(t) - 1 = Len(s)
    BY <1>1
  <1>4. PacketsUpTo(t)[Len(t)] =
          IF t[Len(t)] \in Packet
          THEN Append(PacketsUpTo(t)[Len(s)], t[Len(t)])
          ELSE PacketsUpTo(t)[Len(s)]
    BY <1>1, <1>3, PacketsUnfold
  <1>. QED  BY <1>1, <1>2, <1>4 DEF Packets, t

(* There are none in no frames.                                            *)
LEMMA NoPackets == Packets(<<>>) = <<>>
  <1>1. <<>> \in Seq(Frame) /\ Len(<<>>) = 0
    BY EmptySeq
  <1>. QED  BY <1>1, PacketsUnfold DEF Packets

(* Sequences of frames are built up one frame at a time.                   *)
LEMMA FrameInduction ==
  ASSUME NEW S \in SUBSET Seq(Frame), <<>> \in S,
         \A s \in S : \A x \in Frame : Append(s, x) \in S
  PROVE  S = Seq(Frame)
  <1>. DEFINE T == {n \in Nat : \A s \in Seq(Frame) : Len(s) = n => s \in S}
  <1>1. 0 \in T
    BY EmptySeq
  <1>2. ASSUME NEW n \in T
        PROVE  n + 1 \in T
    <2>. SUFFICES ASSUME NEW s \in Seq(Frame), Len(s) = n + 1
                  PROVE  s \in S
      OBVIOUS
    <2>1. s # <<>>
      BY EmptySeq
    <2>2. PICK f \in Seq(Frame), x \in Frame : s = Append(f, x)
      BY <2>1, SequenceEmptyOrAppend
    <2>3. Len(f) = n
      BY <2>2, AppendProperties, LenProperties
    <2>. QED  BY <2>2, <2>3
  <1>3. T \subseteq Nat
    OBVIOUS
  <1>4. T = Nat
    <2>. HIDE DEF T
    <2>. QED  BY <1>1, <1>2, <1>3, SetInduction
  <1>. QED  BY <1>4, LenProperties

(* They are packets, and no more of them than there are frames.            *)
LEMMA PacketsType ==
  ASSUME NEW s \in Seq(Frame)
  PROVE  Packets(s) \in Seq(Packet)
  <1>. DEFINE S == {t \in Seq(Frame) : Packets(t) \in Seq(Packet)}
  <1>1. <<>> \in S
    BY NoPackets, EmptySeq
  <1>2. \A t \in S : \A x \in Frame : Append(t, x) \in S
    BY PacketsAppend, AppendProperties
  <1>3. S \subseteq Seq(Frame)
    OBVIOUS
  <1>4. S = Seq(Frame)
    <2>. HIDE DEF S
    <2>. QED  BY <1>1, <1>2, <1>3, FrameInduction
  <1>. QED  BY <1>4

(* A frame appended is a sequence of one frame joined on.                  *)
LEMMA AppendConcat ==
  ASSUME NEW S, NEW s \in Seq(S), NEW t \in Seq(S), NEW x \in S
  PROVE  s \o Append(t, x) = Append(s \o t, x)
  <1>1. /\ Append(t, x) = t \o <<x>> /\ <<x>> \in Seq(S)
        /\ s \o t \in Seq(S)
    BY AppendIsConcat, ConcatProperties
  <1>. QED  BY <1>1, AppendIsConcat, ConcatAssociative

(* The packets of two sequences of frames, one after the other.            *)
LEMMA PacketsConcat ==
  ASSUME NEW s \in Seq(Frame), NEW t \in Seq(Frame)
  PROVE  Packets(s \o t) = Packets(s) \o Packets(t)
  <1>. DEFINE S == {u \in Seq(Frame) :
                      Packets(s \o u) = Packets(s) \o Packets(u)}
  <1>1. <<>> \in S
    BY NoPackets, PacketsType, ConcatEmptySeq
  <1>2. ASSUME NEW u \in S, NEW x \in Frame
        PROVE  Append(u, x) \in S
    <2>1. s \o Append(u, x) = Append(s \o u, x) /\ s \o u \in Seq(Frame)
      BY AppendConcat, ConcatProperties
    <2>2. /\ Packets(s) \in Seq(Packet) /\ Packets(u) \in Seq(Packet)
          /\ Packets(s \o u) = Packets(s) \o Packets(u)
      BY PacketsType
    <2>3. x \in Packet => Append(Packets(s) \o Packets(u), x)
                            = Packets(s) \o Append(Packets(u), x)
      <3>1. \A a, b \in Seq(Packet) : \A y \in Packet :
              a \o Append(b, y) = Append(a \o b, y)
        BY AppendConcat
      <3>. QED  BY <2>2, <3>1
    <2>4. Packets(Append(u, x)) =
            IF x \in Packet THEN Append(Packets(u), x) ELSE Packets(u)
      BY PacketsAppend
    <2>5. Packets(Append(s \o u, x)) =
            IF x \in Packet THEN Append(Packets(s \o u), x)
            ELSE Packets(s \o u)
      BY <2>1, PacketsAppend
    <2>6. Append(u, x) \in Seq(Frame)
      BY AppendProperties
    <2>. QED  BY <2>1, <2>2, <2>3, <2>4, <2>5, <2>6
  <1>3. S \subseteq Seq(Frame)
    OBVIOUS
  <1>4. S = Seq(Frame)
    <2>. HIDE DEF S
    <2>. QED  BY <1>1, <1>2, <1>3, FrameInduction
  <1>. QED  BY <1>4
-----------------------------------------------------------------------------
(* What the refinement needs beside the invariants of the registry.        *)
FeedInv ==
  /\ udp \in {"lock", "broadcast"} => json \in Packet
  /\ \A c \in Conn :
       /\ mem[c] = "none" => posted[c] = <<>>
       /\ mem[c] = "deleted" => close_connection[c]
       /\ At("onclose", c) \/ At("onerror", c) => close_connection[c]

(* Nothing the feed knows of a client changes.                             *)
SameInFeed(c) == /\ Status(c)' = Status(c)
                 /\ Lost(c)' = Lost(c)
                 /\ Owed(c)' = Owed(c)
                 /\ Received(c)' = Received(c)

(* A sequence in two parts, taken apart again.                             *)
LEMMA ConcatParts ==
  ASSUME NEW S, NEW a \in Seq(S), NEW b \in Seq(S), a # <<>>
  PROVE  /\ Len(a) \in 1 .. Len(a \o b)
         /\ SubSeq(a \o b, 1, Len(a)) = a
         /\ SubSeq(a \o b, Len(a) + 1, Len(a \o b)) = b
  <1>1. Len(a) \in Nat \ {0} /\ Len(b) \in Nat
        /\ Len(a \o b) = Len(a) + Len(b)
    BY EmptySeq, LenProperties, ConcatProperties
  <1>2. SubSeq(a \o b, 1, Len(a)) = SubSeq(a, 1, Len(a))
    BY <1>1, SubSeqOfConcat1
  <1>3. CASE b = <<>>
    <2>1. Len(b) = 0 /\ a \o b = a
      BY <1>3, EmptySeq, ConcatEmptySeq
    <2>. QED  BY <1>1, <1>2, <1>3, <2>1, SubSeqFull, SubSeqEmpty
  <1>4. CASE b # <<>>
    <2>1. Len(b) \in Nat \ {0}
      BY <1>4, EmptySeq
    <2>2. SubSeq(a \o b, Len(a) + 1, Len(a \o b))
            = SubSeq(b, (Len(a) + 1) - Len(a), Len(a \o b) - Len(a))
      BY <1>1, <2>1, SubSeqOfConcat2
    <2>3. (Len(a) + 1) - Len(a) = 1 /\ Len(a \o b) - Len(a) = Len(b)
      BY <1>1
    <2>. QED  BY <1>1, <1>2, <2>2, <2>3, SubSeqFull
  <1>. QED  BY <1>3, <1>4

(* Whether a connection is lost is a Boolean.                              *)
LEMMA LostBoolean == TypeOK => \A c \in Conn : Lost(c) \in BOOLEAN
  BY DEF TypeOK, Lost, Stopped

(* The steps of PanelFeed, from what they do to each client.                *)
LEMMA FeedStutter ==
  ASSUME Published' = Published, \A c \in Conn : SameInFeed(c)
  PROVE  UNCHANGED Feed!feedVars
  BY DEF SameInFeed, Feed!feedVars

(* What the feed sees of a step: connections lost,                         *)
LEMMA FeedLose ==
  ASSUME NEW S \in SUBSET Conn, Published' = Published,
         \A c \in Conn : /\ Status(c)' = Status(c)
                         /\ Received(c)' = Received(c)
                         /\ Lost(c)' = (Lost(c) \/ c \in S)
                         /\ Owed(c)' = IF c \in S THEN <<>> ELSE Owed(c)
  PROVE  Feed!Next
  <1>1. Feed!Lose(S)
    BY DEF Feed!Lose, Feed!Abandon
  <1>. QED  BY <1>1 DEF Feed!Next

(* one of them,                                                            *)
LEMMA FeedLoseOne ==
  ASSUME NEW c \in Conn, Published' = Published, TypeOK,
         \A d \in Conn \ {c} : SameInFeed(d),
         Lost(c)', Status(c)' = Status(c), Received(c)' = Received(c)
  PROVE  Feed!Next
  <1>1. Owed(c)' = <<>>
    BY DEF Owed
  <1>. QED  BY <1>1, FeedLose, LostBoolean DEF SameInFeed

(* any number of them,                                                     *)
LEMMA FeedLoseAll ==
  ASSUME Published' = Published, Stopped', TypeOK,
         \A c \in Conn : Status(c)' = Status(c) /\ Received(c)' = Received(c)
  PROVE  Feed!Next
  <1>1. \A c \in Conn : Lost(c)' /\ Owed(c)' = <<>>
    BY DEF Owed, Lost
  <1>2. \A c \in Conn : Lost(c)' \in BOOLEAN
    BY DEF Lost, Stopped
  <1>. QED  BY <1>1, <1>2, LostBoolean, FeedLose

(* a client that leaves the registry,                                      *)
LEMMA FeedLeave ==
  ASSUME NEW c \in Conn, Published' = Published, TypeOK,
         \A d \in Conn \ {c} : SameInFeed(d),
         Lost(c)', Status(c) = "member", Status(c)' = "gone",
         Received(c)' = Received(c)
  PROVE  Feed!Next
  <1>1. Owed(c)' = <<>>
    BY DEF Owed
  <1>2. Lost(c)' \in BOOLEAN
    BY DEF Lost, Stopped
  <1>3. Feed!Leave(c)
    BY <1>1, <1>2, LostBoolean DEF SameInFeed, Feed!Leave, Feed!Abandon
  <1>. QED  BY <1>3 DEF Feed!Next

(* one that joins,                                                         *)
LEMMA FeedJoin ==
  ASSUME NEW c \in Conn, Published' = Published,
         \A d \in Conn \ {c} : SameInFeed(d),
         Status(c) = "new", Status(c)' = "member", Lost(c)' = Lost(c),
         Owed(c)' = Owed(c), Received(c)' = Received(c)
  PROVE  Feed!Next
  <1>1. Feed!Join(c)
    BY DEF SameInFeed, Feed!Join
  <1>. QED  BY <1>1 DEF Feed!Next

(* frames that arrive at one,                                              *)
LEMMA FeedDeliver ==
  ASSUME NEW c \in Conn, Published' = Published,
         \A d \in Conn \ {c} : SameInFeed(d),
         NEW a \in Seq(Packet), NEW b \in Seq(Packet), a # <<>>,
         Owed(c) = a \o b, Owed(c)' = b, Received(c)' = Received(c) \o a,
         ~Lost(c), Lost(c)' = Lost(c), Status(c)' = Status(c)
  PROVE  Feed!Next
  <1>1. /\ Len(a) \in 1 .. Len(Owed(c))
        /\ SubSeq(Owed(c), 1, Len(a)) = a
        /\ SubSeq(Owed(c), Len(a) + 1, Len(Owed(c))) = b
    BY ConcatParts
  <1>2. /\ [d \in Conn |-> Received(d)]' =
             [[d \in Conn |-> Received(d)] EXCEPT
                ![c] = @ \o SubSeq(Owed(c), 1, Len(a))]
        /\ [d \in Conn |-> Owed(d)]' =
             [[d \in Conn |-> Owed(d)] EXCEPT
                ![c] = SubSeq(@, Len(a) + 1, Len(@))]
    BY <1>1 DEF SameInFeed
  <1>3. Feed!Deliver(c)
    BY <1>1, <1>2 DEF SameInFeed, Feed!Deliver
  <1>. QED  BY <1>3 DEF Feed!Next

(* and a packet that is broadcast.                                         *)
LEMMA FeedPublish ==
  ASSUME Published < MaxPackets, Published' = Published + 1,
         \A c \in Conn :
           /\ Status(c)' = Status(c) /\ Lost(c)' = Lost(c)
           /\ Received(c)' = Received(c)
           /\ Owed(c)' = IF Status(c) = "member" /\ ~Lost(c)
                         THEN Append(Owed(c), Published') ELSE Owed(c)
  PROVE  Feed!Next
  <1>1. Feed!Publish
    BY DEF Feed!Publish
  <1>. QED  BY <1>1 DEF Feed!Next

-----------------------------------------------------------------------------
(* The invariant that the mapping needs holds at the start.                *)
LEMMA FeedInvInit == Init => FeedInv
  <1>. SUFFICES ASSUME Init
                PROVE  FeedInv
    OBVIOUS
  <1>1. \A c \in Conn : \A s \in Step : ~At(s, c)
    BY BusyTypes, WsAssumption DEF Init, At
  <1>. QED  BY <1>1 DEF Init, FeedInv, Step

(* A step of one connection leaves the worker of another where it is.      *)
LEMMA OthersAt ==
  ASSUME TypeOK, NEW c \in Conn, Network(c) \/ Handler(c),
         NEW d \in Conn, d # c
  PROVE  \A s \in Step : At(s, d)' = At(s, d)
  <1>1. WorkerOf[c] \in Worker /\ WorkerOf[d] \in Worker
    BY WsAssumption
  <1>2. \/ UNCHANGED worker
        \/ /\ worker[WorkerOf[c]] \in {Idle} \cup {Busy(s, c) : s \in Step}
           /\ Done(c) \/ \E s \in Step : Goto(s, c)
    BY DEF Network, Handler, PeerEof, PeerReset, Upgrade, ReadHeader,
           ReadData, ReadPing, ReadClose, OnOpen, StartReading, OpenThrows,
           ReadErrorHeader, ReadErrorBody, SendPosted, WriteOk, WriteEnds,
           OrphanWrite, OnCloseFrame, OnError, OnClose, Step, At, Reading,
           Ready
  <1>3. \A s, t \in Step : Busy(s, c) # Busy(t, d) /\ Busy(s, d) # Idle
    BY BusyTypes
  <1>4. CASE UNCHANGED worker
    BY <1>4 DEF At
  <1>5. CASE ~UNCHANGED worker
    <2>1. worker'[WorkerOf[c]] \in {Idle} \cup {Busy(s, c) : s \in Step}
      BY <1>1, <1>2, <1>5 DEF TypeOK, Done, Goto
    <2>2. WorkerOf[d] # WorkerOf[c]
            => worker'[WorkerOf[d]] = worker[WorkerOf[d]]
      BY <1>1, <1>2, <1>5 DEF TypeOK, Done, Goto
    <2>. QED  BY <1>2, <1>3, <1>5, <2>1, <2>2 DEF At
  <1>. QED  BY <1>4, <1>5

(* ... and what the feed knows of that other.                              *)
LEMMA OthersInFeed ==
  ASSUME TypeOK, NEW c \in Conn, Network(c) \/ Handler(c),
         crashed' = crashed, NEW d \in Conn, d # c
  PROVE  SameInFeed(d)
  <1>1. Untouched(d)
    BY OthersOnWire
  <1>2. At("onopen", d)' = At("onopen", d)
    BY OthersAt DEF Step
  <1>3. UNCHANGED <<udp, json, todo, serverUp>>
    BY DEF Network, Handler, PeerEof, PeerReset, Upgrade, ReadHeader,
           ReadData, ReadPing, ReadClose, OnOpen, StartReading, OpenThrows,
           ReadErrorHeader, ReadErrorBody, SendPosted, WriteOk, WriteEnds,
           OrphanWrite, OnCloseFrame, OnError, OnClose, udpVars, runVars
  <1>4. (d \in ws_clients)' = (d \in ws_clients)
    <2>1. CASE UNCHANGED ws_clients
      BY <2>1
    <2>2. CASE OnOpen(c)
      BY <2>2 DEF OnOpen
    <2>3. CASE OnCloseFrame(c) \/ OnError(c) \/ OnClose(c)
      <3>1. Erase(c)
        BY <2>3 DEF OnCloseFrame, OnError, OnClose
      <3>. QED  BY <3>1 DEF Erase
    <2>. QED
      BY <2>1, <2>2, <2>3
         DEF Network, Handler, PeerEof, PeerReset, Upgrade, ReadHeader,
             ReadData, ReadPing, ReadClose, StartReading, OpenThrows,
             ReadErrorHeader, ReadErrorBody, SendPosted, WriteOk, WriteEnds,
             OrphanWrite
  <1>5. Status(d)' = Status(d)
    BY <1>1, <1>2, <1>4 DEF Status, Untouched
  <1>6. Lost(d)' = Lost(d)
    BY <1>1, <1>3 DEF Lost, Stopped, Untouched
  <1>7. Waiting(d)' = Waiting(d) /\ Received(d)' = Received(d)
    BY <1>1 DEF Waiting, Received, Untouched
  <1>8. Owed(d)' = Owed(d)
    BY <1>3, <1>6, <1>7 DEF Owed
  <1>. QED  BY <1>5, <1>6, <1>7, <1>8 DEF SameInFeed

(* Every step of the proxy preserves it.                                   *)
LEMMA FeedInvNext ==
  TypeOK /\ RegistryInv /\ FeedInv /\ [Next]_vars => FeedInv'
  <1>. SUFFICES ASSUME TypeOK, RegistryInv, FeedInv, [Next]_vars
                PROVE  FeedInv'
    OBVIOUS
  <1> USE DEF udpVars, runVars, readVars, flagVars, bufVars
  <1>. DEFINE Inv(c) ==
         /\ mem[c] = "none" => posted[c] = <<>>
         /\ mem[c] = "deleted" => close_connection[c]
         /\ At("onclose", c) \/ At("onerror", c) => close_connection[c]
  <1>1. ASSUME NEW c \in Conn, Network(c) \/ Handler(c)
        PROVE  FeedInv'
    <2>a. WorkerOf[c] \in Worker
      BY WsAssumption
    <2>b. /\ \A s, t \in Step : s # t => Busy(s, c) # Busy(t, c)
          /\ \A s \in Step : Busy(s, c) # Idle
      BY BusyTypes
    <2>c. \A s \in Step : At(s, c) => mem[c] = "live"
      BY <2>a, BusyTypes DEF At, RegistryInv
    <2>d. DestroyIfQuiet(c) => \/ mem'[c] = mem[c]
                               \/ mem'[c] = "deleted"
      BY DEF DestroyIfQuiet, TypeOK
    <2>1. UNCHANGED <<udp, json>>
      BY <1>1
         DEF Network, Handler, PeerEof, PeerReset, Upgrade, ReadHeader,
           ReadData, ReadPing, ReadClose, OnOpen, StartReading, OpenThrows,
           ReadErrorHeader, ReadErrorBody, SendPosted, WriteOk, WriteEnds,
           OrphanWrite, OnCloseFrame, OnError, OnClose
    <2>2. ASSUME NEW d \in Conn, d # c
          PROVE  Inv(d)'
      BY <1>1, <2>2, OthersOnWire, OthersAt DEF FeedInv, Untouched, Step
    <2>3. Inv(c)
      BY DEF FeedInv
    <2>. SUFFICES Inv(c)'
      BY <2>1, <2>2 DEF FeedInv
    <2>4. CASE Upgrade(c)
      <3>1. mem'[c] = "live" /\ worker'[WorkerOf[c]] = Busy("onopen", c)
        BY <2>4, <2>a DEF Upgrade, Goto, TypeOK
      <3>. QED  BY <2>b, <3>1 DEF At, Step
    <2>5. CASE PeerEof(c) \/ PeerReset(c) \/ ReadHeader(c) \/ ReadData(c)
                 \/ ReadPing(c)
      BY <2>3, <2>5 DEF PeerEof, PeerReset, ReadHeader, ReadData, ReadPing,
                        At, Reading
    <2>6. CASE ReadClose(c)
      <3>1. mem'[c] = "live" /\ worker'[WorkerOf[c]] = Busy("closeframe", c)
        BY <2>6, <2>a DEF ReadClose, Reading, Goto, TypeOK
      <3>. QED  BY <2>b, <3>1 DEF At, Step
    <2>7. CASE OnOpen(c)
      <3>1. mem'[c] = "live" /\ worker'[WorkerOf[c]] = Busy("opened", c)
        BY <2>7, <2>a, <2>c DEF OnOpen, Goto, TypeOK, Step
      <3>. QED  BY <2>b, <3>1 DEF At, Step
    <2>8. CASE StartReading(c) \/ OpenThrows(c)
      <3>1. /\ mem'[c] \in {"live", "unwound"}
            /\ worker'[WorkerOf[c]] = Idle
        BY <2>8, <2>a, <2>c DEF StartReading, OpenThrows, Done, TypeOK, Step
      <3>. QED  BY <2>b, <3>1 DEF At, Step
    <2>9. CASE ReadErrorHeader(c) \/ ReadErrorBody(c)
      <3>1. mem'[c] = "live" /\ close_connection'[c]
        BY <2>9 DEF ReadErrorHeader, ReadErrorBody, Reading, TypeOK
      <3>. QED  BY <3>1
    <2>10. CASE SendPosted(c)
      BY <2>3, <2>10 DEF SendPosted, At
    <2>11. CASE WriteOk(c) \/ OrphanWrite(c)
      BY <2>3, <2>11 DEF WriteOk, OrphanWrite, At
    <2>12. CASE WriteEnds(c)
      <3>1. close_connection'[c] /\ mem'[c] # "none"
        BY <2>12, <2>d DEF WriteEnds, TypeOK
      <3>. QED  BY <3>1
    <2>13. CASE OnCloseFrame(c)
      <3>1. close_connection'[c] /\ mem'[c] # "none"
        BY <2>13, <2>c, <2>d DEF OnCloseFrame, TypeOK, Step
      <3>. QED  BY <3>1
    <2>14. CASE OnError(c) \/ OnClose(c)
      <3>1. close_connection'[c] /\ mem'[c] # "none"
        BY <2>3, <2>14, <2>c, <2>d DEF OnError, OnClose, Step
      <3>. QED  BY <3>1
    <2>. QED
      BY <1>1, <2>4, <2>5, <2>6, <2>7, <2>8, <2>9, <2>10, <2>11, <2>12,
         <2>13, <2>14 DEF Network, Handler
  <1>2. ASSUME NEW d \in Conn, UdpSend(d)
        PROVE  FeedInv'
    <2>1. \A c \in Conn : mem[c] = "none" => c \notin todo
      BY DEF RegistryInv
    <2>2. \A c \in Conn : mem[c] = "none" => posted'[c] = posted[c]
      BY <1>2, <2>1 DEF UdpSend, TypeOK
    <2>. QED  BY <1>2, <2>2 DEF UdpSend, FeedInv, At
  <1>3. CASE UdpRecv
    BY <1>3, WsAssumption DEF UdpRecv, FeedInv, At, TypeOK, Packet
  <1>4. CASE UdpExit \/ UdpLock \/ UdpUnlock \/ ServerStop \/ RequestStop
               \/ UNCHANGED vars
    BY <1>4 DEF UdpExit, UdpLock, UdpUnlock, ServerStop, RequestStop, vars,
                FeedInv, At
  <1>. QED  BY <1>1, <1>2, <1>3, <1>4 DEF Next, UdpThread

-----------------------------------------------------------------------------
(* What the feed knows of a connection whose buffers hold the same frames. *)
LEMMA SameBuffers ==
  ASSUME NEW c \in Conn, UNCHANGED <<udp, json, todo, serverUp, crashed>>,
         Status(c)' = Status(c), mem'[c] = mem[c] \/ mem'[c] = "live",
         mem[c] # "unwound" \/ mem'[c] = mem[c],
         close_connection'[c] = close_connection[c],
         delivered'[c] = delivered[c], Waiting(c)' = Waiting(c)
  PROVE  SameInFeed(c)
  <1>1. Lost(c)' = Lost(c)
    BY DEF Lost, Stopped
  <1>. QED  BY <1>1 DEF SameInFeed, Owed, Received

(* The handshake and a pong are not packets.                               *)
LEMMA HelloPong == Hello \notin Packet /\ Pong \notin Packet
  BY DEF Hello, Pong, Packet

(* What is buffered for a connection are frames.                           *)
LEMMA BufferTypes ==
  ASSUME TypeOK, NEW c \in Conn
  PROVE  /\ sending_buffers[c] \in Seq(Frame)
         /\ write_buffers[c] \in Seq(Frame)
         /\ posted[c] \in Seq(Frame) /\ delivered[c] \in Seq(Frame)
         /\ sending_buffers[c] \o write_buffers[c] \in Seq(Frame)
         /\ Waiting(c) \in Seq(Packet) /\ Received(c) \in Seq(Packet)
  BY ConcatProperties, PacketsType DEF TypeOK, Waiting, Received

(* A frame is posted.                                                      *)
LEMMA WaitingPosted ==
  ASSUME TypeOK, NEW c \in Conn, NEW f \in Frame,
         UNCHANGED <<sending_buffers, write_buffers>>,
         posted'[c] = Append(posted[c], f)
  PROVE  Waiting(c)' = IF f \in Packet THEN Append(Waiting(c), f)
                       ELSE Waiting(c)
  <1>. DEFINE s == sending_buffers[c] \o write_buffers[c]
  <1>1. s \in Seq(Frame) /\ posted[c] \in Seq(Frame)
    BY BufferTypes
  <1>2. Waiting(c)' = Packets(s \o Append(posted[c], f))
    BY DEF Waiting
  <1>. HIDE DEF s
  <1>3. s \o Append(posted[c], f) = Append(s \o posted[c], f)
        /\ s \o posted[c] \in Seq(Frame)
    BY <1>1, AppendConcat, ConcatProperties
  <1>. QED  BY <1>2, <1>3, PacketsAppend DEF Waiting, s

(* The steps of the network and of the clients, as the feed sees them.     *)
LEMMA FeedNetwork ==
  ASSUME TypeOK, RegistryInv, WireInv, FeedInv, NEW c \in Conn, Network(c)
  PROVE  UNCHANGED Feed!feedVars
  <1> USE DEF udpVars, runVars, readVars, flagVars, bufVars
  <1>a. WorkerOf[c] \in Worker
    BY WsAssumption
  <1>b. /\ \A s, t \in Step : s # t => Busy(s, c) # Busy(t, c)
        /\ \A s \in Step : Busy(s, c) # Idle
    BY BusyTypes
  <1>0. UNCHANGED <<ws_clients, udp, json, todo, serverUp, crashed>>
    BY DEF Network, PeerEof, PeerReset, Upgrade, ReadHeader, ReadData,
           ReadPing, ReadClose
  <1>1. ASSUME NEW d \in Conn, d # c
        PROVE  SameInFeed(d)
    BY <1>0, <1>1, OthersInFeed
  <1>. SUFFICES SameInFeed(c)
    BY <1>0, <1>1, FeedStutter DEF Published
  <1>2. CASE Upgrade(c)
    <2>1. /\ mem[c] = "none" /\ mem'[c] = "live"
          /\ sending_buffers[c] = <<>> /\ sending_buffers'[c] = <<Hello>>
          /\ write_buffers[c] = <<>> /\ write_buffers'[c] = <<>>
          /\ posted[c] = <<>> /\ posted'[c] = <<>>
          /\ delivered'[c] = delivered[c]
          /\ close_connection'[c] = close_connection[c]
      BY <1>2 DEF Upgrade, WireInv, Opening, FeedInv, TypeOK
    <2>2. At("onopen", c)'
      BY <1>2, <1>a DEF Upgrade, Goto, At, TypeOK
    <2>3. Status(c)' = Status(c)
      BY <1>0, <2>1, <2>2 DEF Status
    <2>4. Waiting(c)' = Waiting(c)
      <3>1. <<>> \o <<>> \o <<>> = <<>> /\ <<Hello>> \o <<>> \o <<>> = <<Hello>>
        OBVIOUS
      <3>2. Packets(<<Hello>>) = <<>>
        <4>1. <<Hello>> = Append(<<>>, Hello) /\ <<>> \in Seq(Frame)
          OBVIOUS
        <4>. QED  BY <4>1, PacketsAppend, NoPackets, FrameTypes, HelloPong
      <3>. QED  BY <2>1, <3>1, <3>2, NoPackets DEF Waiting
    <2>. QED  BY <1>0, <2>1, <2>3, <2>4, SameBuffers
  <1>3. CASE ReadPing(c)
    <2>1. posted'[c] = Append(posted[c], Pong) /\ posted[c] \in Seq(Frame)
      BY <1>3 DEF ReadPing, TypeOK
    <2>2. Waiting(c)' = Waiting(c)
      BY <1>3, <2>1, WaitingPosted, FrameTypes, HelloPong DEF ReadPing
    <2>3. Status(c)' = Status(c)
      BY <1>3 DEF ReadPing, Status, At
    <2>. QED  BY <1>0, <1>3, <2>2, <2>3, SameBuffers DEF ReadPing
  <1>4. CASE PeerEof(c) \/ PeerReset(c) \/ ReadHeader(c) \/ ReadData(c)
               \/ ReadClose(c)
    <2>1. Status(c)' = Status(c)
      <3>1. CASE ReadClose(c)
        <4>1. ~At("onopen", c) /\ ~At("onopen", c)'
          BY <1>a, <1>b, <3>1
             DEF ReadClose, Reading, Ready, Goto, At, TypeOK, Step
        <4>. QED  BY <3>1, <4>1 DEF ReadClose, Status
      <3>. QED  BY <1>4, <3>1
                DEF PeerEof, PeerReset, ReadHeader, ReadData, Status, At
    <2>2. UNCHANGED <<mem, close_connection, posted, bufVars>>
      BY <1>4 DEF PeerEof, PeerReset, ReadHeader, ReadData, ReadClose
    <2>. QED  BY <1>0, <2>1, <2>2, SameBuffers DEF Waiting
  <1>. QED  BY <1>2, <1>3, <1>4 DEF Network

(* A sequence is its head followed by its tail.                            *)
LEMMA HeadTailConcat ==
  ASSUME NEW S, NEW s \in Seq(S), s # <<>>
  PROVE  s = <<Head(s)>> \o Tail(s)
  <1>1. Len(s) \in Nat \ {0}
    BY EmptySeq
  <1>2. SubSeq(s, 1, Len(s)) = <<s[1]>> \o SubSeq(s, 1 + 1, Len(s))
    BY <1>1, SubSeqRecursiveFirst
  <1>3. Tail(s) = SubSeq(s, 2, Len(s)) /\ SubSeq(s, 1, Len(s)) = s
    BY TailIsSubSeq, SubSeqFull
  <1>4. Head(s) = s[1] /\ 1 + 1 = 2
    OBVIOUS
  <1>. QED  BY <1>2, <1>3, <1>4

(* Frames that move from a buffer to the next.                             *)
LEMMA WaitingSent ==
  ASSUME TypeOK, NEW c \in Conn, posted[c] # <<>>,
         posted'[c] = Tail(posted[c]),
         DoWrite(c, Append(write_buffers[c], Head(posted[c])))
  PROVE  Waiting(c)' = Waiting(c)
  <1>. DEFINE s == sending_buffers[c]
              w == write_buffers[c]
              p == posted[c]
              h == Head(posted[c])
  <1>1. /\ s \in Seq(Frame) /\ w \in Seq(Frame) /\ p \in Seq(Frame)
        /\ s \o w \in Seq(Frame) /\ h \in Frame /\ Tail(p) \in Seq(Frame)
    BY BufferTypes, HeadTailProperties
  <1>2. \A u \in Seq(Frame) : Append(u, h) \o Tail(p) = u \o p
    <2>. SUFFICES ASSUME NEW u \in Seq(Frame)
                  PROVE  Append(u, h) \o Tail(p) = u \o p
      OBVIOUS
    <2>1. Append(u, h) = u \o <<h>> /\ <<h>> \in Seq(Frame)
      BY <1>1, AppendIsConcat
    <2>2. p = <<h>> \o Tail(p)
      BY <1>1, HeadTailConcat
    <2>. HIDE DEF p, h
    <2>3. (u \o <<h>>) \o Tail(p) = u \o (<<h>> \o Tail(p))
      BY <1>1, <2>1, ConcatAssociative
    <2>. QED  BY <2>1, <2>2, <2>3
  <1>3. CASE s = <<>>
    <2>1. sending_buffers'[c] = Append(w, h) /\ write_buffers'[c] = <<>>
      BY <1>3 DEF DoWrite, TypeOK
    <2>2. /\ Append(w, h) \o <<>> = Append(w, h)
          /\ <<>> \o w = w
      BY <1>1, AppendProperties, ConcatEmptySeq
    <2>. QED  BY <1>1, <1>2, <1>3, <2>1, <2>2 DEF Waiting
  <1>4. CASE s # <<>>
    <2>1. sending_buffers'[c] = s /\ write_buffers'[c] = Append(w, h)
      BY <1>4 DEF DoWrite, TypeOK
    <2>2. s \o Append(w, h) = Append(s \o w, h)
      <3>. HIDE DEF s, w, p, h
      <3>. QED  BY <1>1, AppendConcat
    <2>3. Append(s \o w, h) \o Tail(p) = (s \o w) \o p
      <3>. HIDE DEF s, w, p, h
      <3>. QED  BY <1>1, <1>2
    <2>. QED  BY <2>1, <2>2, <2>3 DEF Waiting
  <1>. QED  BY <1>3, <1>4

(* The steps of the workers, as the feed sees them.                        *)
LEMMA FeedHandler ==
  ASSUME TypeOK, RegistryInv, WireInv, FeedInv, NEW c \in Conn, Handler(c)
  PROVE  Feed!Next \/ UNCHANGED Feed!feedVars
  <1> USE DEF udpVars, runVars, readVars, flagVars, bufVars
  <1>a. WorkerOf[c] \in Worker
    BY WsAssumption
  <1>b. /\ \A s, t \in Step : s # t => Busy(s, c) # Busy(t, c)
        /\ \A s \in Step : Busy(s, c) # Idle
    BY BusyTypes
  <1>c. \A s \in Step : At(s, c) => mem[c] = "live"
    BY <1>a, BusyTypes DEF At, RegistryInv
  <1>d. UNCHANGED <<udp, json, todo, serverUp>>
    BY DEF Handler, OnOpen, StartReading, OpenThrows, ReadErrorHeader,
           ReadErrorBody, SendPosted, WriteOk, WriteEnds, OrphanWrite,
           OnCloseFrame, OnError, OnClose
  <1>e. Published' = Published
    BY <1>d DEF Published
  <1>f. crashed' = crashed => \A d \in Conn \ {c} : SameInFeed(d)
    BY OthersInFeed
  <1>g. ASSUME UNCHANGED ws_clients, mem[c] # "none", mem'[c] # "none",
               ~At("onopen", c), ~At("onopen", c)'
        PROVE  Status(c)' = Status(c)
    BY <1>g DEF Status
  <1>h. DestroyIfQuiet(c) => mem'[c] = mem[c] \/ mem'[c] = "deleted"
    BY DEF DestroyIfQuiet, TypeOK
  <1>i. worker'[WorkerOf[c]] = Idle => ~At("onopen", c)'
    BY <1>b DEF At, Step
  <1>j. Ready(c) => ~At("onopen", c)
    BY <1>b DEF At, Step, Ready
  <1>k. Done(c) => worker'[WorkerOf[c]] = Idle
    BY <1>a DEF Done, TypeOK
  <1>l. \A s \in Step \ {"onopen"} :
          (At(s, c) => ~At("onopen", c)) /\ (Goto(s, c) => ~At("onopen", c)')
    BY <1>a, <1>b DEF At, Step, Goto, TypeOK
  <1>1. CASE OnOpen(c)
    <2>1. crashed' = crashed /\ mem'[c] = mem[c]
      BY <1>1 DEF OnOpen
    <2>2. Status(c)' = "member"
      BY <1>1 DEF OnOpen, Status
    <2>3. Status(c) \in {"new", "member"}
      BY <1>1 DEF OnOpen, Status
    <2>4. /\ Lost(c)' = Lost(c) /\ Owed(c)' = Owed(c)
          /\ Received(c)' = Received(c)
      BY <1>1, <1>d DEF OnOpen, Lost, Stopped, Owed, Waiting, Received
    <2>5. CASE Status(c) = "new"
      BY <1>e, <1>f, <2>1, <2>2, <2>4, <2>5, FeedJoin
    <2>6. CASE Status(c) = "member"
      <3>1. SameInFeed(c)
        BY <2>2, <2>4, <2>6 DEF SameInFeed
      <3>. QED  BY <1>e, <1>f, <2>1, <3>1, FeedStutter
    <2>. QED  BY <2>3, <2>5, <2>6
  <1>2. CASE StartReading(c)
    <2>1. Status(c)' = Status(c)
      BY <1>2, <1>c, <1>g, <1>i, <1>k, <1>l DEF StartReading, Step
    <2>2. SameInFeed(c)
      BY <1>2, <1>d, <2>1, SameBuffers DEF StartReading, Waiting
    <2>. QED  BY <1>2, <1>e, <1>f, <2>2, FeedStutter DEF StartReading
  <1>3. CASE OpenThrows(c)
    <2>1. mem[c] = "live" /\ mem'[c] = "unwound"
      BY <1>3, <1>c DEF OpenThrows, TypeOK, Step
    <2>2. Status(c)' = Status(c)
      BY <1>3, <1>g, <1>i, <1>k, <1>l, <2>1 DEF OpenThrows, Step
    <2>3. Lost(c)' /\ Received(c)' = Received(c) /\ crashed' = crashed
      BY <1>3, <2>1 DEF OpenThrows, Lost, Received
    <2>. QED  BY <1>e, <1>f, <2>2, <2>3, FeedLoseOne
  <1>4. CASE ReadErrorHeader(c) \/ ReadErrorBody(c)
    <2>1. /\ close_connection'[c] /\ crashed' = crashed
          /\ delivered'[c] = delivered[c]
          /\ mem[c] = "live" /\ mem'[c] = "live"
      BY <1>4 DEF ReadErrorHeader, ReadErrorBody, Reading, TypeOK
    <2>2. ~At("onopen", c) /\ ~At("onopen", c)'
      <3>1. /\ Ready(c)
            /\ worker'[WorkerOf[c]] = Idle \/ Goto("onerror", c)
        BY <1>4 DEF ReadErrorHeader, ReadErrorBody, Reading, Ready
      <3>. QED  BY <1>i, <1>j, <1>l, <3>1 DEF Step
    <2>3. Status(c)' = Status(c)
      BY <1>4, <1>g, <2>1, <2>2 DEF ReadErrorHeader, ReadErrorBody
    <2>. QED  BY <1>e, <1>f, <2>1, <2>3, FeedLoseOne DEF Lost, Received
  <1>5. CASE SendPosted(c)
    <2>1. Status(c)' = Status(c)
      BY <1>5 DEF SendPosted, Status, At
    <2>2. CASE mem[c] = "live"
      <3>1. Waiting(c)' = Waiting(c)
        BY <1>5, <2>2, WaitingSent DEF SendPosted, TypeOK
      <3>2. SameInFeed(c)
        BY <1>5, <1>d, <2>1, <3>1, SameBuffers DEF SendPosted
      <3>. QED  BY <1>5, <1>e, <1>f, <3>2, FeedStutter DEF SendPosted
    <2>3. CASE mem[c] # "live"
      <3>1. Lost(c) /\ Lost(c)'
        BY <1>5, <2>3 DEF SendPosted, FeedInv, Lost, TypeOK
      <3>2. Received(c)' = Received(c) /\ crashed' = crashed
        BY <1>5 DEF SendPosted, Received
      <3>. QED  BY <1>e, <1>f, <2>1, <3>1, <3>2, FeedLoseOne
    <2>. QED  BY <2>2, <2>3
  <1>6. CASE WriteOk(c)
    <2>. DEFINE s == sending_buffers[c]
                w == write_buffers[c]
                p == posted[c]
                a == Packets(s)
                b == Packets(w \o p) \o (IF c \in todo THEN <<json>> ELSE <<>>)
    <2>1. /\ mem[c] = "live" /\ ~close_connection[c] /\ ~crashed /\ serverUp
          /\ delivered'[c] = delivered[c] \o s
          /\ sending_buffers'[c] = w /\ write_buffers'[c] = <<>>
          /\ UNCHANGED <<ws_clients, worker, mem, close_connection, posted,
                         crashed>>
      BY <1>6 DEF WriteOk, Ready, InService, TypeOK
    <2>2. /\ Status(c)' = Status(c) /\ ~Lost(c) /\ ~Lost(c)'
          /\ Lost(c)' = Lost(c)
      BY <1>d, <2>1 DEF Status, At, Lost, Stopped
    <2>3. /\ s \in Seq(Frame) /\ w \in Seq(Frame) /\ p \in Seq(Frame)
          /\ delivered[c] \in Seq(Frame) /\ w \o p \in Seq(Frame)
      BY BufferTypes, ConcatProperties
    <2>4. /\ (s \o w) \o p = s \o (w \o p)
          /\ (w \o <<>>) \o p = w \o p
      <3>. HIDE DEF s, w, p
      <3>1. w \o <<>> = w
        BY <2>3, ConcatEmptySeq
      <3>2. (s \o w) \o p = s \o (w \o p)
        BY <2>3, ConcatAssociative
      <3>. QED  BY <3>1, <3>2
    <2>5. Received(c)' = Received(c) \o a
      BY <2>1, <2>3, PacketsConcat DEF Received
    <2>6. Waiting(c)' = Packets(w \o p)
      BY <2>1, <2>4 DEF Waiting
    <2>7. Waiting(c) = a \o Packets(w \o p)
      BY <2>3, <2>4, PacketsConcat DEF Waiting
    <2>8. a \in Seq(Packet) /\ Packets(w \o p) \in Seq(Packet)
      BY <2>3, PacketsType
    <2>9. (IF c \in todo THEN <<json>> ELSE <<>>) \in Seq(Packet)
      <3>1. c \in todo => json \in Packet
        BY DEF RegistryInv, FeedInv, TypeOK
      <3>. QED  BY <3>1
    <2>10. Owed(c)' = b
      BY <1>d, <2>2, <2>6 DEF Owed
    <2>. HIDE DEF a
    <2>11. Owed(c) = a \o b /\ b \in Seq(Packet)
      BY <2>2, <2>7, <2>8, <2>9, ConcatAssociative, ConcatProperties
         DEF Owed
    <2>. HIDE DEF b
    <2>12. CASE a = <<>>
      <3>1. a \o b = b /\ Received(c) \o a = Received(c)
        BY <2>11, <2>12, BufferTypes, ConcatEmptySeq
      <3>2. SameInFeed(c)
        BY <2>2, <2>5, <2>10, <2>11, <3>1 DEF SameInFeed
      <3>. QED  BY <1>e, <1>f, <2>1, <3>2, FeedStutter
    <2>13. CASE a # <<>>
      BY <1>e, <1>f, <2>1, <2>2, <2>5, <2>8, <2>10, <2>11, <2>13,
         FeedDeliver
    <2>. QED  BY <2>12, <2>13
  <1>7. CASE WriteEnds(c)
    <2>1. /\ close_connection'[c] /\ crashed' = crashed
          /\ delivered'[c] = delivered[c]
          /\ mem[c] = "live" /\ mem'[c] # "none"
      BY <1>7, <1>h DEF WriteEnds, TypeOK
    <2>2. ~At("onopen", c) /\ ~At("onopen", c)'
      <3>1. /\ Ready(c)
            /\ worker'[WorkerOf[c]] = Idle \/ Goto("onclose", c)
        BY <1>7 DEF WriteEnds, Ready
      <3>. QED  BY <1>i, <1>j, <1>l, <3>1 DEF Step
    <2>3. Status(c)' = Status(c)
      BY <1>7, <1>g, <2>1, <2>2 DEF WriteEnds
    <2>. QED  BY <1>e, <1>f, <2>1, <2>3, FeedLoseOne DEF Lost, Received
  <1>8. CASE OrphanWrite(c)
    <2>1. \A d \in Conn : Status(d)' = Status(d) /\ Received(d)' = Received(d)
      BY <1>8 DEF OrphanWrite, Status, At, Received
    <2>2. CASE crashed'
      BY <1>e, <2>1, <2>2, FeedLoseAll DEF Stopped
    <2>3. CASE ~crashed'
      <3>1. crashed' = crashed /\ Lost(c)'
        BY <1>8, <2>3 DEF OrphanWrite, Ready, Lost, TypeOK
      <3>. QED  BY <1>e, <1>f, <2>1, <3>1, FeedLoseOne
    <2>. QED  BY <2>2, <2>3
  <1>9. CASE OnCloseFrame(c) \/ OnError(c) \/ OnClose(c)
    <2>1. /\ mem[c] = "live" /\ mem'[c] # "none"
          /\ ~At("onopen", c) /\ ~At("onopen", c)'
      BY <1>9, <1>c, <1>h, <1>i, <1>k, <1>l
         DEF OnCloseFrame, OnError, OnClose, Step
    <2>2. /\ ws_clients' = ws_clients \ {c} /\ crashed' = crashed
          /\ delivered'[c] = delivered[c]
      BY <1>9 DEF OnCloseFrame, OnError, OnClose, Erase
    <2>3. close_connection'[c]
      BY <1>9 DEF OnCloseFrame, OnError, OnClose, FeedInv, TypeOK
    <2>4. Status(c)' = "gone" /\ Status(c) \in {"member", "gone"}
      BY <2>1, <2>2 DEF Status
    <2>5. Lost(c)' /\ Received(c)' = Received(c)
      BY <2>2, <2>3 DEF Lost, Received
    <2>. QED  BY <1>e, <1>f, <2>2, <2>4, <2>5, FeedLeave, FeedLoseOne
  <1>. QED  BY <1>1, <1>2, <1>3, <1>4, <1>5, <1>6, <1>7, <1>8, <1>9
            DEF Handler

(* The UDP thread: it publishes when it takes the mutex.                   *)
LEMMA FeedProxy ==
  ASSUME TypeOK, RegistryInv, FeedInv,
         UdpRecv \/ UdpExit \/ UdpThread \/ ServerStop \/ RequestStop
  PROVE  Feed!Next \/ UNCHANGED Feed!feedVars
  <1> USE DEF udpVars, runVars, readVars, flagVars, bufVars
  <1>1. UNCHANGED <<ws_clients, worker, mem, close_connection, bufVars>>
    BY DEF UdpRecv, UdpExit, UdpThread, UdpLock, UdpUnlock, UdpSend,
           ServerStop, RequestStop
  <1>2. \A c \in Conn : Status(c)' = Status(c) /\ Received(c)' = Received(c)
    BY <1>1 DEF Status, At, Received
  <1>3. UNCHANGED serverUp /\ UNCHANGED crashed
          => \A c \in Conn : Lost(c)' = Lost(c)
    BY <1>1 DEF Lost, Stopped
  <1>4. UNCHANGED posted => \A c \in Conn : Waiting(c)' = Waiting(c)
    BY <1>1 DEF Waiting
  <1>5. CASE UdpRecv \/ UdpExit \/ UdpUnlock \/ RequestStop
    <2>1. Published' = Published
      BY <1>5 DEF UdpRecv, UdpExit, UdpUnlock, RequestStop, Published, TypeOK
    <2>2. \A c \in Conn : c \notin todo \/ UNCHANGED json
      BY <1>5 DEF UdpRecv, UdpExit, UdpUnlock, RequestStop, RegistryInv
    <2>3. UNCHANGED <<todo, serverUp, crashed, posted>>
      BY <1>5 DEF UdpRecv, UdpExit, UdpUnlock, RequestStop
    <2>4. \A c \in Conn : SameInFeed(c)
      BY <1>2, <1>3, <1>4, <2>2, <2>3 DEF SameInFeed, Owed
    <2>. QED  BY <2>1, <2>4, FeedStutter
  <1>6. CASE ServerStop
    BY <1>2, <1>6, FeedLoseAll DEF ServerStop, Published, Stopped
  <1>7. CASE UdpLock
    <2>1. /\ udp = "lock" /\ udp' = "broadcast" /\ todo = {}
          /\ todo' = ws_clients /\ json \in Packet
          /\ UNCHANGED <<json, serverUp, crashed, posted>>
      BY <1>7 DEF UdpLock, RegistryInv, FeedInv
    <2>2. Published < MaxPackets /\ Published' = Published + 1
          /\ Published' = json
      BY <2>1, WsAssumption DEF Published, Packet
    <2>3. ASSUME NEW c \in Conn
          PROVE  Owed(c)' = IF Status(c) = "member" /\ ~Lost(c)
                            THEN Append(Owed(c), json) ELSE Owed(c)
      <3>1. Waiting(c)' = Waiting(c) /\ Lost(c)' = Lost(c)
            /\ Waiting(c) \in Seq(Packet)
        BY <1>3, <1>4, <2>1, BufferTypes
      <3>2. Waiting(c) \o <<>> = Waiting(c)
        BY <3>1, ConcatEmptySeq
      <3>3. Waiting(c) \o <<json>> = Append(Waiting(c), json)
        BY <2>1, <3>1, AppendIsConcat
      <3>4. Status(c) = "member" <=> c \in ws_clients
        BY DEF Status
      <3>. QED  BY <2>1, <3>1, <3>2, <3>3, <3>4 DEF Owed
    <2>. QED  BY <1>2, <1>3, <2>1, <2>2, <2>3, FeedPublish
  <1>8. ASSUME NEW d \in Conn, UdpSend(d)
        PROVE  Feed!Next \/ UNCHANGED Feed!feedVars
    <2>1. Published' = Published
      BY <1>8 DEF UdpSend, Published
    <2>2. CASE crashed'
      BY <1>2, <2>1, <2>2, FeedLoseAll DEF Stopped
    <2>3. CASE ~crashed'
      <3>1. UNCHANGED <<crashed, serverUp, udp, json>> /\ d \in todo
            /\ todo' = todo \ {d} /\ json \in Packet
        BY <1>8, <2>3 DEF UdpSend, FeedInv, TypeOK
      <3>2. ASSUME NEW c \in Conn, c # d
            PROVE  SameInFeed(c)
        <4>1. posted'[c] = posted[c]
          BY <1>8, <3>2 DEF UdpSend, TypeOK
        <4>2. Waiting(c)' = Waiting(c)
          BY <1>1, <4>1 DEF Waiting
        <4>. QED  BY <1>2, <1>3, <3>1, <3>2, <4>2 DEF SameInFeed, Owed
      <3>3. SameInFeed(d)
        <4>1. CASE Lost(d)
          BY <1>2, <1>3, <3>1, <4>1 DEF SameInFeed, Owed
        <4>2. CASE ~Lost(d)
          <5>1. mem[d] = "live"
            BY <1>8, <4>2 DEF UdpSend, Lost, RegistryInv
          <5>2. posted'[d] = Append(posted[d], json) /\ json \in Frame
            BY <1>8, <5>1, <3>1 DEF UdpSend, TypeOK, Frame
          <5>3. Waiting(d)' = Append(Waiting(d), json)
            BY <1>1, <3>1, <5>2, WaitingPosted
          <5>4. /\ Waiting(d) \in Seq(Packet)
                /\ Append(Waiting(d), json) \in Seq(Packet)
            BY <3>1, BufferTypes, AppendProperties
          <5>5. /\ Append(Waiting(d), json) \o <<>>
                     = Append(Waiting(d), json)
                /\ Waiting(d) \o <<json>> = Append(Waiting(d), json)
            BY <3>1, <5>4, ConcatEmptySeq, AppendIsConcat
          <5>. QED  BY <1>2, <1>3, <3>1, <4>2, <5>3, <5>5
                    DEF SameInFeed, Owed
        <4>. QED  BY <4>1, <4>2
      <3>. QED  BY <2>1, <3>2, <3>3, FeedStutter
    <2>. QED  BY <2>2, <2>3
  <1>. QED  BY <1>5, <1>6, <1>7, <1>8 DEF UdpThread

(* The initial states map to the feed's.                                   *)
LEMMA FeedInit == Init => Feed!Init
  <1>. SUFFICES ASSUME Init
                PROVE  Feed!Init
    OBVIOUS
  <1>1. Published = 0
    BY DEF Init, Published
  <1>2. ASSUME NEW c \in Conn
        PROVE  /\ Status(c) = "new" /\ Lost(c) = FALSE /\ Owed(c) = <<>>
               /\ Received(c) = <<>>
    <2>1. Status(c) = "new"
      BY DEF Init, Status
    <2>2. Lost(c) = FALSE
      BY DEF Init, Lost, Stopped
    <2>3. Received(c) = <<>>
      BY NoPackets DEF Init, Received
    <2>4. <<>> \o <<>> \o <<>> = <<>> /\ <<>> \o <<>> = <<>>
      OBVIOUS
    <2>5. Waiting(c) = <<>>
      BY <2>4, NoPackets DEF Init, Waiting
    <2>. QED  BY <2>1, <2>2, <2>3, <2>4, <2>5 DEF Init, Owed
  <1>. QED  BY <1>1, <1>2 DEF Feed!Init

(* Every step of the proxy is a step of the feed or none.                  *)
LEMMA FeedNext ==
  TypeOK /\ RegistryInv /\ WireInv /\ FeedInv /\ [Next]_vars
    => [Feed!Next]_(Feed!feedVars)
  <1>. SUFFICES ASSUME TypeOK, RegistryInv, WireInv, FeedInv, [Next]_vars
                PROVE  Feed!Next \/ UNCHANGED Feed!feedVars
    OBVIOUS
  <1>1. ASSUME NEW c \in Conn, Network(c) \/ Handler(c)
        PROVE  Feed!Next \/ UNCHANGED Feed!feedVars
    BY <1>1, FeedNetwork, FeedHandler
  <1>2. CASE UdpRecv \/ UdpExit \/ UdpThread \/ ServerStop \/ RequestStop
    BY <1>2, FeedProxy
  <1>3. CASE UNCHANGED vars
    <2>1. Published' = Published /\ \A c \in Conn : SameInFeed(c)
      BY <1>3 DEF vars, udpVars, runVars, flagVars, bufVars, Published,
                  SameInFeed, Status, At, Lost, Stopped, Owed, Waiting,
                  Received
    <2>. QED  BY <2>1, FeedStutter
  <1>. QED  BY <1>1, <1>2, <1>3 DEF Next

(* What the refinement needs beside the invariants of the registry and of   *)
(* the wire: only a packet is broadcast, nothing is posted to a connection  *)
(* that is not open yet, and a connection is freed, or waits to be closed,  *)
(* only after close_connection_ was set.                                    *)
THEOREM FeedInvCorrect == Spec => []FeedInv
  BY TypeCorrect, RegistryCorrect, FeedInvInit, FeedInvNext, PTL DEF Spec

(* A proxy is a feed of numbered packets: what udp_loop, the workers'       *)
(* handlers and the failures of peers, reads and writes do in steps is, for *)
(* the clients, the atomic publishing of a packet to all members, the       *)
(* delivery of what a client is owed from the front, and the loss of a      *)
(* client (proxybase.cpp with crow::websocket::Connection).                 *)
THEOREM ProxyImplementsFeed == Spec => ImplementsFeed
  BY TypeCorrect, RegistryCorrect, WireCorrect, FeedInvCorrect, FeedInit,
     FeedNext, PTL DEF Spec, ImplementsFeed, Feed!Spec

-----------------------------------------------------------------------------
(* What a client of the feed is served.                                    *)
Served(c) == Received(c) \o Owed(c)

Consecutive(s) == \A i \in 1 .. (Len(s) - 1) : s[i + 1] = s[i] + 1

(* What a step of the feed may do to one client.                           *)
SameServed(c) == Published' = Published /\ SameInFeed(c)

JoinServed(c) ==
  /\ Published' = Published
  /\ Status(c) = "new" /\ Status(c)' = "member"
  /\ Lost(c)' = Lost(c) /\ Owed(c)' = Owed(c) /\ Received(c)' = Received(c)

PublishServed(c) ==
  /\ Published' = Published + 1
  /\ Status(c)' = Status(c) /\ Lost(c)' = Lost(c)
  /\ Received(c)' = Received(c)
  /\ Owed(c)' = IF Status(c) = "member" /\ ~Lost(c)
                THEN Append(Owed(c), Published') ELSE Owed(c)

DeliverServed(c) ==
  /\ Published' = Published
  /\ ~Lost(c) /\ Lost(c)' = Lost(c) /\ Status(c)' = Status(c)
  /\ \E k \in 1 .. Len(Owed(c)) :
       /\ Received(c)' = Received(c) \o SubSeq(Owed(c), 1, k)
       /\ Owed(c)' = SubSeq(Owed(c), k + 1, Len(Owed(c)))

LoseServed(c) ==
  /\ Published' = Published
  /\ Lost(c)' /\ Owed(c)' = <<>> /\ Received(c)' = Received(c)
  /\ \/ Status(c)' = Status(c)
     \/ Status(c) = "member" /\ Status(c)' = "gone"

(* What a step of the feed does to the run of numbers of a client.         *)
LEMMA ServedStep ==
  ASSUME TypeOK, [Feed!Next]_(Feed!feedVars), NEW c \in Conn
  PROVE  \/ SameServed(c) \/ JoinServed(c) \/ PublishServed(c)
         \/ DeliverServed(c) \/ LoseServed(c)
  <1>. USE LostBoolean
  <1>1. CASE UNCHANGED Feed!feedVars
    <2>1. SameServed(c)
      BY <1>1 DEF Feed!feedVars, SameServed, SameInFeed
    <2>. QED  BY <2>1
  <1>2. CASE Feed!Publish
    <2>1. PublishServed(c)
      BY <1>2 DEF Feed!Publish, PublishServed
    <2>. QED  BY <2>1
  <1>3. ASSUME NEW d \in Conn, Feed!Join(d)
        PROVE  SameServed(c) \/ JoinServed(c)
    BY <1>3 DEF Feed!Join, SameServed, SameInFeed, JoinServed
  <1>4. ASSUME NEW d \in Conn, Feed!Deliver(d)
        PROVE  SameServed(c) \/ DeliverServed(c)
    BY <1>4 DEF Feed!Deliver, SameServed, SameInFeed, DeliverServed
  <1>5. ASSUME NEW d \in Conn, Feed!Leave(d)
        PROVE  SameServed(c) \/ LoseServed(c)
    BY <1>5 DEF Feed!Leave, Feed!Abandon, SameServed, SameInFeed,
                LoseServed
  <1>6. ASSUME NEW S \in SUBSET Conn, Feed!Lose(S)
        PROVE  SameServed(c) \/ LoseServed(c)
    BY <1>6 DEF Feed!Lose, Feed!Abandon, SameServed, SameInFeed,
                LoseServed
  <1>. QED  BY <1>1, <1>2, <1>3, <1>4, <1>5, <1>6 DEF Feed!Next

(* The inductive invariant: nothing is served before onopen, nothing is    *)
(* owed to a client that is lost, and whoever is gone is lost.             *)
ServedInv ==
  \A c \in Conn :
    /\ Status(c) = "new" => Served(c) = <<>>
    /\ Status(c) = "gone" => Lost(c)
    /\ Lost(c) => Owed(c) = <<>>
    /\ Consecutive(Served(c))
    /\ Status(c) = "member" /\ ~Lost(c) /\ Served(c) # <<>> =>
         Served(c)[Len(Served(c))] = Published

ServedTypes == Published \in Int /\ \A c \in Conn :
                 Received(c) \in Seq(Packet) /\ Owed(c) \in Seq(Packet)

(* The types of the feed's variables.                                      *)
LEMMA FeedTypes == TypeOK /\ RegistryInv /\ FeedInv => ServedTypes
  <1>. SUFFICES ASSUME TypeOK, RegistryInv, FeedInv
                PROVE  ServedTypes
    OBVIOUS
  <1>1. Published \in Int
    BY DEF TypeOK, Published
  <1>2. ASSUME NEW c \in Conn
        PROVE  Received(c) \in Seq(Packet) /\ Owed(c) \in Seq(Packet)
    <2>1. c \in todo => json \in Packet
      BY DEF RegistryInv, FeedInv, TypeOK
    <2>2. (IF c \in todo THEN <<json>> ELSE <<>>) \in Seq(Packet)
      BY <2>1
    <2>3. /\ Received(c) \in Seq(Packet) /\ Waiting(c) \in Seq(Packet)
          /\ <<>> \in Seq(Packet)
      BY BufferTypes
    <2>. QED  BY <2>2, <2>3, ConcatProperties DEF Owed
  <1>. QED  BY <1>1, <1>2 DEF ServedTypes

(* A run of consecutive numbers goes on with the next one.                 *)
LEMMA ConsecutiveAppend ==
  ASSUME NEW s \in Seq(Packet), NEW n \in Packet, Consecutive(s),
         s # <<>> => n = s[Len(s)] + 1
  PROVE  /\ Consecutive(Append(s, n))
         /\ Append(s, n)[Len(Append(s, n))] = n
  <1>1. /\ Len(Append(s, n)) = Len(s) + 1 /\ Len(s) \in Nat
        /\ \A i \in 1 .. Len(s) : Append(s, n)[i] = s[i]
        /\ Append(s, n)[Len(s) + 1] = n
        /\ Len(s) > 0 => s # <<>>
    BY AppendProperties, LenProperties, EmptySeq
  <1>. QED  BY <1>1 DEF Consecutive

(* A sequence is what it begins with followed by the rest.                 *)
LEMMA SplitAnywhere ==
  ASSUME NEW r \in Seq(Packet), NEW o \in Seq(Packet), NEW k \in 1 .. Len(o)
  PROVE  (r \o SubSeq(o, 1, k)) \o SubSeq(o, k + 1, Len(o)) = r \o o
  <1>1. Len(o) \in Nat /\ \A i \in 1 .. Len(o) : o[i] \in Packet
    BY LenProperties, ElementOfSeq
  <1>2. /\ SubSeq(o, 1, k) \in Seq(Packet)
        /\ SubSeq(o, k + 1, Len(o)) \in Seq(Packet)
    BY <1>1, SubSeqProperties
  <1>3. SubSeq(o, 1, k) \o SubSeq(o, k + 1, Len(o)) = SubSeq(o, 1, Len(o))
    BY <1>1, ConcatAdjacentSubSeq
  <1>4. SubSeq(o, 1, Len(o)) = o
    BY SubSeqFull
  <1>. DEFINE a == SubSeq(o, 1, k)
              b == SubSeq(o, k + 1, Len(o))
  <1>5. (r \o a) \o b = r \o (a \o b)
    <2>1. a \in Seq(Packet) /\ b \in Seq(Packet)
      BY <1>2
    <2>. HIDE DEF a, b
    <2>. QED  BY <2>1, ConcatAssociative, SMTT(40)
  <1>. QED  BY <1>3, <1>4, <1>5

(* The beginning of a run of consecutive numbers is one.                   *)
LEMMA ConsecutivePrefix ==
  ASSUME NEW r \in Seq(Packet), NEW o \in Seq(Packet), Consecutive(r \o o)
  PROVE  Consecutive(r \o <<>>)
  <1>1. /\ r \o <<>> = r /\ Len(r) \in Nat /\ Len(o) \in Nat
        /\ Len(r \o o) = Len(r) + Len(o)
        /\ \A i \in 1 .. Len(r) : (r \o o)[i] = r[i]
    BY ConcatEmptySeq, ConcatProperties, LenProperties
  <1>. QED  BY <1>1 DEF Consecutive

(* No client has been served with a gap at the start.                      *)
LEMMA ServedInvInit == TypeOK /\ Feed!Init => ServedInv
  <1>. SUFFICES ASSUME TypeOK, Feed!Init, NEW c \in Conn
                PROVE  /\ Status(c) = "new" /\ Served(c) = <<>>
                       /\ Lost(c) = FALSE /\ Owed(c) = <<>>
                       /\ Consecutive(<<>>)
    BY DEF ServedInv
  <1>1. /\ Status(c) = "new" /\ Lost(c) = FALSE
        /\ Owed(c) = <<>> /\ Received(c) = <<>>
    BY DEF Feed!Init
  <1>2. <<>> \o <<>> = <<>> /\ Len(<<>>) = 0
    OBVIOUS
  <1>. QED  BY <1>1, <1>2 DEF Served, Consecutive

(* No step of the feed makes one.                                          *)
LEMMA ServedInvNext ==
  TypeOK /\ ServedTypes /\ ServedTypes' /\ ServedInv
    /\ [Feed!Next]_(Feed!feedVars) => ServedInv'
  <1>. SUFFICES ASSUME TypeOK, ServedTypes, ServedTypes', ServedInv,
                       [Feed!Next]_(Feed!feedVars), NEW c \in Conn
                PROVE  /\ Status(c)' = "new" => Served(c)' = <<>>
                       /\ Status(c)' = "gone" => Lost(c)'
                       /\ Lost(c)' => Owed(c)' = <<>>
                       /\ Consecutive(Served(c)')
                       /\ Status(c)' = "member" /\ ~Lost(c)'
                            /\ Served(c)' # <<>> =>
                            Served(c)'[Len(Served(c)')] = Published'
    BY DEF ServedInv, Consecutive
  <1>1. /\ Status(c) = "new" => Served(c) = <<>>
        /\ Status(c) = "gone" => Lost(c)
        /\ Lost(c) => Owed(c) = <<>>
        /\ Consecutive(Served(c))
        /\ Status(c) = "member" /\ ~Lost(c) /\ Served(c) # <<>> =>
             Served(c)[Len(Served(c))] = Published
    BY DEF ServedInv
  <1>2. /\ Received(c) \in Seq(Packet) /\ Owed(c) \in Seq(Packet)
        /\ Received(c)' \in Seq(Packet) /\ Owed(c)' \in Seq(Packet)
        /\ Published \in Int
    BY DEF ServedTypes
  <1>3. CASE SameServed(c) \/ JoinServed(c)
    BY <1>1, <1>3 DEF SameServed, SameInFeed, JoinServed, Served
  <1>4. CASE PublishServed(c)
    <2>1. CASE Status(c) = "member" /\ ~Lost(c)
      <3>1. Owed(c)' = Append(Owed(c), Published')
        BY <1>4, <2>1 DEF PublishServed
      <3>2. Published' \in Packet
        <4>1. Len(Append(Owed(c), Published')) = Len(Owed(c)) + 1
              /\ Append(Owed(c), Published')[Len(Owed(c)) + 1] = Published'
          BY <1>2
        <4>. QED  BY <1>2, <3>1, <4>1, ElementOfSeq, LenProperties
      <3>3. Served(c)' = Append(Served(c), Published')
        BY <1>2, <1>4, <3>1, <3>2, AppendConcat
           DEF PublishServed, Served
      <3>4. Served(c) \in Seq(Packet)
        BY <1>2, ConcatProperties DEF Served
      <3>5. Served(c) # <<>> => Published' = Served(c)[Len(Served(c))] + 1
        BY <1>1, <1>4, <2>1 DEF PublishServed
      <3>. QED  BY <1>1, <1>4, <2>1, <3>2, <3>3, <3>4, <3>5,
                   ConsecutiveAppend DEF PublishServed
    <2>2. CASE ~(Status(c) = "member" /\ ~Lost(c))
      BY <1>1, <1>4, <2>2 DEF PublishServed, Served
    <2>. QED  BY <2>1, <2>2
  <1>5. CASE DeliverServed(c)
    <2>1. Served(c)' = Served(c)
      BY <1>2, <1>5, SplitAnywhere DEF DeliverServed, Served
    <2>2. /\ Status(c)' = Status(c) /\ Lost(c)' = Lost(c) /\ ~Lost(c)
          /\ Published' = Published
      BY <1>5 DEF DeliverServed
    <2>. QED  BY <1>1, <2>1, <2>2
  <1>6. CASE LoseServed(c)
    <2>1. Served(c)' = Received(c) \o <<>>
      BY <1>6 DEF LoseServed, Served
    <2>2. Consecutive(Served(c)')
      BY <1>1, <1>2, <2>1, ConsecutivePrefix DEF Served
    <2>3. Status(c)' = "new" => Served(c)' = <<>>
      <3>. SUFFICES ASSUME Status(c)' = "new"
                    PROVE  Received(c) \o <<>> = <<>>
        BY <2>1
      <3>1. Received(c) \o Owed(c) = <<>>
        BY <1>1, <1>6 DEF LoseServed, Served
      <3>. QED  BY <1>2, <3>1, ConcatEqualIffEmpty, ConcatEmptySeq
    <2>. QED  BY <1>6, <2>2, <2>3 DEF LoseServed
  <1>. QED  BY <1>3, <1>4, <1>5, <1>6, ServedStep

(* Every member of the registry that stays connected is sent every panel   *)
(* state from the first that was published after onopen, once and in       *)
(* order: the numbers it has received, and those on their way to it, are   *)
(* consecutive and end with the last one published (udp_loop, send_text,   *)
(* do_write).                                                              *)
THEOREM NoClientMissesAPacket == Spec => []Feed!NoGaps
  <1>1. Spec => []ServedInv
    BY TypeCorrect, RegistryCorrect, WireCorrect, FeedInvCorrect, FeedInit,
       FeedNext, FeedTypes, ServedInvInit, ServedInvNext, PTL DEF Spec
  <1>2. ServedInv => Feed!NoGaps
    BY DEF ServedInv, Served, Consecutive, Feed!NoGaps, Feed!Run
  <1>. QED  BY <1>1, <1>2, PTL
=============================================================================
