---------------------------- MODULE KprobeProofs ----------------------------
(***************************************************************************)
(* Proofs about KprobePanel, for any set of clients and other tasks and    *)
(* any number of registers and captures: the types, that the mutex keeps   *)
(* the registers of a capture together on their way from the probe to a    *)
(* datagram, and that the module's code is left before its memory goes.    *)
(***************************************************************************)
EXTENDS KprobePanel, TLAPS

Places == {"start", "socket", "open", "lock", "format", "unlock", "send",
           "delay", "gone"}

ClientRecords ==
  [at : Places, word : Words, data : BOOLEAN, regs : [Words -> Nat],
   sent : Nat]

HandlerRecords ==
  [task : Task \union {None}, word : Words, slept : BOOLEAN,
   at : {"out", "lock", "capture", "valid"}]

-----------------------------------------------------------------------------
(* What the handler has written is all of its own capture, and nothing is  *)
(* written unless it holds the mutex.                                      *)
ProbeInv ==
  /\ handler.at = "out" <=> handler.task = None
  /\ handler.at \in {"out", "lock"} => handler.word = 1
  /\ handler.at \in {"capture", "valid"} => mutex = "probe" /\ count > 0
  /\ \A w \in Words :
       handler.at # "capture" \/ w < handler.word => captured[w] = count
  /\ regs_valid => count > 0
  /\ module # "loaded" => handler.task = None \/ handler.slept

(* What a client has copied is the last capture for as long as it holds    *)
(* the mutex, and one capture afterwards.                                  *)
Consistent(r) ==
  /\ r.at \in {"format", "unlock"} /\ r.data => count > 0
  /\ r.at = "format" =>
       r.data /\ \A w \in Words : w < r.word => r.regs[w] = count
  /\ r.at = "unlock" /\ r.data => \A w \in Words : r.regs[w] = count
  /\ r.at = "send" =>
       /\ \A w \in Words : r.regs[w] = r.regs[1]
       /\ r.regs[1] > 0 /\ r.regs[1] >= r.sent /\ r.regs[1] =< count
  /\ r.sent =< count

Holds(c) == client[c].at \in {"format", "unlock"} => mutex = c

ClientInv ==
  \A c \in Client :
    /\ Holds(c)
    /\ Consistent(client[c])
    /\ module = "gone" => ~InProcRead(c)

KprobeInv == ProbeInv /\ ClientInv

-----------------------------------------------------------------------------
LEMMA FirstWord == 1 \in Words /\ NWords \in Words
BY KprobeAssumption DEF Words

(* Types and invariant hold at the start.                                  *)
LEMMA KprobeInit == Init => TypeOK /\ KprobeInv
<1> SUFFICES ASSUME Init PROVE TypeOK /\ KprobeInv
  OBVIOUS
<1>1. TypeOK
  BY FirstWord DEF Init, TypeOK, Idle
<1>2. ProbeInv
  BY FirstWord DEF Init, ProbeInv, Idle
<1>3. ClientInv
  BY DEF Init, ClientInv, Holds, Consistent, InProcRead
<1> QED BY <1>1, <1>2, <1>3 DEF KprobeInv

(* A client is given another record, and nothing of the kernel changes     *)
(* but the mutex, which it takes or lets go.                               *)
LEMMA OneClient ==
  ASSUME TypeOK, KprobeInv, NEW c \in Client, NEW r \in ClientRecords,
         client' = [client EXCEPT ![c] = r],
         UNCHANGED <<module, captured, regs_valid, handler, count>>,
         \/ mutex' = mutex
         \/ mutex = None /\ mutex' = c
         \/ mutex = c /\ mutex' = None,
         r.at \in {"format", "unlock"} => mutex' = c,
         Consistent(r),
         module = "gone" => r.at \notin {"lock", "format", "unlock"}
  PROVE  TypeOK' /\ KprobeInv'
<1>1. TypeOK'
  BY DEF TypeOK, ClientRecords, Places
<1>2. ProbeInv'
  BY KprobeAssumption DEF KprobeInv, ProbeInv, TypeOK
<1>3. ASSUME NEW d \in Client
      PROVE  /\ Holds(d)' /\ Consistent(client[d])'
             /\ module' = "gone" => ~InProcRead(d)'
  <2>1. CASE d = c
    <3>1. client'[d] = r
      BY <2>1 DEF TypeOK
    <3>2. Consistent(r)'
      BY DEF Consistent
    <3> QED BY <2>1, <3>1, <3>2 DEF Holds, InProcRead, Consistent
  <2>2. CASE d # c
    <3>1. client'[d] = client[d]
      BY <2>2 DEF TypeOK
    <3>2. Consistent(client[d]) /\ Holds(d)
          /\ (module = "gone" => ~InProcRead(d))
      BY DEF KprobeInv, ClientInv
    <3>3. Holds(d)'
      BY <2>2, <3>1, <3>2, KprobeAssumption DEF Holds
    <3>4. Consistent(client[d])'
      BY <3>1, <3>2 DEF Consistent
    <3> QED BY <3>1, <3>2, <3>3, <3>4 DEF InProcRead
  <2> QED BY <2>1, <2>2
<1> QED BY <1>1, <1>2, <1>3 DEF KprobeInv, ClientInv

(* The module is loaded and unloaded.                                      *)
LEMMA ModuleSteps ==
  ASSUME TypeOK, KprobeInv, proc_create \/ register_kprobe \/ my_kprobe_exit
  PROVE  TypeOK' /\ KprobeInv'
<1> USE DEF proc_create, register_kprobe, my_kprobe_exit, unregister_kprobe,
            proc_remove
<1>1. UNCHANGED <<mutex, captured, regs_valid, handler, client, count>>
  OBVIOUS
<1>2. TypeOK'
  BY <1>1 DEF TypeOK
<1>3. ProbeInv'
  BY <1>1 DEF KprobeInv, ProbeInv
<1>4. ASSUME NEW c \in Client
      PROVE  /\ Holds(c)' /\ Consistent(client[c])'
             /\ module' = "gone" => ~InProcRead(c)'
  <2>1. Holds(c)' /\ Consistent(client[c])'
    BY <1>1 DEF KprobeInv, ClientInv, Holds, Consistent
  <2>2. module' = "gone" => ~InProcRead(c)
    BY DEF KprobeInv, ClientInv
  <2> QED BY <1>1, <2>1, <2>2 DEF InProcRead
<1> QED BY <1>2, <1>3, <1>4 DEF KprobeInv, ClientInv

(* The probe is hit, and its handler waits, captures and is done.          *)
LEMMA ProbeSteps ==
  ASSUME TypeOK, KprobeInv, (\E t \in Task : schedule(t)) \/ Probe
  PROVE  TypeOK' /\ KprobeInv'
<1> USE DEF Idle
<1>0. UNCHANGED <<module, client>>
  BY DEF schedule, Probe, handler_lock, handler_capture, handler_valid
<1>1. CASE \E t \in Task : schedule(t)
  <2>2. PICK t \in Task : schedule(t)
    BY <1>1
  <2>1. TypeOK'
    <3>1. handler' = [task |-> t, word |-> 1, at |-> "lock",
                      slept |-> FALSE]
      BY <2>2 DEF schedule
    <3>2. handler' \in HandlerRecords
      BY <3>1, FirstWord DEF HandlerRecords
    <3>3. UNCHANGED <<module, mutex, captured, regs_valid, client, count>>
      BY <2>2 DEF schedule
    <3> QED BY <3>2, <3>3 DEF TypeOK, HandlerRecords
  <2>4. /\ handler'.task = t /\ t # None
        /\ handler'.at = "lock" /\ handler'.word = 1
        /\ handler.at = "out" /\ module' = "loaded"
        /\ UNCHANGED <<captured, regs_valid, count>>
    BY <2>2, KprobeAssumption DEF schedule, Task, KprobeInv, ProbeInv
  <2>5. ProbeInv'
    BY <2>4 DEF KprobeInv, ProbeInv
  <2>3. ClientInv'
    BY <1>0, <1>1 DEF schedule, KprobeInv, ClientInv, Holds, Consistent,
                      InProcRead
  <2> QED BY <2>1, <2>3, <2>5 DEF KprobeInv
<1>2. CASE handler_lock
  <2>1. TypeOK'
    <3>1. handler' \in HandlerRecords
      BY <1>2 DEF handler_lock, TypeOK, HandlerRecords
    <3>2. mutex' \in Client \union {"probe", None} /\ count' \in Nat
      BY <1>2 DEF handler_lock, TypeOK
    <3> QED BY <1>2, <3>1, <3>2 DEF handler_lock, TypeOK, HandlerRecords
  <2>2. ProbeInv'
    <3>1. CASE mutex = None
      BY <1>2, <3>1 DEF handler_lock, KprobeInv, ProbeInv, TypeOK, Words
    <3>2. CASE mutex # None
      BY <1>2, <3>2 DEF handler_lock, KprobeInv, ProbeInv, TypeOK
    <3> QED BY <3>1, <3>2
  <2>3. ASSUME NEW c \in Client
        PROVE  Holds(c)' /\ Consistent(client[c])'
    <3>1. CASE mutex = None
      <4>1. client[c].at \notin {"format", "unlock"}
        BY <3>1, KprobeAssumption DEF KprobeInv, ClientInv, Holds
      <4> QED BY <1>0, <1>2, <3>1, <4>1
              DEF handler_lock, KprobeInv, ClientInv, Holds, Consistent,
                  TypeOK
    <3>2. CASE mutex # None
      BY <1>0, <1>2, <3>2 DEF handler_lock, KprobeInv, ClientInv, Holds,
                              Consistent
    <3> QED BY <3>1, <3>2
  <2> QED BY <1>0, <2>1, <2>2, <2>3 DEF KprobeInv, ClientInv, InProcRead
<1>3. CASE handler_capture
  <2>1. TypeOK'
    <3>1. handler' \in HandlerRecords
      <4>1. handler \in HandlerRecords
        BY DEF TypeOK, HandlerRecords
      <4>2. handler.word # NWords => handler.word + 1 \in Words
        BY <4>1, KprobeAssumption DEF HandlerRecords, Words
      <4>3. handler' = [handler EXCEPT !.at = "valid"]
            \/ /\ handler.word + 1 \in Words
               /\ handler' = [handler EXCEPT !.word = handler.word + 1]
        BY <1>3, <4>2 DEF handler_capture
      <4> QED BY <4>1, <4>3 DEF HandlerRecords
    <3>2. captured' \in [Words -> Nat]
      BY <1>3 DEF handler_capture, TypeOK
    <3> QED BY <1>3, <3>1, <3>2 DEF handler_capture, TypeOK, HandlerRecords
  <2>2. ProbeInv'
    BY <1>3 DEF handler_capture, KprobeInv, ProbeInv, TypeOK, Words
  <2>3. ClientInv'
    BY <1>0, <1>3 DEF handler_capture, KprobeInv, ClientInv, Holds,
                      Consistent, InProcRead
  <2> QED BY <2>1, <2>2, <2>3 DEF KprobeInv
<1>4. CASE handler_valid
  <2>1. TypeOK'
    BY <1>4, FirstWord DEF handler_valid, TypeOK
  <2>2. ProbeInv'
    BY <1>4, KprobeAssumption DEF handler_valid, KprobeInv, ProbeInv, TypeOK
  <2>3. ASSUME NEW c \in Client
        PROVE  Holds(c)' /\ Consistent(client[c])'
    <3>1. client[c].at \notin {"format", "unlock"}
      BY <1>4, KprobeAssumption
      DEF handler_valid, KprobeInv, ProbeInv, ClientInv, Holds
    <3> QED BY <1>0, <1>4, <3>1
            DEF handler_valid, KprobeInv, ClientInv, Holds, Consistent
  <2> QED BY <1>0, <2>1, <2>2, <2>3 DEF KprobeInv, ClientInv, InProcRead
<1> QED BY <1>1, <1>2, <1>3, <1>4 DEF Probe

(* The clients.                                                            *)
LEMMA ClientSteps ==
  ASSUME TypeOK, KprobeInv, NEW c \in Client, main(c) \/ Step(c)
  PROVE  TypeOK' /\ KprobeInv'
<1> USE DEF Runs, Move
<1>0. /\ client[c] \in ClientRecords /\ Consistent(client[c]) /\ Holds(c)
      /\ count \in Nat /\ captured \in [Words -> Nat]
      /\ module = "gone" => ~InProcRead(c)
  BY DEF TypeOK, ClientRecords, Places, KprobeInv, ClientInv
<1>1. ASSUME NEW to \in Places \ {"lock", "format", "unlock", "send"},
             client' = [client EXCEPT ![c].at = to],
             UNCHANGED <<module, mutex, captured, regs_valid, handler, count>>
      PROVE  TypeOK' /\ KprobeInv'
  <2> DEFINE r == [client[c] EXCEPT !.at = to]
  <2>1. r \in ClientRecords
    BY <1>0 DEF ClientRecords
  <2>2. client' = [client EXCEPT ![c] = r]
    BY <1>1 DEF TypeOK
  <2>3. Consistent(r)
    BY <1>0 DEF Consistent, ClientRecords, Places
  <2> QED BY <1>0, <1>1, <2>1, <2>2, <2>3, OneClient DEF ClientRecords
<1>2. CASE main(c) \/ create_udp_socket(c) \/ delay(c)
  BY <1>1, <1>2 DEF main, create_udp_socket, delay, Places
<1>3. CASE capture_cpu_state(c)
  <2>1. CASE module \in {"created", "loaded", "unprobed"}
    <3> DEFINE r == [client[c] EXCEPT !.at = "lock"]
    <3>1. r \in ClientRecords
      BY <1>0 DEF ClientRecords, Places
    <3>2. client' = [client EXCEPT ![c] = r]
      BY <1>3, <2>1 DEF capture_cpu_state, TypeOK
    <3>3. Consistent(r)
      BY <1>0 DEF Consistent, ClientRecords
    <3>4. r.at = "lock"
      BY <1>0 DEF ClientRecords
    <3>5. UNCHANGED <<module, mutex, captured, regs_valid, handler, count>>
      BY <1>3 DEF capture_cpu_state
    <3> HIDE DEF r
    <3> QED BY <2>1, <3>1, <3>2, <3>3, <3>4, <3>5, OneClient
  <2>2. CASE module \notin {"created", "loaded", "unprobed"}
    BY <1>1, <1>3, <2>2 DEF capture_cpu_state, Places
  <2> QED BY <2>1, <2>2
<1>4. CASE proc_read(c)
  <2> DEFINE r == [client[c] EXCEPT
                     !.at = IF regs_valid THEN "format" ELSE "unlock",
                     !.data = regs_valid, !.word = 1]
  <2>1. r \in ClientRecords
    BY <1>0, FirstWord DEF ClientRecords, TypeOK, Places
  <2>2. client' = [client EXCEPT ![c] = r]
    BY <1>4 DEF proc_read, TypeOK
  <2>3. Consistent(r)
    BY <1>0 DEF Consistent, ClientRecords, KprobeInv, ProbeInv, Words, TypeOK
  <2>4. module # "gone"
    BY <1>0, <1>4 DEF proc_read, InProcRead
  <2>5. /\ mutex = None /\ mutex' = c
        /\ UNCHANGED <<module, captured, regs_valid, handler, count>>
    BY <1>4 DEF proc_read
  <2> HIDE DEF r
  <2> QED BY <2>1, <2>2, <2>3, <2>4, <2>5, OneClient
<1>5. CASE proc_read_format(c)
  <2> DEFINE w == client[c].word
             last == w = NWords
             r == [client[c] EXCEPT
                     !.regs = [client[c].regs EXCEPT ![w] = captured[w]],
                     !.word = IF last THEN 1 ELSE w + 1,
                     !.at = IF last THEN "unlock" ELSE "format"]
  <2>0. /\ w \in Words /\ client[c].regs \in [Words -> Nat]
        /\ client[c].at = "format" /\ mutex = c
    BY <1>0, <1>5 DEF ClientRecords, proc_read_format, Holds
  <2>1. r \in ClientRecords
    <3>1. (IF last THEN 1 ELSE w + 1) \in Words
      BY <2>0, KprobeAssumption DEF Words
    <3>2. [client[c].regs EXCEPT ![w] = captured[w]] \in [Words -> Nat]
      BY <1>0, <2>0
    <3> QED BY <1>0, <3>1, <3>2 DEF ClientRecords, Places
  <2>2. client' = [client EXCEPT ![c] = r]
    BY <1>5 DEF proc_read_format, TypeOK
  <2>3. \A v \in Words : captured[v] = count
    BY <2>0, KprobeAssumption DEF KprobeInv, ProbeInv
  <2>4. Consistent(r)
    <3>1. \A v \in Words : v =< w => r.regs[v] = count
      <4>1. \A v \in Words : v < w => client[c].regs[v] = count
        BY <1>0, <2>0 DEF Consistent
      <4>2. \A v \in Words : v =< w => v < w \/ v = w
        BY <2>0 DEF Words
      <4>3. r.regs = [client[c].regs EXCEPT ![w] = captured[w]]
        BY <1>0 DEF ClientRecords
      <4> HIDE DEF r, w
      <4> QED BY <2>0, <2>3, <4>1, <4>2, <4>3
    <3>2. r.data /\ count > 0 /\ r.sent =< count
      BY <1>0, <2>0 DEF Consistent, ClientRecords
    <3>3. CASE last
      <4>1. r.at = "unlock"
        BY <1>0, <3>3 DEF ClientRecords
      <4>2. \A v \in Words : v =< w
        BY <3>3 DEF Words
      <4> HIDE DEF r, w
      <4> QED BY <3>1, <3>2, <4>1, <4>2 DEF Consistent
    <3>4. CASE ~last
      <4>1. r.at = "format" /\ r.word = w + 1
        BY <1>0, <3>4 DEF ClientRecords
      <4>2. \A v \in Words : v < w + 1 => v =< w
        BY <2>0 DEF Words
      <4> HIDE DEF r, w
      <4> QED BY <3>1, <3>2, <4>1, <4>2 DEF Consistent
    <3> QED BY <3>3, <3>4
  <2>5. module # "gone"
    BY <1>0, <2>0 DEF InProcRead
  <2>6. UNCHANGED <<module, mutex, captured, regs_valid, handler, count>>
    BY <1>5 DEF proc_read_format
  <2> HIDE DEF r
  <2> QED BY <2>0, <2>1, <2>2, <2>4, <2>5, <2>6, OneClient
<1>6. CASE proc_read_unlock(c)
  <2> DEFINE r == [client[c] EXCEPT
                     !.at = IF client[c].data THEN "send" ELSE "delay"]
  <2>1. r \in ClientRecords
    BY <1>0 DEF ClientRecords, Places
  <2>2. client' = [client EXCEPT ![c] = r]
    BY <1>6 DEF proc_read_unlock, TypeOK
  <2>3. client[c].at = "unlock" /\ mutex = c
    BY <1>0, <1>6 DEF proc_read_unlock, Holds
  <2>4. Consistent(r)
    BY <1>0, <2>3, FirstWord DEF Consistent, ClientRecords
  <2>5. r.at \in {"send", "delay"}
    BY <1>0 DEF ClientRecords
  <2>6. /\ UNCHANGED <<module, captured, regs_valid, handler, count>>
        /\ mutex' = None
    BY <1>6, <2>3 DEF proc_read_unlock
  <2> HIDE DEF r
  <2> QED BY <2>1, <2>2, <2>3, <2>4, <2>5, <2>6, OneClient
<1>7. CASE send(c)
  <2>1. CASE client' = [client EXCEPT ![c].at = "delay",
                                      ![c].sent = client[c].regs[1]]
    <3> DEFINE r == [client[c] EXCEPT !.at = "delay",
                                      !.sent = client[c].regs[1]]
    <3>1. r \in ClientRecords
      BY <1>0, FirstWord DEF ClientRecords, Places
    <3>2. client' = [client EXCEPT ![c] = r]
      BY <2>1 DEF TypeOK
    <3>3. Consistent(r)
      BY <1>0, <1>7 DEF send, Consistent, ClientRecords
    <3>4. r.at = "delay"
      BY <1>0 DEF ClientRecords
    <3>5. UNCHANGED <<module, mutex, captured, regs_valid, handler, count>>
      BY <1>7 DEF send
    <3> HIDE DEF r
    <3> QED BY <3>1, <3>2, <3>3, <3>4, <3>5, OneClient
  <2>2. CASE client' = [client EXCEPT ![c].at = "gone"]
    BY <1>1, <1>7, <2>2 DEF send, Places
  <2> QED BY <1>7, <2>1, <2>2 DEF send
<1> QED BY <1>2, <1>3, <1>4, <1>5, <1>6, <1>7 DEF Step

(* Every reachable state is well typed and satisfies the invariant.        *)
THEOREM KprobeCorrect == Spec => [](TypeOK /\ KprobeInv)
<1>1. TypeOK /\ KprobeInv /\ [Next]_vars => TypeOK' /\ KprobeInv'
  <2> SUFFICES ASSUME TypeOK, KprobeInv, [Next]_vars
               PROVE  TypeOK' /\ KprobeInv'
    OBVIOUS
  <2>1. CASE UNCHANGED vars
    BY <2>1 DEF vars, TypeOK, KprobeInv, ProbeInv, ClientInv, Holds,
                Consistent, InProcRead
  <2> QED BY <2>1, ModuleSteps, ProbeSteps, ClientSteps DEF Next
<1> QED BY <1>1, KprobeInit, PTL DEF Spec

(* A datagram holds one capture, and none older than the one before it.    *)
THEOREM DatagramsHoldOneCapture == Spec => []OneCapture
<1>1. TypeOK /\ KprobeInv => OneCapture
  BY DEF KprobeInv, ClientInv, Consistent, OneCapture
<1> QED BY <1>1, KprobeCorrect, PTL

(* The module's memory goes when nobody is in its code but a handler that  *)
(* slept.                                                                  *)
THEOREM UnloadedWhenLeft == Spec => []SafeUnload
<1>1. TypeOK /\ KprobeInv => SafeUnload
  BY DEF KprobeInv, ProbeInv, ClientInv, SafeUnload
<1> QED BY <1>1, KprobeCorrect, PTL
=============================================================================
