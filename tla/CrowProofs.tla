----------------------------- MODULE CrowProofs -----------------------------
(***************************************************************************)
(* Proofs about Crow's server.                                             *)
(*                                                                         *)
(* First its life (ProxyLifecycle), for any number of proxies, any number  *)
(* of signals and any set of faults: the types, the inductive invariant,   *)
(* and the three properties that follow from it.                           *)
(*                                                                         *)
(* Then an HTTP connection of it (HttpConnection), for any scripts, chunks *)
(* of any bytes, any router, timeout and bounds: what every operator does  *)
(* to the connection's deadline, from the handlers of a request up to the  *)
(* parser, which takes an induction over the bytes of a chunk; the         *)
(* inductive invariant; and the two properties of the deadline.            *)
(***************************************************************************)
EXTENDS ProxyLifecycle, HttpConnection, SequenceTheorems,
        WellFoundedInduction, TLAPS

USE DEF mainVars, sigVars, srvVars, udpVars

(* The signal actions keep the types; MaxSignals bounds what is sent, and   *)
(* asio's pipe never holds more than that.                                  *)
LEMMA SignalTypes ==
  ASSUME TypeOK, Sigint \/ Deliver \/ \E a \in App : SignalHandler(a)
  PROVE  TypeOK'
<1>0. /\ MaxSignals \in Nat /\ sent \in 0..MaxSignals /\ pipe \in 0..sent
      /\ created \subseteq App /\ handler \subseteq App
  BY LifecycleAssumption DEF TypeOK
<1>1. CASE Sigint
  <2>1. sent' = sent + 1 /\ sent < MaxSignals
    BY <1>1, Zenon DEF Sigint
  <2>2. \/ pipe' = pipe + 1 /\ handler' = handler
        \/ pipe' = pipe /\ handler' = created
    BY <1>1, Zenon DEF Sigint
  <2>3. sent' \in 0..MaxSignals /\ pipe' \in 0..sent'
    BY <1>0, <2>1, <2>2
  <2>5. handler' \subseteq App
    BY <1>0, <2>2
  <2>4. UNCHANGED <<main, created, object, sig, run, async, stopped, udp,
                    stop_requested>>
    BY <1>1 DEF Sigint
  <2> QED BY <2>3, <2>4, <2>5 DEF TypeOK
<1>2. CASE Deliver
  <2>1. pipe' = pipe - 1 /\ pipe > 0
    BY <1>2 DEF Deliver
  <2>2. UNCHANGED <<main, created, object, handler, sent, run, async, stopped,
                    udp, stop_requested>>
    BY <1>2 DEF Deliver
  <2>3. pipe' \in 0..sent'
    BY <1>0, <2>1, <2>2
  <2>4. sig' \in [App -> {"none", "added", "undelivered", "waiting", "posted",
                          "handled"}]
    BY <1>2 DEF Deliver, TypeOK
  <2> QED BY <2>2, <2>3, <2>4 DEF TypeOK
<1>3. ASSUME NEW a \in App, SignalHandler(a) PROVE TypeOK'
  BY <1>3 DEF SignalHandler, StopServer, TypeOK
<1> QED BY <1>1, <1>2, <1>3

(* The thread of run_async keeps the types.                                 *)
LEMMA AsyncTypes ==
  ASSUME TypeOK, NEW a \in App, AsyncThread(a) \/ ConstructFails(a)
  PROVE  TypeOK'
<1> USE DEF TypeOK
<1>1. CASE HandleSignal(a)
  BY <1>1 DEF HandleSignal, StopServer
<1>2. CASE AsyncWait(a)
  <2>1. /\ async' = [async EXCEPT ![a] = "accepting"]
        /\ UNCHANGED <<main, created, object, handler, sent, pipe, run, stopped,
                       udp, stop_requested>>
    BY <1>2 DEF AsyncWait, AsyncStep
  <2>2. async' \in [App -> {"none", "starting", "constructed", "registered",
                            "failed"} \cup Pooled]
    BY <2>1 DEF Pooled
  <2>3. sig' \in [App -> {"none", "added", "undelivered", "waiting", "posted",
                          "handled"}]
    BY <1>2 DEF AsyncWait
  <2> QED BY <2>1, <2>2, <2>3
<1>3. CASE SignalAdd(a)
  BY <1>3 DEF SignalAdd, AsyncStep
<1>4. CASE Construct(a) \/ ConstructFails(a)
  BY <1>4 DEF Construct, ConstructFails, AsyncStep
<1>5. CASE StartWorkers(a) \/ NotifyStart(a) \/ ServerEnds(a)
  BY <1>5 DEF StartWorkers, NotifyStart, ServerEnds, AsyncStep, Pooled
<1> QED BY <1>1, <1>2, <1>3, <1>4, <1>5 DEF AsyncThread

(* The variables keep their types.                                          *)
THEOREM LifeTypeCorrect == Spec => []TypeOK
<1>1. Init => TypeOK
  BY LifecycleAssumption DEF Init, TypeOK
<1>2. TypeOK /\ [Next]_vars => TypeOK'
  <2> SUFFICES ASSUME TypeOK, [Next]_vars PROVE TypeOK'
    OBVIOUS
  <2>1. CASE MainThread
    <3> USE DEF TypeOK
    <3>1. ASSUME NEW a \in App, AddApp(a) PROVE TypeOK'
      BY <3>1 DEF AddApp
    <3>2. CASE SpawnThreads
      BY <3>2 DEF SpawnThreads
    <3>3. CASE JoinAll \/ Exit
      BY <3>3 DEF JoinAll, Exit
    <3>4. ASSUME NEW p \in Proxy, Destructor(p) PROVE TypeOK'
      BY <3>4 DEF Destructor, StopServer
    <3>5. ASSUME NEW p \in Proxy, DestroyRegistry(p) \/ DestroyServer(p)
          PROVE  TypeOK'
      BY <3>5 DEF DestroyRegistry, DestroyServer
    <3> QED BY <2>1, <3>1, <3>2, <3>3, <3>4, <3>5 DEF MainThread
  <2>2. CASE Sigint \/ Deliver \/ \E a \in App : SignalHandler(a)
    BY <2>2, SignalTypes
  <2>3. CASE WebReturns
    BY <2>3 DEF WebReturns, TypeOK
  <2>4. ASSUME NEW a \in App, AsyncThread(a) \/ ConstructFails(a) PROVE TypeOK'
    BY <2>4, AsyncTypes
  <2>5. ASSUME NEW a \in App, RunThread(a) PROVE TypeOK'
    <3>1. CASE RunAsync(a)
      BY <3>1 DEF RunAsync, TypeOK
    <3>2. CASE ServerStarted(a)
      BY <3>2 DEF ServerStarted, TypeOK
    <3>3. CASE StartTimeout(a)
      BY <3>3 DEF StartTimeout, TypeOK
    <3> QED BY <2>5, <3>1, <3>2, <3>3 DEF RunThread
  <2>6. ASSUME NEW p \in Proxy,
               ProxyThread(p) \/ UdpOpenFails(p) \/ UdpRecvError(p)
        PROVE  TypeOK'
    BY <2>6 DEF ProxyThread, ServerStopped, JoinUdp, UdpOpen, UdpStops, UdpStep,
                UdpOpenFails, UdpRecvError, TypeOK
  <2>7. CASE UNCHANGED vars
    BY <2>7 DEF vars, TypeOK
  <2> QED BY <2>1, <2>2, <2>3, <2>4, <2>5, <2>6, <2>7 DEF Next
<1> QED BY <1>1, <1>2, PTL DEF Spec

-----------------------------------------------------------------------------
(* A step of the threads inside Crow, or of the signal machinery, leaves    *)
(* run() and udp_loop where they are, and a server that has started or      *)
(* ended stays so.                                                          *)
LEMMA OnlyServersMove ==
  ASSUME LifecycleInv, UNCHANGED <<main, run, udp, object>>,
         \A a \in App : /\ Started(a) => Started(a)'
                        /\ Finished(a) => Finished(a)'
  PROVE  LifecycleInv'
BY DEF LifecycleInv, RunTells, UdpTells, MainTells, GaveUp, App

LEMMA AsyncMoves ==
  ASSUME TypeOK, LifecycleInv, NEW a \in App,
         AsyncThread(a) \/ ConstructFails(a)
  PROVE  LifecycleInv'
<1>1. UNCHANGED <<main, run, udp, object>>
  BY DEF AsyncThread, ConstructFails, AsyncStep, Construct, SignalAdd,
         StartWorkers, AsyncWait, NotifyStart, ServerEnds, HandleSignal
<1>2. /\ async[a] = "serving" => async'[a] \in {"serving", "ended"}
      /\ async[a] \in {"ended", "failed"} => async'[a] = async[a]
  BY DEF AsyncThread, ConstructFails, AsyncStep, Construct, SignalAdd,
         StartWorkers, AsyncWait, NotifyStart, ServerEnds, HandleSignal, TypeOK,
         Serving
<1>3. \A b \in App : b # a => async'[b] = async[b]
  BY DEF AsyncThread, ConstructFails, AsyncStep, Construct, SignalAdd,
         StartWorkers, AsyncWait, NotifyStart, ServerEnds, HandleSignal, TypeOK
<1> QED BY <1>1, <1>2, <1>3, OnlyServersMove DEF Started, Finished

(* What a step of a run() does to the invariant.                            *)
LEMMA RunMoves ==
  ASSUME TypeOK, LifecycleInv, NEW a \in App, RunThread(a)
  PROVE  LifecycleInv'
<1>1. CASE RunAsync(a)
  <2>1. /\ run[a] = "start" /\ run'[a] = "wait"
        /\ \A b \in App : b # a => run'[b] = run[b] /\ async'[b] = async[b]
        /\ UNCHANGED <<main, udp, object>>
    BY <1>1 DEF RunAsync, TypeOK
  <2>2. \A b \in App : RunTells(b)'
    BY <2>1 DEF LifecycleInv, RunTells, Started, Finished, GaveUp
  <2>3. \A p \in Proxy : UdpTells(p)'
    BY <2>1 DEF LifecycleInv, UdpTells, Started, App
  <2>4. MainTells'
    BY <2>1 DEF LifecycleInv, MainTells
  <2> QED BY <2>2, <2>3, <2>4 DEF LifecycleInv
<1>2. CASE ServerStarted(a)
  <2>1. /\ run[a] = "wait" /\ Started(a) /\ run'[a] = "up"
        /\ \A b \in App : b # a => run'[b] = run[b]
        /\ UNCHANGED <<main, async, object>>
    BY <1>2 DEF ServerStarted, TypeOK
  <2>2. \A p \in Proxy : udp'[p] = IF p = a THEN "open" ELSE udp[p]
    BY <1>2 DEF ServerStarted
  <2>3. main # "setup"
    BY <2>1 DEF LifecycleInv, MainTells
  <2>4. \A b \in App : RunTells(b)'
    BY <2>1, <2>2 DEF LifecycleInv, RunTells, Started, Finished, GaveUp, App
  <2>5. \A p \in Proxy : UdpTells(p)'
    BY <2>1, <2>2 DEF LifecycleInv, UdpTells, Started, App
  <2>6. MainTells'
    BY <2>1, <2>3 DEF LifecycleInv, MainTells
  <2> QED BY <2>4, <2>5, <2>6 DEF LifecycleInv
<1>3. CASE StartTimeout(a)
  <2>1. /\ run[a] = "wait"
        /\ run'[a] = IF a = Web THEN "linger" ELSE "returned"
        /\ \A b \in App : b # a => run'[b] = run[b]
        /\ UNCHANGED <<main, async, udp, object>>
    BY <1>3 DEF StartTimeout, TypeOK
  <2>2. a # Web => udp[a] = "none"
    BY <2>1 DEF LifecycleInv, UdpTells, App
  <2>3. \A b \in App : RunTells(b)'
    BY <2>1, <2>2 DEF LifecycleInv, RunTells, Started, Finished, GaveUp
  <2>4. \A p \in Proxy : UdpTells(p)'
    BY <2>1, <2>2 DEF LifecycleInv, UdpTells, Started, App
  <2>5. MainTells'
    BY <2>1 DEF LifecycleInv, MainTells
  <2> QED BY <2>3, <2>4, <2>5 DEF LifecycleInv
<1> QED BY <1>1, <1>2, <1>3 DEF RunThread

(* The rest of run(), and udp_loop.                                         *)
LEMMA ProxyMoves ==
  ASSUME TypeOK, LifecycleInv, NEW p \in Proxy,
         ProxyThread(p) \/ UdpOpenFails(p) \/ UdpRecvError(p)
  PROVE  LifecycleInv'
<1> p \in App /\ p # Web
  BY LifecycleAssumption DEF App
<1>1. CASE ServerStopped(p)
  <2>1. /\ run[p] = "up" /\ Finished(p) /\ run'[p] = "join"
        /\ \A b \in App : b # p => run'[b] = run[b]
        /\ UNCHANGED <<main, async, udp, object>>
    BY <1>1 DEF ServerStopped, TypeOK
  <2>2. \A b \in App : RunTells(b)'
    BY <2>1 DEF LifecycleInv, RunTells, Started, Finished, GaveUp
  <2>3. (\A q \in Proxy : UdpTells(q)') /\ MainTells'
    BY <2>1 DEF LifecycleInv, UdpTells, MainTells, Started, App
  <2> QED BY <2>2, <2>3 DEF LifecycleInv
<1>2. CASE JoinUdp(p)
  <2>1. /\ run[p] = "join" /\ udp[p] = "done" /\ run'[p] = "returned"
        /\ \A b \in App : b # p => run'[b] = run[b]
        /\ UNCHANGED <<main, async, udp, object>>
    BY <1>2 DEF JoinUdp, TypeOK
  <2>2. \A b \in App : RunTells(b)'
    BY <2>1 DEF LifecycleInv, RunTells, Started, Finished, GaveUp
  <2>3. (\A q \in Proxy : UdpTells(q)') /\ MainTells'
    BY <2>1 DEF LifecycleInv, UdpTells, MainTells, Started, App
  <2> QED BY <2>2, <2>3 DEF LifecycleInv
<1>3. CASE \/ UdpOpen(p) \/ UdpStops(p) \/ UdpOpenFails(p) \/ UdpRecvError(p)
  <2>1. /\ udp[p] \in {"open", "loop"} /\ udp'[p] \in {"loop", "done"}
        /\ \A q \in Proxy : q # p => udp'[q] = udp[q]
        /\ UNCHANGED <<main, run, async, object>>
    BY <1>3 DEF UdpOpen, UdpStops, UdpOpenFails, UdpRecvError, UdpStep, TypeOK
  <2>2. \A b \in App : RunTells(b)'
    BY <2>1 DEF LifecycleInv, RunTells, UdpTells, Started, Finished, GaveUp, App
  <2>3. (\A q \in Proxy : UdpTells(q)') /\ MainTells'
    BY <2>1 DEF LifecycleInv, UdpTells, MainTells, Started
  <2> QED BY <2>2, <2>3 DEF LifecycleInv
<1> QED BY <1>1, <1>2, <1>3 DEF ProxyThread

(* main().                                                                  *)
LEMMA MainMoves ==
  ASSUME TypeOK, LifecycleInv, MainThread
  PROVE  LifecycleInv'
<1>1. ASSUME NEW a \in App, AddApp(a) PROVE LifecycleInv'
  BY <1>1, OnlyServersMove DEF AddApp, Started, Finished
<1>2. CASE SpawnThreads
  <2>1. /\ main = "setup" /\ main' = "join" /\ run' = [a \in App |-> "start"]
        /\ UNCHANGED <<async, udp, object>>
    BY <1>2 DEF SpawnThreads
  <2>2. \A p \in Proxy : udp[p] = "none" /\ object[p] = "whole"
    BY <2>1 DEF LifecycleInv, UdpTells, MainTells, App
  <2> QED
    BY <2>1, <2>2 DEF LifecycleInv, RunTells, UdpTells, MainTells
<1>3. CASE JoinAll \/ Exit
  <2>1. /\ \A a \in App : run[a] = "returned"
        /\ main' \in {"destroy", "gone"}
        /\ UNCHANGED <<run, async, udp, object>>
    BY <1>3 DEF JoinAll, Exit, LifecycleInv, MainTells
  <2> QED
    BY <2>1 DEF LifecycleInv, RunTells, UdpTells, MainTells, Started, Finished,
                GaveUp
<1>4. ASSUME NEW p \in Proxy,
             Destructor(p) \/ DestroyRegistry(p) \/ DestroyServer(p)
      PROVE  LifecycleInv'
  <2>1. main = "destroy" /\ UNCHANGED <<main, run, async, udp>>
    BY <1>4 DEF Destructor, DestroyRegistry, DestroyServer
  <2> QED
    BY <2>1 DEF LifecycleInv, RunTells, UdpTells, MainTells, Started, Finished,
                GaveUp
<1> QED BY <1>1, <1>2, <1>3, <1>4 DEF MainThread

(* How far run() has got tells what became of the server and of the UDP     *)
(* thread: the inductive invariant.                                         *)
THEOREM LifecycleCorrect == Spec => []LifecycleInv
<1>1. Init => LifecycleInv
  BY DEF Init, LifecycleInv, RunTells, UdpTells, MainTells, App
<1>2. TypeOK /\ LifecycleInv /\ [Next]_vars => LifecycleInv'
  <2> SUFFICES ASSUME TypeOK, LifecycleInv, [Next]_vars PROVE LifecycleInv'
    OBVIOUS
  <2>1. CASE MainThread
    BY <2>1, MainMoves
  <2>2. CASE Sigint \/ Deliver \/ \E a \in App : SignalHandler(a)
    BY <2>2, OnlyServersMove
       DEF Sigint, Deliver, SignalHandler, Started, Finished
  <2>3. CASE WebReturns
    <3>1. /\ Finished(Web) /\ run'[Web] = "returned"
          /\ run[Web] \in {"up", "linger"}
          /\ \A b \in App : b # Web => run'[b] = run[b]
          /\ UNCHANGED <<main, async, udp, object>>
      BY <2>3 DEF WebReturns, TypeOK, App
    <3>2. \A b \in App : RunTells(b)'
      BY <3>1 DEF LifecycleInv, RunTells, Started, Finished, GaveUp
    <3>3. (\A p \in Proxy : UdpTells(p)') /\ MainTells'
      BY <3>1, LifecycleAssumption
         DEF LifecycleInv, UdpTells, MainTells, Started, App
    <3> QED BY <3>2, <3>3 DEF LifecycleInv
  <2>4. ASSUME NEW a \in App, AsyncThread(a) \/ ConstructFails(a)
        PROVE  LifecycleInv'
    BY <2>4, AsyncMoves
  <2>5. ASSUME NEW a \in App, RunThread(a) PROVE LifecycleInv'
    BY <2>5, RunMoves
  <2>6. ASSUME NEW p \in Proxy,
               ProxyThread(p) \/ UdpOpenFails(p) \/ UdpRecvError(p)
        PROVE  LifecycleInv'
    BY <2>6, ProxyMoves
  <2>7. CASE UNCHANGED vars
    BY <2>7, OnlyServersMove DEF vars, Started, Finished
  <2> QED BY <2>1, <2>2, <2>3, <2>4, <2>5, <2>6, <2>7 DEF Next
<1> QED BY <1>1, <1>2, LifeTypeCorrect, PTL DEF Spec

-----------------------------------------------------------------------------
(* A UDP thread lives between the start of the server and the return of     *)
(* run(): no joinable std::thread is destroyed.                             *)
THEOREM UdpThreadJoined == Spec => []UdpWithinRun
<1>1. TypeOK /\ LifecycleInv => UdpWithinRun
  BY DEF TypeOK, LifecycleInv, UdpTells, MainTells, UdpWithinRun, App
<1> QED BY <1>1, LifeTypeCorrect, LifecycleCorrect, PTL

(* The registry outlives the handlers of every server run() waited for.     *)
THEOREM RegistryDestroyedLast == Spec => []RegistryOutlivesHandlers
<1>1. TypeOK /\ LifecycleInv => RegistryOutlivesHandlers
  <2> SUFFICES ASSUME TypeOK, LifecycleInv, NEW p \in Proxy,
                      object[p] # "whole", ~GaveUp(p)
               PROVE  async[p] = "ended"
    BY DEF RegistryOutlivesHandlers
  <2>1. run[p] = "returned"
    BY DEF TypeOK, LifecycleInv, MainTells, App
  <2>2. Finished(p) /\ Started(p)
    BY <2>1, LifecycleAssumption
       DEF LifecycleInv, RunTells, UdpTells, GaveUp, App
  <2> QED BY <2>2 DEF Finished, Started
<1> QED BY <1>1, LifeTypeCorrect, LifecycleCorrect, PTL

(* main returns after every server run() waited for.                        *)
THEOREM ExitsLast == Spec => []ExitAfterServers
<1>1. LifecycleInv => ExitAfterServers
  BY DEF LifecycleInv, MainTells, RunTells, ExitAfterServers
<1> QED BY <1>1, LifecycleCorrect, PTL

-----------------------------------------------------------------------------
(* The HTTP connection: the members of its records, its types, and what    *)
(* else its invariant says.                                                *)
ResFields == {"code", "body", "length", "completed", "file", "skip_body",
              "manual_length_header"}
ConnFields == {"app", "p", "open", "reset", "phase", "task_id",
               "close_connection", "continue_requested", "routing", "res",
               "handler", "thrown", "out", "timer"}

(* The members of a connection and of its response.                        *)
IsRes(r) == DOMAIN r = ResFields
IsConn(c) == /\ DOMAIN c = ConnFields
             /\ IsRes(c.res)
             /\ c.open \in BOOLEAN /\ c.thrown \in BOOLEAN

Owner == {"k", "other"}
Task == [owner : Owner, left : Nat]

(* The tasks of a timer have ids it has given away.                        *)
IsTimer(t) ==
  /\ DOMAIN t = {"tasks", "highest_id"}
  /\ t.highest_id \in Nat
  /\ DOMAIN t.tasks \subseteq 1 .. t.highest_id
  /\ \A i \in DOMAIN t.tasks : t.tasks[i] \in Task

Own(t, who) == {i \in DOMAIN t.tasks : t.tasks[i].owner = who}

(* The strings that stand for bytes; the provers do not know that a        *)
(* literal is a string.                                                    *)
Octet ==
  STRING \union
  {SP, CR, LF, ".", "/", "0", "00-continue", "1", "2", ":", "?", "C", "EAD",
   "ET", "G", "H", "O", "ONNECT", "OST", "OURCE", "P", "PTIONS", "S", "TTP",
   "UT", "c", "e", "eep-alive", "h", "hunked", "k", "lose", "onnection",
   "ontent-length", "ost", "pgrade", "q", "ransfer-encoding", "t", "u", "x",
   "xpect"}

(* The other connection has a deadline as the connection has.              *)
OtherGuarded ==
  Own(k.timer, "other") =
    IF other.phase = "reading" /\ other.open /\ "other" \notin robbed
    THEN {other.task_id} ELSE {}

HttpTypeOK ==
  /\ IsConn(k) /\ IsTimer(k.timer)
  /\ k.phase \in {"accepted", "reading", "ended", "upgraded"}
  /\ other \in [phase : {"none", "reading"}, open : BOOLEAN, task_id : Nat]
  /\ robbed \subseteq Owner
  /\ stream \in Seq(Octet) /\ chunk \in Seq(Octet)

(* What a handler of the connection finds and leaves.                      *)
AtRest ==
  /\ k.phase = "accepted" => k.task_id = 0 /\ k.open
  /\ k.phase \in {"accepted", "reading"} => ~k.thrown /\ k.res.file = <<>>
  /\ k.phase \in {"ended", "upgraded"} => ~k.open
  /\ chunk # <<>> => k.phase = "reading" /\ (~k.open \/ peer = "reset")
  /\ other.phase = "none" => ~other.open

HttpInv == HttpTypeOK /\ AtRest /\ Guarded /\ OtherGuarded

-----------------------------------------------------------------------------
(* What most operators of a connection leave alone: its deadline and what  *)
(* its handler makes of it.  They may close the socket.                    *)
Same(b, c) ==
  /\ IsConn(c)
  /\ c.timer = b.timer /\ c.task_id = b.task_id /\ c.phase = b.phase
  /\ c.thrown = b.thrown
  /\ c.open => b.open

(* The response is no file.                                                *)
NoFile(c) == c.res.file = <<>>

LEMMA SameIsTransitive ==
  ASSUME NEW b, NEW c, NEW d, Same(b, c), Same(c, d)
  PROVE  Same(b, d)
  BY DEF Same

LEMMA SameParser ==
  ASSUME NEW c, IsConn(c), NEW x
  PROVE  /\ Same(c, [c EXCEPT !.p = x])
         /\ [c EXCEPT !.p = x].res = c.res
  BY DEF IsConn, IsRes, ConnFields, Same

LEMMA SameClear ==
  ASSUME NEW c, IsConn(c)
  PROVE  Same(c, clear(c)) /\ clear(c).res = c.res
  BY SameParser DEF clear

LEMMA SameDone ==
  ASSUME NEW c, IsConn(c)
  PROVE  Same(c, done(c)) /\ done(c).res = c.res
  BY SameParser DEF done, ExecuteEof, Same

LEMMA SameWritten ==
  ASSUME NEW c, IsConn(c), NEW r
  PROVE  Same(c, Written(c, r)) /\ Written(c, r).res = c.res
  BY DEF IsConn, IsRes, ConnFields, Same, Written

LEMMA SameAfterWrite ==
  ASSUME NEW c, IsConn(c)
  PROVE  Same(c, AfterWrite(c)) /\ NoFile(AfterWrite(c))
  <1>. DEFINE d == [c EXCEPT !.res = clear_response(@),
                             !.continue_requested = FALSE]
  <1>1. Same(c, d) /\ NoFile(d)
    BY DEF IsConn, IsRes, ConnFields, ResFields, Same, NoFile,
           clear_response, Assigned, response
  <1>2. Same(d, clear(d)) /\ clear(d).res = d.res
    BY <1>1, SameClear DEF Same
  <1>. HIDE DEF d
  <1>3. Same(c, clear(d)) /\ NoFile(clear(d))
    BY <1>1, <1>2, SameIsTransitive DEF NoFile
  <1>. QED  BY <1>1, <1>3 DEF AfterWrite, d

(* prepare_buffers changes the handler and the body of the response.       *)
LEMMA SamePrepare ==
  ASSUME NEW c, IsConn(c)
  PROVE  /\ Same(c, prepare_buffers(c))
         /\ prepare_buffers(c).res.file = c.res.file
         /\ prepare_buffers(c).reset = c.reset
  BY DEF IsConn, IsRes, ConnFields, ResFields, Same, prepare_buffers

LEMMA SameGeneral ==
  ASSUME NEW c, IsConn(c)
  PROVE  Same(c, do_write_general(c)) /\ NoFile(do_write_general(c))
  <1>. DEFINE r == [code |-> c.res.code, length |-> Declared(c.res),
                    body |-> c.res.body]
  <1>1. Same(c, Written(c, r))
    BY SameWritten
  <1>2. Same(Written(c, r), AfterWrite(Written(c, r)))
        /\ NoFile(AfterWrite(Written(c, r)))
    BY <1>1, SameAfterWrite DEF Same
  <1>3. do_write_general(c) = AfterWrite(Written(c, r))
    BY DEF do_write_general
  <1>. QED  BY <1>1, <1>2, <1>3, SameIsTransitive

LEMMA EndedFile ==
  ASSUME NEW r, IsRes(r)
  PROVE  IsRes(Ended(r)) /\ Ended(r).file = r.file
  BY DEF IsRes, ResFields, Ended

(* The write of a file throws, or leaves a response without one.           *)
LEMMA StaticThrowsOrEnds ==
  ASSUME NEW c, IsConn(c)
  PROVE  LET d == do_write_static(c) IN
         /\ IsConn(d)
         /\ d.timer = c.timer /\ d.task_id = c.task_id /\ d.phase = c.phase
         /\ d.open => c.open
         /\ ~d.thrown => NoFile(d)
  <1>. DEFINE r == [code |-> c.res.code, length |-> Declared(c.res),
                    body |-> c.res.file]
              w == AfterWrite(Written(c, r))
              e == [w EXCEPT !.open = @ /\ ~c.close_connection,
                             !.res = clear_response(Ended(@))]
              x == [c EXCEPT !.thrown = TRUE, !.reset = "yes"]
  <1>1. Same(c, Written(c, r))
    BY SameWritten
  <1>2. Same(c, w)
    BY <1>1, SameAfterWrite, SameIsTransitive DEF Same
  <1>3. Same(w, e) /\ NoFile(e)
    <2>. HIDE DEF w
    <2>. QED  BY <1>2 DEF IsConn, IsRes, ConnFields, ResFields, Same, NoFile,
                          clear_response, Assigned, response
  <1>4. Same(e, clear(e)) /\ clear(e).res = e.res
    BY <1>3, SameClear DEF Same
  <1>5. Same(c, clear(e)) /\ NoFile(clear(e))
    <2>. HIDE DEF w, e
    <2>. QED  BY <1>2, <1>3, <1>4, SameIsTransitive DEF NoFile
  <1>6. /\ IsConn(x) /\ x.thrown
        /\ x.timer = c.timer /\ x.task_id = c.task_id /\ x.phase = c.phase
        /\ x.open = c.open
    BY DEF IsConn, IsRes, ConnFields
  <1>7. do_write_static(c) = IF c.reset = "no" THEN clear(e) ELSE x
    BY DEF do_write_static
  <1>. HIDE DEF w, e, x
  <1>. QED  BY <1>5, <1>6, <1>7 DEF Same

LEMMA SameComplete ==
  ASSUME NEW c, IsConn(c), NoFile(c)
  PROVE  Same(c, complete_request(c)) /\ NoFile(complete_request(c))
  <1>. DEFINE d == prepare_buffers(c)
  <1>1. Same(c, d) /\ d.res.file = <<>>
    BY SamePrepare DEF NoFile
  <1>2. complete_request(c) = do_write_general(d)
    BY <1>1 DEF complete_request
  <1>. HIDE DEF d
  <1>3. Same(d, do_write_general(d)) /\ NoFile(do_write_general(d))
    BY <1>1, SameGeneral DEF Same
  <1>. QED  BY <1>1, <1>2, <1>3, SameIsTransitive

(* With a file, the end of a request throws or ends like that.             *)
LEMMA CompleteThrowsOrEnds ==
  ASSUME NEW c, IsConn(c)
  PROVE  LET d == complete_request(c) IN
         /\ IsConn(d)
         /\ d.timer = c.timer /\ d.task_id = c.task_id /\ d.phase = c.phase
         /\ d.open => c.open
         /\ ~d.thrown => NoFile(d)
  <1>. DEFINE d == prepare_buffers(c)
  <1>1. Same(c, d)
    BY SamePrepare
  <1>. HIDE DEF d
  <1>2. CASE d.res.file # <<>>
    <2>1. complete_request(c) = do_write_static(d)
      BY <1>2 DEF complete_request, d
    <2>. QED  BY <1>1, <2>1, StaticThrowsOrEnds DEF Same
  <1>3. CASE d.res.file = <<>>
    <2>1. complete_request(c) = do_write_general(d)
      BY <1>3 DEF complete_request, d
    <2>. QED  BY <1>1, <2>1, SameGeneral DEF Same
  <1>. QED  BY <1>2, <1>3

(* response::end without a file.                                           *)
LEMMA SameEnd ==
  ASSUME NEW c, IsConn(c), NoFile(c)
  PROVE  Same(c, end(c)) /\ NoFile(end(c))
  <1>. DEFINE d == [c EXCEPT !.res = Ended(@)]
              r == complete_request(d)
              s == [r EXCEPT !.res.manual_length_header = FALSE,
                             !.res.skip_body = FALSE]
  <1>1. Same(c, d) /\ NoFile(d)
    BY EndedFile DEF IsConn, ConnFields, Same, NoFile
  <1>2. Same(c, c)
    BY DEF Same
  <1>3. end(c) = c \/ end(c) = d \/ end(c) = r \/ end(c) = s
    BY DEF end
  <1>. HIDE DEF d
  <1>4. Same(d, r) /\ NoFile(r)
    BY <1>1, SameComplete DEF Same
  <1>. HIDE DEF r
  <1>5. Same(c, r)
    BY <1>1, <1>4, SameIsTransitive
  <1>6. Same(r, s) /\ NoFile(s)
    BY <1>4 DEF IsConn, IsRes, ConnFields, ResFields, Same, NoFile
  <1>. HIDE DEF s
  <1>7. Same(c, s)
    BY <1>5, <1>6, SameIsTransitive
  <1>. QED  BY <1>1, <1>2, <1>3, <1>4, <1>5, <1>6, <1>7

-----------------------------------------------------------------------------
(* A timer without the task of an id.                                      *)
Cancelled(t, id, u) ==
  /\ DOMAIN u = {"tasks", "highest_id"}
  /\ u.highest_id = t.highest_id
  /\ DOMAIN u.tasks = DOMAIN t.tasks \ {id}
  /\ \A i \in DOMAIN u.tasks : u.tasks[i] = t.tasks[i]

LEMMA CancelCancels ==
  ASSUME NEW t, IsTimer(t), NEW id
  PROVE  Cancelled(t, id, cancel(t, id))
  BY DEF IsTimer, Cancelled, cancel

LEMMA CancelAgain ==
  ASSUME NEW t, NEW id, NEW u, Cancelled(t, id, u)
  PROVE  Cancelled(t, id, cancel(u, id))
  BY DEF Cancelled, cancel

LEMMA CancelledIsTimer ==
  ASSUME NEW t, IsTimer(t), NEW id, NEW u, Cancelled(t, id, u)
  PROVE  IsTimer(u)
  BY DEF IsTimer, Cancelled

(* What the handlers of a read make of the connection b: its task is still *)
(* there and nothing has been thrown, or the task has been cancelled.      *)
Stopped(b, c) ==
  /\ IsConn(c) /\ NoFile(c)
  /\ c.task_id = b.task_id
  /\ c.open => b.open
  /\ Cancelled(b.timer, b.task_id, c.timer)
  /\ c.phase \in {"reading", "upgraded"}
  /\ c.phase = "upgraded" => ~c.open

Running(b, c) ==
  /\ IsConn(c) /\ NoFile(c)
  /\ c.task_id = b.task_id
  /\ c.open => b.open
  /\ c.timer = b.timer
  /\ c.phase = "reading" /\ ~c.thrown

Fed(b, c) == Running(b, c) \/ Stopped(b, c)

LEMMA FedSame ==
  ASSUME NEW b, NEW c, NEW d, Same(c, d), NoFile(d)
  PROVE  /\ Fed(b, c) => Fed(b, d)
         /\ Stopped(b, c) => Stopped(b, d)
  BY DEF Fed, Running, Stopped, Same

LEMMA FedParser ==
  ASSUME NEW b, NEW c, Fed(b, c), NEW x
  PROVE  Fed(b, [c EXCEPT !.p = x])
  <1>1. IsConn(c) /\ NoFile(c)
    BY DEF Fed, Running, Stopped
  <1>2. Same(c, [c EXCEPT !.p = x]) /\ NoFile([c EXCEPT !.p = x])
    BY <1>1, SameParser DEF NoFile
  <1>. QED  BY <1>2, FedSame

(* The task of a connection that is fed is cancelled, if it is there.      *)
LEMMA CancelStops ==
  ASSUME NEW b, IsTimer(b.timer), NEW c, Fed(b, c)
  PROVE  /\ Stopped(b, cancel_deadline_timer(c))
         /\ cancel_deadline_timer(c).open = c.open
         /\ cancel_deadline_timer(c).thrown = c.thrown
         /\ cancel_deadline_timer(c).phase = c.phase
  <1>1. Cancelled(b.timer, b.task_id, cancel(c.timer, c.task_id))
    BY CancelCancels, CancelAgain DEF Fed, Running, Stopped
  <1>2. IsConn(c) /\ c.task_id = b.task_id
    BY DEF Fed, Running, Stopped
  <1>3. /\ IsConn(cancel_deadline_timer(c))
        /\ cancel_deadline_timer(c).res = c.res
        /\ cancel_deadline_timer(c).task_id = c.task_id
        /\ cancel_deadline_timer(c).open = c.open
        /\ cancel_deadline_timer(c).thrown = c.thrown
        /\ cancel_deadline_timer(c).phase = c.phase
        /\ cancel_deadline_timer(c).timer = cancel(c.timer, c.task_id)
    BY <1>2 DEF IsConn, IsRes, ConnFields, cancel_deadline_timer
  <1>. QED  BY <1>1, <1>3 DEF Fed, Running, Stopped, NoFile

-----------------------------------------------------------------------------
(* The router's answers.                                                   *)
LEMMA SameInitial ==
  ASSUME NEW c, IsConn(c), NoFile(c)
  PROVE  Same(c, handle_initial(c)) /\ NoFile(handle_initial(c))
  <1>. DEFINE ended(code) ==
                [c EXCEPT !.routing = NoRule,
                          !.res = Ended(Assigned(@, response(code, <<>>)))]
              head(routing) == [c EXCEPT !.routing = routing,
                                         !.res.skip_body = TRUE]
              ruled(routing) == [c EXCEPT !.routing = routing]
  <1>1. ASSUME NEW code
        PROVE  Same(c, ended(code)) /\ NoFile(ended(code))
    <2>. DEFINE r == Assigned(c.res, response(code, <<>>))
    <2>1. IsRes(r) /\ r.file = <<>>
      BY DEF IsRes, ResFields, Assigned, response
    <2>2. IsRes(Ended(r)) /\ Ended(r).file = <<>>
      BY <2>1, EndedFile
    <2>. HIDE DEF r
    <2>3. ended(code) = [c EXCEPT !.routing = NoRule, !.res = Ended(r)]
      BY DEF r
    <2>. QED  BY <2>2, <2>3 DEF IsConn, ConnFields, Same, NoFile
  <1>2. ASSUME NEW routing
        PROVE  /\ Same(c, head(routing)) /\ NoFile(head(routing))
               /\ Same(c, ruled(routing)) /\ NoFile(ruled(routing))
    BY DEF IsConn, IsRes, ConnFields, ResFields, Same, NoFile
  <1>3. ASSUME NEW code
        PROVE  Same(c, Refused(c, code)) /\ NoFile(Refused(c, code))
    <2>. DEFINE r == [c.res EXCEPT !.code = code]
    <2>1. IsRes(r) /\ r.file = <<>>
      BY DEF IsConn, IsRes, ResFields, NoFile
    <2>2. IsRes(Ended(r)) /\ Ended(r).file = <<>>
      BY <2>1, EndedFile
    <2>. HIDE DEF r
    <2>3. Refused(c, code) = [c EXCEPT !.routing = NoRule, !.res = Ended(r)]
      BY DEF r, Refused
    <2>. QED  BY <2>2, <2>3 DEF IsConn, ConnFields, Same, NoFile
  <1>. DEFINE own == Found(c.app, c.p.req.method, c.p.req.url)
              get == Found(c.app, "Get", c.p.req.url)
              some == SomeMethod(c.app, c.p.req.url)
  <1>4. \/ handle_initial(c) = ended(204)
        \/ handle_initial(c) = ended(404)
        \/ handle_initial(c) = head(IF own.rule # 0 THEN own ELSE get)
        \/ handle_initial(c) = ruled(own)
        \/ handle_initial(c) = Refused(c, IF some THEN 405 ELSE 404)
    <2>. HIDE DEF own, get, some
    <2>1. handle_initial(c) =
            CASE c.p.req.method = "Head" ->
                   IF own.rule # 0 \/ get.rule # 0
                   THEN head(IF own.rule # 0 THEN own ELSE get)
                   ELSE ended(404)
              [] c.p.req.method = "Options" ->
                   IF c.p.req.url = <<"/", "*">> \/ some THEN ended(204)
                   ELSE ended(404)
              [] OTHER ->
                   IF own.rule # 0 THEN ruled(own)
                   ELSE Refused(c, IF some THEN 405 ELSE 404)
      BY Zenon DEF handle_initial, own, get, some
    <2>. HIDE DEF ended, head, ruled
    <2>. QED  BY <2>1
  <1>. HIDE DEF ended, head, ruled
  <1>. QED  BY <1>1, <1>2, <1>3, <1>4

LEMMA HandlerIsResponse ==
  ASSUME NEW app, NEW found
  PROVE  IsRes(Handler(app, found)) /\ ~Handler(app, found).completed
  BY DEF Handler, set_static_file_info, response, IsRes, ResFields

LEMMA FedUrl ==
  ASSUME NEW b, NEW c, Fed(b, c)
  PROVE  Fed(b, handle_url(c))
  <1>. DEFINE d == handle_initial(c)
  <1>1. IsConn(c) /\ NoFile(c)
    BY DEF Fed, Running, Stopped
  <1>2. Same(c, d) /\ NoFile(d)
    BY <1>1, SameInitial
  <1>. HIDE DEF d
  <1>3. Same(d, done(d)) /\ NoFile(done(d))
    BY <1>2, SameDone DEF Same, NoFile
  <1>4. Same(done(d), complete_request(done(d)))
        /\ NoFile(complete_request(done(d)))
    BY <1>3, SameComplete DEF Same
  <1>5. handle_url(c) = d \/ handle_url(c) = complete_request(done(d))
    BY DEF handle_url, d
  <1>6. Fed(b, d)
    BY <1>2, FedSame
  <1>7. Fed(b, done(d))
    BY <1>3, <1>6, FedSame
  <1>8. Fed(b, complete_request(done(d)))
    BY <1>4, <1>7, FedSame
  <1>. QED  BY <1>5, <1>6, <1>8

LEMMA FedHeader ==
  ASSUME NEW b, NEW c, Fed(b, c)
  PROVE  Fed(b, handle_header(c))
  <1>. DEFINE d == [c EXCEPT !.continue_requested = TRUE]
              r == [code |-> 100, length |-> <<>>, body |-> <<>>]
  <1>1. IsConn(c) /\ NoFile(c)
    BY DEF Fed, Running, Stopped
  <1>2. Same(c, d) /\ NoFile(d)
    BY <1>1 DEF IsConn, IsRes, ConnFields, Same, NoFile
  <1>. HIDE DEF d
  <1>3. Same(d, Written(d, r))
    BY <1>2, SameWritten DEF Same
  <1>4. Same(c, AfterWrite(Written(d, r)))
        /\ NoFile(AfterWrite(Written(d, r)))
    BY <1>2, <1>3, SameAfterWrite, SameIsTransitive DEF Same
  <1>5. handle_header(c) = c \/ handle_header(c) = AfterWrite(Written(d, r))
    BY DEF handle_header, d
  <1>. QED  BY <1>4, <1>5, FedSame

(* What a throw leaves alone.                                              *)
Keeps(c, d) ==
  /\ IsConn(d)
  /\ d.timer = c.timer /\ d.task_id = c.task_id /\ d.phase = c.phase
  /\ d.open => c.open

LEMMA KeepsStopped ==
  ASSUME NEW b, NEW c, Stopped(b, c), NEW d, Keeps(c, d), NoFile(d)
  PROVE  Stopped(b, d)
  BY DEF Stopped, Keeps

LEMMA KeepsIsTransitive ==
  ASSUME NEW b, NEW c, NEW d, Keeps(b, c), Keeps(c, d)
  PROVE  Keeps(b, d)
  BY DEF Keeps

LEMMA AssignedIsResponse ==
  ASSUME NEW res, NEW r, IsRes(r)
  PROVE  /\ IsRes(Assigned(res, r))
         /\ Assigned(res, r).file = r.file
         /\ Assigned(res, r).completed = r.completed
  BY DEF IsRes, ResFields, Assigned

LEMMA KeepsAssigned ==
  ASSUME NEW c, IsConn(c), NEW r, IsRes(r)
  PROVE  LET d == [c EXCEPT !.res = Assigned(@, r)] IN
         /\ Same(c, d) /\ Keeps(c, d)
         /\ d.res.file = r.file /\ d.res.completed = r.completed
         /\ d.handler = c.handler
  <1>. DEFINE a == Assigned(c.res, r)
  <1>1. IsRes(a) /\ a.file = r.file /\ a.completed = r.completed
    BY AssignedIsResponse
  <1>. HIDE DEF a
  <1>2. LET d == [c EXCEPT !.res = a] IN
        /\ Same(c, d) /\ Keeps(c, d)
        /\ d.res.file = r.file /\ d.res.completed = r.completed
        /\ d.handler = c.handler
    BY <1>1 DEF IsConn, ConnFields, Same, Keeps
  <1>. QED  BY <1>2 DEF a

LEMMA IsResponse ==
  ASSUME NEW code
  PROVE  IsRes(response(code, <<>>)) /\ response(code, <<>>).file = <<>>
  BY DEF response, IsRes, ResFields

(* response::end of a rule's response, which may be a file.                *)
LEMMA EndThrowsOrEnds ==
  ASSUME NEW c, IsConn(c), ~c.res.completed, c.handler
  PROVE  Keeps(c, end(c)) /\ (~end(c).thrown => NoFile(end(c)))
  <1>. DEFINE d == [c EXCEPT !.res = Ended(@)]
              r == complete_request(d)
              s == [r EXCEPT !.res.manual_length_header = FALSE,
                             !.res.skip_body = FALSE]
  <1>1. Keeps(c, d)
    BY EndedFile DEF IsConn, ConnFields, Keeps
  <1>2. end(c) = IF r.thrown THEN r ELSE s
    BY DEF end
  <1>. HIDE DEF d
  <1>3. Keeps(d, r) /\ (~r.thrown => NoFile(r))
    BY <1>1, CompleteThrowsOrEnds DEF Keeps
  <1>. HIDE DEF r
  <1>4. ~r.thrown => Keeps(r, s) /\ NoFile(s) /\ ~s.thrown
    BY <1>3 DEF IsConn, IsRes, ConnFields, ResFields, Keeps, NoFile
  <1>. HIDE DEF s
  <1>. QED  BY <1>1, <1>2, <1>3, <1>4, KeepsIsTransitive

LEMMA RuleStops ==
  ASSUME NEW b, NEW c, Stopped(b, c), c.handler
  PROVE  Stopped(b, RunRule(c))
  <1>. DEFINE h == Handler(c.app, c.routing)
              x == [c EXCEPT !.res = Assigned(@, h)]
              d == end(x)
              y == [d EXCEPT !.thrown = FALSE]
              z == [y EXCEPT !.res = Assigned(@, response(500, <<>>))]
  <1>1. IsConn(c)
    BY DEF Stopped
  <1>2. IsRes(h) /\ ~h.completed
    BY HandlerIsResponse
  <1>. HIDE DEF h
  <1>3. Keeps(c, x) /\ ~x.res.completed /\ x.handler
    BY <1>1, <1>2, KeepsAssigned
  <1>. HIDE DEF x
  <1>4. Keeps(x, d) /\ (~d.thrown => NoFile(d))
    BY <1>3, EndThrowsOrEnds DEF Keeps
  <1>5. RunRule(c) = IF ~d.thrown THEN d ELSE end(z)
    BY DEF RunRule, d, x, h
  <1>. HIDE DEF d
  <1>6. Keeps(d, y)
    BY <1>4 DEF IsConn, ConnFields, Keeps
  <1>. HIDE DEF y
  <1>7. Keeps(y, z) /\ NoFile(z)
    BY <1>6, KeepsAssigned, IsResponse DEF Keeps, NoFile
  <1>. HIDE DEF z
  <1>8. Keeps(z, end(z)) /\ NoFile(end(z))
    BY <1>7, SameEnd DEF Same, Keeps
  <1>9. Keeps(c, d)
    BY <1>3, <1>4, KeepsIsTransitive
  <1>10. Keeps(c, end(z))
    BY <1>6, <1>7, <1>8, <1>9, KeepsIsTransitive
  <1>. QED  BY <1>4, <1>5, <1>8, <1>9, <1>10, KeepsStopped

(* An upgrade hands the socket over, when the task is no more.             *)
LEMMA UpgradeStops ==
  ASSUME NEW b, NEW c, Stopped(b, c)
  PROVE  Stopped(b, handle_upgrade(c))
  <1>. DEFINE up(ws) == [c EXCEPT !.open = FALSE,
                                  !.phase = IF ws THEN "upgraded" ELSE @]
              no(code) == [c EXCEPT !.res = Assigned(@, response(code, <<>>))]
  <1>1. IsConn(c)
    BY DEF Stopped
  <1>2. Stopped(b, [c EXCEPT !.open = FALSE, !.phase = "upgraded"])
    BY DEF Stopped, NoFile, IsConn, IsRes, ConnFields
  <1>3. Stopped(b, [c EXCEPT !.open = FALSE, !.phase = @])
    BY DEF Stopped, NoFile, IsConn, IsRes, ConnFields
  <1>4. ASSUME NEW code
        PROVE  Stopped(b, end(no(code)))
    <2>1. Same(c, no(code)) /\ NoFile(no(code))
      BY <1>1, KeepsAssigned, IsResponse DEF NoFile
    <2>. HIDE DEF no
    <2>2. Same(no(code), end(no(code))) /\ NoFile(end(no(code)))
      BY <2>1, SameEnd DEF Same
    <2>. QED  BY <2>1, <2>2, FedSame
  <1>5. \/ handle_upgrade(c) = [c EXCEPT !.open = FALSE, !.phase = "upgraded"]
        \/ handle_upgrade(c) = [c EXCEPT !.open = FALSE, !.phase = @]
        \/ handle_upgrade(c) = end(no(405))
        \/ handle_upgrade(c) = end(no(404))
    <2>. DEFINE f == Found(c.app, c.p.req.method, c.p.req.url)
                ws == Header(c.p.req, <<"u", "pgrade">>) = <<"websocket">>
                some == f.rule = 0 /\ SomeMethod(c.app, c.p.req.url)
    <2>. HIDE DEF f, ws, some, no
    <2>1. handle_upgrade(c) =
            IF f.rule # 0 /\ c.app = "proxy"
            THEN [c EXCEPT !.open = FALSE,
                           !.phase = IF ws THEN "upgraded" ELSE @]
            ELSE end(no(IF some THEN 405 ELSE 404))
      BY Zenon DEF handle_upgrade, f, ws, some, no
    <2>2. CASE ws
      BY <2>1, <2>2
    <2>3. CASE ~ws
      BY <2>1, <2>3
    <2>. QED  BY <2>2, <2>3
  <1>. HIDE DEF no
  <1>. QED  BY <1>2, <1>3, <1>4, <1>5

(* However a message is answered, its connection has no task afterwards.   *)
LEMMA HandleStops ==
  ASSUME NEW b, IsTimer(b.timer), NEW c, Fed(b, c)
  PROVE  Stopped(b, handle(c))
  <1>. DEFINE x == cancel_deadline_timer(c)
              d == [x EXCEPT !.close_connection = c.p.req.close_connection]
              throws == [x EXCEPT !.thrown = TRUE]
              bad == [d EXCEPT !.res = Assigned(@, response(400, <<>>))]
              up == [d EXCEPT !.close_connection = TRUE]
              rule == [d EXCEPT !.handler = TRUE]
  <1>1. Stopped(b, x)
    BY CancelStops
  <1>2. handle(c) \in {throws, complete_request(bad), handle_upgrade(up),
                       RunRule(rule)}
    BY DEF handle
  <1>. HIDE DEF x
  <1>3. Stopped(b, throws)
    BY <1>1 DEF Stopped, NoFile, IsConn, IsRes, ConnFields
  <1>4. Stopped(b, d)
    BY <1>1 DEF Stopped, NoFile, IsConn, IsRes, ConnFields
  <1>. HIDE DEF d, throws
  <1>5. Stopped(b, complete_request(bad))
    <2>1. Same(d, bad) /\ NoFile(bad)
      BY <1>4, KeepsAssigned, IsResponse DEF Stopped, NoFile
    <2>. HIDE DEF bad
    <2>2. Same(bad, complete_request(bad)) /\ NoFile(complete_request(bad))
      BY <2>1, SameComplete DEF Same
    <2>. QED  BY <1>4, <2>1, <2>2, FedSame
  <1>6. Stopped(b, up)
    BY <1>4 DEF Stopped, NoFile, IsConn, IsRes, ConnFields
  <1>7. Stopped(b, rule) /\ rule.handler
    BY <1>4 DEF Stopped, NoFile, IsConn, IsRes, ConnFields
  <1>. HIDE DEF up, rule, bad
  <1>8. Stopped(b, handle_upgrade(up))
    BY <1>6, UpgradeStops
  <1>9. Stopped(b, RunRule(rule))
    BY <1>7, RuleStops
  <1>. QED  BY <1>2, <1>3, <1>5, <1>8, <1>9

-----------------------------------------------------------------------------
(* The locals of http_parser_execute.                                      *)
IsLocals(b, l) ==
  /\ DOMAIN l = {"k", "piece", "began", "returned", "mark"}
  /\ Fed(b, l.k)

LEMMA LocalsSet ==
  ASSUME NEW b, NEW l, IsLocals(b, l), NEW x
  PROVE  /\ IsLocals(b, [l EXCEPT !.piece = x])
         /\ IsLocals(b, [l EXCEPT !.began = x])
         /\ IsLocals(b, [l EXCEPT !.returned = x])
         /\ IsLocals(b, [l EXCEPT !.mark = x])
         /\ IsLocals(b, [l EXCEPT !.k.p = x])
  BY FedParser DEF IsLocals

LEMMA LocalsConnection ==
  ASSUME NEW b, NEW l, IsLocals(b, l), NEW c, Fed(b, c)
  PROVE  IsLocals(b, [l EXCEPT !.k = c])
  BY DEF IsLocals

LEMMA LocalsTo ==
  ASSUME NEW b, NEW l, IsLocals(b, l), NEW s
  PROVE  IsLocals(b, Parser!To(l, s))
  BY LocalsSet DEF Parser!To

LEMMA LocalsError ==
  ASSUME NEW b, NEW l, IsLocals(b, l), NEW e
  PROVE  IsLocals(b, Parser!Error(l, e))
  <1>1. IsLocals(b, [l EXCEPT !.k.p.http_errno = e])
    BY LocalsSet
  <1>. QED  BY <1>1, LocalsSet DEF Parser!Error

LEMMA LocalsMark ==
  ASSUME NEW b, NEW l, IsLocals(b, l), NEW m, NEW ch
  PROVE  IsLocals(b, Parser!Mark(l, m, ch))
  <1>1. IsLocals(b, [l EXCEPT !.mark = m])
    BY LocalsSet
  <1>. QED  BY <1>1, LocalsSet DEF Parser!Mark

LEMMA LocalsNotified ==
  ASSUME NEW b, NEW l, IsLocals(b, l), NEW c, Fed(b, c)
  PROVE  IsLocals(b, Parser!Notified(l, c))
  <1>. DEFINE n == [l EXCEPT !.k = c]
              r == IF c.p.http_errno # "OK" \/ c.thrown THEN "error"
                   ELSE n.returned
  <1>1. IsLocals(b, n)
    BY LocalsConnection
  <1>2. n.returned = l.returned
    BY DEF IsLocals
  <1>3. Parser!Notified(l, c) = [n EXCEPT !.returned = r]
    BY <1>2 DEF Parser!Notified
  <1>. HIDE DEF n, r
  <1>4. IsLocals(b, [n EXCEPT !.returned = r])
    BY <1>1, LocalsSet
  <1>. QED  BY <1>3, <1>4

-----------------------------------------------------------------------------
(* The callbacks.                                                          *)
LEMMA LocalsData ==
  ASSUME NEW b, NEW l, IsLocals(b, l)
  PROVE  IsLocals(b, Parser!Data(l))
  <1>. DEFINE m == [[l EXCEPT !.mark = "none"] EXCEPT !.piece = <<>>]
  <1>1. Fed(b, l.k)
    BY DEF IsLocals
  <1>2. IsLocals(b, m)
    BY LocalsSet
  <1>3. Fed(b, Parser!on_url(l.k, l.piece))
    <2>1. ASSUME NEW c, Fed(b, c), NEW x, NEW y
          PROVE  Fed(b, [[c EXCEPT !.p.req.raw_url = x] EXCEPT
                           !.p.req.url = y])
      BY <2>1, FedParser
    <2>. QED  BY <1>1, <2>1, FedUrl DEF Parser!on_url
  <1>4. Fed(b, Parser!on_header_field(l.k, l.piece))
    BY <1>1, FedParser DEF Parser!on_header_field
  <1>5. Fed(b, Parser!on_header_value(l.k, l.piece))
    BY <1>1, FedParser DEF Parser!on_header_value
  <1>6. Fed(b, Parser!on_body(l.k, l.piece))
    BY <1>1, FedParser DEF Parser!on_body
  <1>7. Parser!Data(l) \in
          {Parser!Notified(m, c) : c \in
             {Parser!on_url(l.k, l.piece),
              Parser!on_header_field(l.k, l.piece),
              Parser!on_header_value(l.k, l.piece),
              Parser!on_body(l.k, l.piece), l.k}}
    BY DEF Parser!Data
  <1>. HIDE DEF m
  <1>. QED  BY <1>1, <1>2, <1>3, <1>4, <1>5, <1>6, <1>7, LocalsNotified

LEMMA LocalsMessageComplete ==
  ASSUME NEW b, IsTimer(b.timer), NEW l, IsLocals(b, l)
  PROVE  IsLocals(b, Parser!MessageComplete(l))
  <1>1. Fed(b, [l.k EXCEPT !.p.message_complete = TRUE])
    BY FedParser DEF IsLocals
  <1>2. Fed(b, Parser!on_message_complete(l.k))
    BY <1>1, HandleStops DEF Parser!on_message_complete, Fed
  <1>. QED  BY <1>2, LocalsNotified DEF Parser!MessageComplete

LEMMA FedHeadersComplete ==
  ASSUME NEW b, NEW c, Fed(b, c)
  PROVE  Fed(b, Parser!on_headers_complete(c))
  <1>. DEFINE last == IF c.p.header_field = <<>> THEN c
                      ELSE [c EXCEPT !.p = [@ EXCEPT
                              !.req.headers = @ \o <<<<c.p.header_field,
                                                       c.p.header_value>>>>,
                              !.header_field = <<>>, !.header_value = <<>>]]
  <1>1. Fed(b, last)
    BY FedParser
  <1>2. Parser!on_headers_complete(c) =
          handle_header(Parser!set_connection_parameters(last))
    BY DEF Parser!on_headers_complete
  <1>. HIDE DEF last
  <1>3. Fed(b, Parser!set_connection_parameters(last))
    BY <1>1, FedParser DEF Parser!set_connection_parameters
  <1>. QED  BY <1>2, <1>3, FedHeader

-----------------------------------------------------------------------------
(* The states: no byte touches the deadline but by a callback.             *)
LEMMA LocalsUrlByte ==
  ASSUME NEW b, NEW l, IsLocals(b, l), NEW s, NEW ch
  PROVE  IsLocals(b, Parser!UrlByte(l, s, ch))
  BY LocalsSet, LocalsTo, LocalsError, LocalsMark DEF Parser!UrlByte

LEMMA LocalsStartReq ==
  ASSUME NEW b, NEW l, IsLocals(b, l), NEW ch
  PROVE  IsLocals(b, Parser!StartReq(l, ch))
  BY LocalsSet, LocalsError DEF Parser!StartReq

LEMMA LocalsReqMethod ==
  ASSUME NEW b, NEW l, IsLocals(b, l), NEW ch
  PROVE  IsLocals(b, Parser!ReqMethod(l, ch))
  BY LocalsSet, LocalsTo, LocalsError DEF Parser!ReqMethod

LEMMA LocalsSpacesBeforeUrl ==
  ASSUME NEW b, NEW l, IsLocals(b, l), NEW ch
  PROVE  IsLocals(b, Parser!SpacesBeforeUrl(l, ch))
  BY LocalsSet, LocalsUrlByte DEF Parser!SpacesBeforeUrl

LEMMA LocalsSchema ==
  ASSUME NEW b, NEW l, IsLocals(b, l), NEW ch
  PROVE  IsLocals(b, Parser!Schema(l, ch))
  BY LocalsError, LocalsUrlByte DEF Parser!Schema

LEMMA LocalsUrl ==
  ASSUME NEW b, NEW l, IsLocals(b, l), NEW ch
  PROVE  IsLocals(b, Parser!Url(l, ch))
  BY LocalsSet, LocalsTo, LocalsError, LocalsUrlByte, LocalsData
     DEF Parser!Url

LEMMA LocalsExpect ==
  ASSUME NEW b, NEW l, IsLocals(b, l), NEW good, NEW to, NEW e
  PROVE  IsLocals(b, Parser!Expect(l, good, to, e))
  BY LocalsTo, LocalsError DEF Parser!Expect

LEMMA LocalsVersion ==
  ASSUME NEW b, NEW l, IsLocals(b, l), NEW ch
  PROVE  IsLocals(b, Parser!Version(l, ch))
  BY LocalsSet, LocalsTo, LocalsExpect DEF Parser!Version

LEMMA LocalsHeadersDone ==
  ASSUME NEW b, IsTimer(b.timer), NEW l, IsLocals(b, l), NEW ch
  PROVE  IsLocals(b, Parser!HeadersDone(l, ch))
  BY LocalsSet, LocalsTo, LocalsError, LocalsMessageComplete
     DEF Parser!HeadersDone

LEMMA LocalsHeadersAlmostDone ==
  ASSUME NEW b, IsTimer(b.timer), NEW l, IsLocals(b, l), NEW ch
  PROVE  IsLocals(b, Parser!HeadersAlmostDone(l, ch))
  <1>. DEFINE d == [l.k EXCEPT !.p.state = "s_headers_done",
                               !.p.upgrade = "F_UPGRADE" \in l.k.p.flags
                                             \/ l.k.p.method = "Connect"]
              m == Parser!Notified(l, Parser!on_headers_complete(d))
  <1>1. Fed(b, d)
    BY FedParser DEF IsLocals
  <1>2. IsLocals(b, m)
    BY <1>1, FedHeadersComplete, LocalsNotified
  <1>3. Parser!HeadersAlmostDone(l, ch) \in
          {Parser!Error(l, "STRICT"), Parser!MessageComplete(l),
           Parser!Error(l, "UNEXPECTED_CONTENT_LENGTH"), m,
           Parser!HeadersDone(m, ch)}
    BY DEF Parser!HeadersAlmostDone
  <1>. HIDE DEF m
  <1>. QED  BY <1>2, <1>3, LocalsError, LocalsMessageComplete,
               LocalsHeadersDone

LEMMA LocalsFieldStart ==
  ASSUME NEW b, IsTimer(b.timer), NEW l, IsLocals(b, l), NEW ch
  PROVE  IsLocals(b, Parser!FieldStart(l, ch))
  BY LocalsSet, LocalsTo, LocalsError, LocalsMark, LocalsHeadersAlmostDone
     DEF Parser!FieldStart

LEMMA LocalsField ==
  ASSUME NEW b, NEW l, IsLocals(b, l), NEW ch
  PROVE  IsLocals(b, Parser!Field(l, ch))
  BY LocalsSet, LocalsTo, LocalsError, LocalsMark, LocalsData
     DEF Parser!Field

LEMMA LocalsValueStart ==
  ASSUME NEW b, NEW l, IsLocals(b, l), NEW ch, NEW next
  PROVE  IsLocals(b, Parser!ValueStart(l, ch, next))
  BY LocalsSet, LocalsTo, LocalsError, LocalsMark DEF Parser!ValueStart

LEMMA LocalsDiscardWs ==
  ASSUME NEW b, NEW l, IsLocals(b, l), NEW ch, NEW next
  PROVE  IsLocals(b, Parser!DiscardWs(l, ch, next))
  BY LocalsTo, LocalsValueStart DEF Parser!DiscardWs

LEMMA LocalsLongerLength ==
  ASSUME NEW b, NEW l, IsLocals(b, l), NEW base, NEW digit
  PROVE  IsLocals(b, Parser!LongerLength(l, base, digit))
  <1>1. IsLocals(b, [l EXCEPT !.k.p.content_length = @ * base + digit])
    BY LocalsSet
  <1>2. IsLocals(b, Parser!Error(l, "INVALID_CONTENT_LENGTH"))
    BY LocalsError
  <1>. QED  BY <1>1, <1>2, SMT DEF Parser!LongerLength

LEMMA LocalsHeaderAlmostDone ==
  ASSUME NEW b, NEW l, IsLocals(b, l), NEW ch
  PROVE  IsLocals(b, Parser!HeaderAlmostDone(l, ch))
  BY LocalsExpect DEF Parser!HeaderAlmostDone

LEMMA LocalsValue ==
  ASSUME NEW b, NEW l, IsLocals(b, l), NEW ch
  PROVE  IsLocals(b, Parser!Value(l, ch))
  BY LocalsSet, LocalsTo, LocalsError, LocalsMark, LocalsData,
     LocalsLongerLength, LocalsHeaderAlmostDone DEF Parser!Value

LEMMA LocalsValueLws ==
  ASSUME NEW b, IsTimer(b.timer), NEW l, IsLocals(b, l), NEW ch, NEW next
  PROVE  IsLocals(b, Parser!ValueLws(l, ch, next))
  BY LocalsSet, LocalsTo, LocalsValueStart, LocalsFieldStart
     DEF Parser!ValueLws

LEMMA LocalsDiscardLws ==
  ASSUME NEW b, IsTimer(b.timer), NEW l, IsLocals(b, l), NEW ch
  PROVE  IsLocals(b, Parser!DiscardLws(l, ch))
  BY LocalsSet, LocalsTo, LocalsData, LocalsFieldStart
     DEF Parser!DiscardLws

LEMMA LocalsBodyIdentity ==
  ASSUME NEW b, IsTimer(b.timer), NEW l, IsLocals(b, l), NEW ch
  PROVE  IsLocals(b, Parser!BodyIdentity(l, ch))
  BY LocalsSet, LocalsTo, LocalsMark, LocalsData, LocalsMessageComplete
     DEF Parser!BodyIdentity

LEMMA LocalsChunkSize ==
  ASSUME NEW b, NEW l, IsLocals(b, l), NEW ch
  PROVE  IsLocals(b, Parser!ChunkSize(l, ch))
  BY LocalsSet, LocalsTo, LocalsError, LocalsLongerLength
     DEF Parser!ChunkSize

LEMMA LocalsChunkSizeDone ==
  ASSUME NEW b, NEW l, IsLocals(b, l), NEW ch
  PROVE  IsLocals(b, Parser!ChunkSizeDone(l, ch))
  BY LocalsSet, LocalsTo, LocalsError DEF Parser!ChunkSizeDone

LEMMA LocalsChunkData ==
  ASSUME NEW b, NEW l, IsLocals(b, l), NEW ch
  PROVE  IsLocals(b, Parser!ChunkData(l, ch))
  BY LocalsSet, LocalsTo, LocalsError, LocalsMark, LocalsData
     DEF Parser!ChunkData

LEMMA LocalsByte ==
  ASSUME NEW b, IsTimer(b.timer), NEW l, IsLocals(b, l), NEW ch, NEW next
  PROVE  IsLocals(b, Parser!Byte(l, ch, next))
  BY LocalsError, LocalsStartReq, LocalsReqMethod, LocalsSpacesBeforeUrl,
     LocalsSchema, LocalsUrl, LocalsFieldStart, LocalsField,
     LocalsDiscardWs, LocalsExpect, LocalsDiscardLws, LocalsValue,
     LocalsHeaderAlmostDone, LocalsValueLws, LocalsHeadersAlmostDone,
     LocalsHeadersDone, LocalsBodyIdentity, LocalsMessageComplete,
     LocalsChunkSize, LocalsChunkSizeDone, LocalsChunkData, LocalsVersion
     DEF Parser!Byte

LEMMA LocalsCounted ==
  ASSUME NEW b, NEW l, IsLocals(b, l)
  PROVE  IsLocals(b, Parser!Counted(l))
  <1>. DEFINE c == IF l.k.p.state \in Parser!BodyStates THEN l
                   ELSE [l EXCEPT !.k.p.nread = @ + 1]
  <1>1. IsLocals(b, c)
    BY LocalsSet
  <1>2. Parser!Counted(l) = IF c.k.p.nread > 80 * 1024
                            THEN Parser!Error(c, "HEADER_OVERFLOW") ELSE c
    BY SMT DEF Parser!Counted
  <1>. HIDE DEF c
  <1>. QED  BY <1>1, <1>2, LocalsError, SMT

-----------------------------------------------------------------------------
(* Induction over numbers, by sets of them.                                *)
LEMMA LeastElement ==
  ASSUME NEW S \in SUBSET Nat, S # {}
  PROVE  \E x \in S : \A y \in S : x =< y
  <1>. DEFINE R == OpToRel(<, Nat)
  <1>1. IsWellFoundedOn(R, Nat)
    BY NatLessThanWellFounded, Zenon
  <1>2. PICK x \in S : \A y \in S : ~(<<y, x>> \in R)
    <2>. HIDE DEF R
    <2>. QED  BY <1>1, WFMin, Zenon
  <1>3. \A y \in S : ~(y < x)
    BY <1>2 DEF OpToRel
  <1>. QED  BY <1>3

LEMMA SetInduction ==
  ASSUME NEW T \in SUBSET Nat, 0 \in T, \A n \in T : n + 1 \in T
  PROVE  T = Nat
  <1>. SUFFICES ASSUME Nat \ T # {}
                PROVE  FALSE
    OBVIOUS
  <1>1. PICK x \in Nat \ T : \A y \in Nat \ T : x =< y
    BY LeastElement
  <1>2. x - 1 \in T
    BY <1>1
  <1>. QED  BY <1>2

(* A function over the numbers up to n, each value from the one before it, *)
(* is there.                                                               *)
ByteStep(l, bytes, f, i) ==
  IF i = 0 THEN [l |-> l, nparsed |-> 0]
  ELSE Parser!Parsed(f[i - 1], bytes, i)

LEMMA ParsedExists ==
  ASSUME NEW l, NEW bytes, NEW n \in Nat
  PROVE  \E f : f = [i \in 0 .. n |-> ByteStep(l, bytes, f, i)]
  <1>. DEFINE Solves(f, m) == f = [i \in 0 .. m |-> ByteStep(l, bytes, f, i)]
              T == {m \in Nat : \E f : Solves(f, m)}
  <1>1. 0 \in T
    <2>. DEFINE g == [i \in 0 .. 0 |-> [l |-> l, nparsed |-> 0]]
    <2>1. \A i \in 0 .. 0 : ByteStep(l, bytes, g, i) =
                              [l |-> l, nparsed |-> 0]
      BY DEF ByteStep
    <2>2. Solves(g, 0)
      BY <2>1
    <2>3. \E f : Solves(f, 0)
      <3>. HIDE DEF g, Solves
      <3>. QED  BY <2>2
    <2>. HIDE DEF Solves
    <2>. QED  BY <2>3
  <1>2. ASSUME NEW m \in T
        PROVE  m + 1 \in T
    <2>1. PICK f : Solves(f, m)
      OBVIOUS
    <2>. DEFINE g == [i \in 0 .. m + 1 |-> IF i =< m THEN f[i]
                                           ELSE ByteStep(l, bytes, f, i)]
    <2>2. \A i \in 0 .. m + 1 : ByteStep(l, bytes, g, i) =
                                ByteStep(l, bytes, f, i)
      BY DEF ByteStep
    <2>3. \A i \in 0 .. m : f[i] = ByteStep(l, bytes, f, i)
      BY <2>1
    <2>4. Solves(g, m + 1)
      BY <2>2, <2>3
    <2>5. \E h : Solves(h, m + 1)
      <3>. HIDE DEF g, Solves
      <3>. QED  BY <2>4
    <2>. HIDE DEF Solves
    <2>. QED  BY <2>5
  <1>3. T \subseteq Nat
    OBVIOUS
  <1>4. T = Nat
    <2>. HIDE DEF T
    <2>. QED  BY <1>1, <1>2, <1>3, SetInduction
  <1>. QED  BY <1>4

-----------------------------------------------------------------------------
(* A chunk, byte after byte.                                               *)
LEMMA LocalsParsed ==
  ASSUME NEW b, IsTimer(b.timer), NEW e, IsLocals(b, e.l), NEW bytes, NEW i
  PROVE  IsLocals(b, Parser!Parsed(e, bytes, i).l)
  <1>. DEFINE c == Parser!Counted(e.l)
              next == IF i = Len(bytes) THEN "" ELSE bytes[i + 1]
              x == IF c.returned # "no" THEN c
                   ELSE Parser!Byte(c, bytes[i], next)
  <1>1. IsLocals(b, c)
    BY LocalsCounted
  <1>2. Parser!Parsed(e, bytes, i) =
          IF e.l.returned # "no" THEN e ELSE [l |-> x, nparsed |-> i]
    BY DEF Parser!Parsed
  <1>. HIDE DEF c, next
  <1>3. IsLocals(b, x)
    BY <1>1, LocalsByte
  <1>. HIDE DEF x
  <1>. QED  BY <1>2, <1>3

LEMMA LocalsExecute ==
  ASSUME NEW b, IsTimer(b.timer), NEW l, IsLocals(b, l),
         NEW bytes, Len(bytes) \in Nat
  PROVE  IsLocals(b, Parser!Execute(l, bytes).l)
  <1>. DEFINE n == Len(bytes)
              after == CHOOSE f :
                         f = [i \in 0 .. n |-> ByteStep(l, bytes, f, i)]
              T == {i \in Nat : i =< n => IsLocals(b, after[i].l)}
  <1>. HIDE DEF n
  <1>0. n \in Nat
    BY DEF n
  <1>1. after = [i \in 0 .. n |-> ByteStep(l, bytes, after, i)]
    BY <1>0, ParsedExists
  <1>2. Parser!Execute(l, bytes) = after[n]
    BY DEF Parser!Execute, ByteStep, n
  <1>. HIDE DEF after
  <1>3. \A i \in 0 .. n : after[i] = ByteStep(l, bytes, after, i)
    BY <1>1
  <1>4. 0 \in T
    <2>1. after[0].l = l
      BY <1>0, <1>3 DEF ByteStep
    <2>. QED  BY <2>1
  <1>5. ASSUME NEW i \in T
        PROVE  i + 1 \in T
    <2>. SUFFICES ASSUME i + 1 =< n
                  PROVE  IsLocals(b, after[i + 1].l)
      OBVIOUS
    <2>1. IsLocals(b, after[i].l)
      BY <1>0
    <2>2. i + 1 \in 0 .. n /\ (i + 1) - 1 = i /\ i + 1 # 0
      BY <1>0
    <2>3. after[i + 1] = Parser!Parsed(after[i], bytes, i + 1)
      BY <1>3, <2>2 DEF ByteStep
    <2>. QED  BY <2>1, <2>3, LocalsParsed
  <1>6. T = Nat
    <2>1. T \subseteq Nat
      OBVIOUS
    <2>. HIDE DEF T
    <2>. QED  BY <1>4, <1>5, <2>1, SetInduction
  <1>. QED  BY <1>0, <1>2, <1>6

(* What feed makes of a connection that is read.                           *)
LEMMA FedByFeed ==
  ASSUME NEW b, IsTimer(b.timer), Running(b, b), NEW bytes,
         Len(bytes) \in Nat
  PROVE  Fed(b, Parser!feed(b, bytes).k)
  <1>. DEFINE l == Parser!Locals(b)
              e == Parser!Execute(l, bytes)
              d == IF e.l.returned = "no" THEN Parser!Data(e.l) ELSE e.l
  <1>1. IsLocals(b, l)
    BY DEF Parser!Locals, IsLocals, Fed
  <1>. HIDE DEF l
  <1>2. IsLocals(b, e.l)
    BY <1>1, LocalsExecute
  <1>3. Parser!feed(b, bytes).k = b \/ Parser!feed(b, bytes).k = d.k
    BY DEF Parser!feed, l
  <1>. HIDE DEF e
  <1>4. IsLocals(b, d)
    BY <1>2, LocalsData
  <1>. HIDE DEF d
  <1>. QED  BY <1>3, <1>4 DEF IsLocals, Fed

-----------------------------------------------------------------------------
(* What a read leaves: the connection is over, its task cancelled, or it   *)
(* has a new task in the place of the one it had.                          *)
Over(b, c) ==
  /\ IsConn(c) /\ ~c.open /\ c.phase \in {"ended", "upgraded"}
  /\ Cancelled(b.timer, b.task_id, c.timer)

Renewed(b, c) ==
  /\ IsConn(c) /\ NoFile(c) /\ ~c.thrown
  /\ c.open /\ c.phase = "reading"
  /\ \E u : /\ Cancelled(b.timer, b.task_id, u)
            /\ c.timer = schedule(u, "k")
            /\ c.task_id = u.highest_id + 1

LEMMA DeadlineStarts ==
  ASSUME NEW b, NEW c, IsConn(c), NEW u, u = cancel(c.timer, c.task_id)
  PROVE  LET d == start_deadline(c) IN
         /\ IsConn(d) /\ d.res = c.res /\ d.thrown = c.thrown
         /\ d.open = c.open /\ d.phase = c.phase
         /\ d.timer = schedule(u, "k") /\ d.task_id = u.highest_id + 1
  <1>1. cancel_deadline_timer(c).timer = u
    BY DEF IsConn, ConnFields, cancel_deadline_timer
  <1>. DEFINE t == schedule(u, "k")
  <1>2. t.highest_id = u.highest_id + 1
    BY DEF schedule
  <1>3. start_deadline(c) = [c EXCEPT !.timer = t, !.task_id = t.highest_id]
    BY <1>1 DEF start_deadline
  <1>. HIDE DEF t
  <1>. QED  BY <1>2, <1>3 DEF IsConn, IsRes, ConnFields, t

LEMMA ErrorIsOver ==
  ASSUME NEW b, IsTimer(b.timer), NEW c, Fed(b, c)
  PROVE  Over(b, ReadError(c))
  <1>. DEFINE d == cancel_deadline_timer(c)
              e == done(d)
              f == [e EXCEPT !.open = FALSE]
  <1>1. Stopped(b, d)
    BY CancelStops
  <1>. HIDE DEF d
  <1>2. Stopped(b, e)
    <2>1. Same(d, e) /\ NoFile(e)
      BY <1>1, SameDone DEF Stopped, NoFile
    <2>. QED  BY <1>1, <2>1, FedSame
  <1>. HIDE DEF e
  <1>3. Stopped(b, f) /\ ~f.open
    BY <1>2 DEF Stopped, NoFile, IsConn, IsRes, ConnFields
  <1>4. ReadError(c) = End(f)
    BY DEF ReadError, d, e
  <1>. HIDE DEF f
  <1>. QED  BY <1>3, <1>4 DEF End, Over, Stopped, IsConn, IsRes, ConnFields

LEMMA ReadDoneOverOrRenewed ==
  ASSUME NEW b, IsTimer(b.timer), NEW c, Fed(b, c), NEW ok
  PROVE  Over(b, ReadDone(c, ok)) \/ Renewed(b, ReadDone(c, ok))
  <1>1. CASE c.thrown
    <2>1. ReadDone(c, ok) = [End(c) EXCEPT !.open = FALSE]
      BY <1>1 DEF ReadDone
    <2>2. Stopped(b, c)
      BY <1>1 DEF Fed, Running
    <2>. QED  BY <2>1, <2>2
              DEF End, Over, Stopped, IsConn, IsRes, ConnFields
  <1>2. CASE ~c.thrown /\ (~ok \/ ~c.open)
    <2>1. ReadDone(c, ok) = ReadError(c)
      BY <1>2 DEF ReadDone
    <2>. QED  BY <2>1, ErrorIsOver
  <1>3. CASE ~c.thrown /\ ok /\ c.open /\ c.close_connection
    <2>. DEFINE d == cancel_deadline_timer(c)
                e == done(d)
    <2>1. Stopped(b, d)
      BY CancelStops
    <2>2. ReadDone(c, ok) = [End(e) EXCEPT !.open = FALSE]
      BY <1>3 DEF ReadDone
    <2>. HIDE DEF d
    <2>3. Same(d, e) /\ NoFile(e)
      BY <2>1, SameDone DEF Stopped, NoFile
    <2>4. Stopped(b, e)
      BY <2>1, <2>3, FedSame
    <2>. HIDE DEF e
    <2>. QED  BY <2>2, <2>4
              DEF End, Over, Stopped, IsConn, IsRes, ConnFields
  <1>4. CASE ~c.thrown /\ ok /\ c.open /\ ~c.close_connection
    <2>1. ReadDone(c, ok) = start_deadline(c)
      BY <1>4 DEF ReadDone
    <2>. DEFINE u == cancel(c.timer, c.task_id)
    <2>2. IsConn(c) /\ NoFile(c) /\ c.phase = "reading"
      BY <1>4 DEF Fed, Running, Stopped
    <2>3. Cancelled(b.timer, b.task_id, u)
      BY CancelCancels, CancelAgain DEF Fed, Running, Stopped
    <2>. HIDE DEF u
    <2>4. LET d == start_deadline(c) IN
          /\ IsConn(d) /\ d.res = c.res /\ d.thrown = c.thrown
          /\ d.open = c.open /\ d.phase = c.phase
          /\ d.timer = schedule(u, "k") /\ d.task_id = u.highest_id + 1
      BY <2>2, DeadlineStarts DEF u
    <2>5. Renewed(b, start_deadline(c))
      BY <1>4, <2>2, <2>3, <2>4 DEF Renewed, NoFile
    <2>. QED  BY <2>1, <2>5
  <1>. QED  BY <1>1, <1>2, <1>3, <1>4

-----------------------------------------------------------------------------
(* Whose the tasks of a timer are after it has lost one and got one.       *)
LEMMA OwnersOwn ==
  ASSUME NEW t, NEW w
  PROVE  w \in Owners(t) <=> Own(t, w) # {}
  BY DEF Owners, Own

LEMMA OwnCancelled ==
  ASSUME NEW t, NEW id, NEW u, Cancelled(t, id, u), NEW w
  PROVE  Own(u, w) = Own(t, w) \ {id}
  BY DEF Cancelled, Own

LEMMA OwnScheduled ==
  ASSUME NEW u, IsTimer(u), NEW w \in Owner
  PROVE  /\ IsTimer(schedule(u, w))
         /\ schedule(u, w).highest_id = u.highest_id + 1
         /\ Own(schedule(u, w), w) = Own(u, w) \union {u.highest_id + 1}
         /\ \A v \in Owner \ {w} : Own(schedule(u, w), v) = Own(u, v)
  <1>. DEFINE n == u.highest_id + 1
              s == schedule(u, w)
              new == [owner |-> w, left |-> Timeout]
  <1>1. /\ DOMAIN s = {"tasks", "highest_id"}
        /\ s.highest_id = n
        /\ DOMAIN s.tasks = DOMAIN u.tasks \union {n}
        /\ \A i \in DOMAIN s.tasks :
             s.tasks[i] = IF i = n THEN new ELSE u.tasks[i]
    BY DEF schedule
  <1>2. new \in Task /\ new.owner = w
    BY HttpAssumption DEF Task
  <1>3. n \in Nat /\ n \notin DOMAIN u.tasks
    BY DEF IsTimer
  <1>. HIDE DEF s, new
  <1>4. IsTimer(s)
    BY <1>1, <1>2, <1>3 DEF IsTimer
  <1>. HIDE DEF n
  <1>5. /\ Own(s, w) = Own(u, w) \union {n}
        /\ \A v \in Owner \ {w} : Own(s, v) = Own(u, v)
    BY <1>1, <1>2, <1>3 DEF Own
  <1>. QED  BY <1>1, <1>4, <1>5 DEF s, n

(* The same, and whose task has been lost without being run, for a         *)
(* connection w that gives up its id, and may be given another one.        *)
LEMMA RobbedByCancel ==
  ASSUME NEW t, IsTimer(t), NEW id, NEW u, Cancelled(t, id, u),
         NEW w \in Owner, NEW v \in Owner, v # w, Own(t, w) \subseteq {id},
         NEW r, r \subseteq Owner,
         NEW q, q = (r \union (Owners(t) \ {w})) \ Owners(u)
  PROVE  /\ IsTimer(u) /\ q \subseteq Owner
         /\ Own(u, w) = {} /\ Own(u, v) = Own(t, v) \ {id}
         /\ v \in q <=> (v \in r \/ Own(t, v) # {}) /\ Own(u, v) = {}
         /\ w \in q <=> w \in r
  <1>1. IsTimer(u)
    BY CancelledIsTimer
  <1>2. Own(u, w) = Own(t, w) \ {id} /\ Own(u, v) = Own(t, v) \ {id}
    BY OwnCancelled
  <1>3. \A x : /\ x \in Owners(t) <=> Own(t, x) # {}
               /\ x \in Owners(u) <=> Own(u, x) # {}
    BY OwnersOwn
  <1>4. Owners(t) \subseteq Owner
    BY DEF Owners, IsTimer, Task
  <1>. QED  BY <1>1, <1>2, <1>3, <1>4

LEMMA RobbedByRenewal ==
  ASSUME NEW t, IsTimer(t), NEW id, NEW u, Cancelled(t, id, u),
         NEW w \in Owner, NEW v \in Owner, v # w, Own(t, w) \subseteq {id},
         NEW r, r \subseteq Owner, NEW s, s = schedule(u, w),
         NEW q, q = (r \union (Owners(t) \ {w})) \ Owners(s)
  PROVE  /\ IsTimer(s) /\ q \subseteq Owner
         /\ Own(s, w) = {u.highest_id + 1} /\ Own(s, v) = Own(t, v) \ {id}
         /\ v \in q <=> (v \in r \/ Own(t, v) # {}) /\ Own(s, v) = {}
         /\ w \notin q
  <1>1. IsTimer(u)
    BY CancelledIsTimer
  <1>2. Own(u, w) = Own(t, w) \ {id} /\ Own(u, v) = Own(t, v) \ {id}
    BY OwnCancelled
  <1>3. /\ IsTimer(s)
        /\ Own(s, w) = Own(u, w) \union {u.highest_id + 1}
        /\ Own(s, v) = Own(u, v)
    BY <1>1, OwnScheduled
  <1>4. \A x : /\ x \in Owners(t) <=> Own(t, x) # {}
               /\ x \in Owners(s) <=> Own(s, x) # {}
    BY OwnersOwn
  <1>5. Owners(t) \subseteq Owner
    BY DEF Owners, IsTimer, Task
  <1>. QED  BY <1>2, <1>3, <1>4, <1>5

-----------------------------------------------------------------------------
(* The bytes of a script.                                                  *)
FlattenStep(seqs, f, i) == IF i = 1 THEN seqs[i] ELSE f[i - 1] \o seqs[i]

LEMMA FlattenExists ==
  ASSUME NEW seqs, NEW n \in Nat
  PROVE  \E f : f = [i \in 1 .. n |-> FlattenStep(seqs, f, i)]
  <1>. DEFINE Solves(f, m) == f = [i \in 1 .. m |-> FlattenStep(seqs, f, i)]
              T == {m \in Nat : \E f : Solves(f, m)}
  <1>1. 0 \in T
    <2>1. Solves([i \in 1 .. 0 |-> seqs], 0)
      OBVIOUS
    <2>. HIDE DEF Solves
    <2>. QED  BY <2>1
  <1>2. ASSUME NEW m \in T
        PROVE  m + 1 \in T
    <2>1. PICK f : Solves(f, m)
      OBVIOUS
    <2>. DEFINE g == [i \in 1 .. m + 1 |-> IF i =< m THEN f[i]
                                           ELSE FlattenStep(seqs, f, i)]
    <2>2. \A i \in 1 .. m + 1 : FlattenStep(seqs, g, i) =
                                FlattenStep(seqs, f, i)
      BY DEF FlattenStep
    <2>3. \A i \in 1 .. m : f[i] = FlattenStep(seqs, f, i)
      BY <2>1
    <2>4. Solves(g, m + 1)
      BY <2>2, <2>3
    <2>5. \E h : Solves(h, m + 1)
      <3>. HIDE DEF g, Solves
      <3>. QED  BY <2>4
    <2>. HIDE DEF Solves
    <2>. QED  BY <2>5
  <1>3. T \subseteq Nat
    OBVIOUS
  <1>4. T = Nat
    <2>. HIDE DEF T
    <2>. QED  BY <1>1, <1>2, <1>3, SetInduction
  <1>. QED  BY <1>4

LEMMA FlattenIsSeq ==
  ASSUME NEW S, NEW seqs \in Seq(Seq(S))
  PROVE  FlattenSeq(seqs) \in Seq(S)
  <1>. DEFINE n == Len(seqs)
              f == CHOOSE g : g = [i \in 1 .. n |-> FlattenStep(seqs, g, i)]
              T == {i \in Nat : i \in 1 .. n => f[i] \in Seq(S)}
  <1>1. n \in Nat /\ \A i \in 1 .. n : seqs[i] \in Seq(S)
    OBVIOUS
  <1>2. FlattenSeq(seqs) = IF n = 0 THEN seqs ELSE f[n]
    BY DEF FlattenSeq, FlattenStep
  <1>3. n = 0 => seqs = <<>>
    OBVIOUS
  <1>. HIDE DEF n
  <1>4. f = [i \in 1 .. n |-> FlattenStep(seqs, f, i)]
    BY <1>1, FlattenExists
  <1>. HIDE DEF f
  <1>5. \A i \in 1 .. n : f[i] = FlattenStep(seqs, f, i)
    BY <1>4
  <1>6. 0 \in T
    OBVIOUS
  <1>7. ASSUME NEW i \in T
        PROVE  i + 1 \in T
    <2>. SUFFICES ASSUME i + 1 \in 1 .. n
                  PROVE  f[i + 1] \in Seq(S)
      OBVIOUS
    <2>1. CASE i = 0
      BY <1>1, <1>5, <2>1 DEF FlattenStep
    <2>2. CASE i # 0
      <3>1. i \in 1 .. n /\ (i + 1) - 1 = i /\ i + 1 # 1
        BY <1>1, <2>2
      <3>2. f[i] \in Seq(S) /\ seqs[i + 1] \in Seq(S)
        BY <1>1, <3>1
      <3>3. f[i + 1] = f[i] \o seqs[i + 1]
        BY <1>5, <3>1 DEF FlattenStep
      <3>. QED  BY <3>2, <3>3
    <2>. QED  BY <2>1, <2>2
  <1>8. T = Nat
    <2>1. T \subseteq Nat
      OBVIOUS
    <2>. HIDE DEF T
    <2>. QED  BY <1>6, <1>7, <2>1, SetInduction
  <1>9. n # 0 => f[n] \in Seq(S)
    BY <1>1, <1>8
  <1>. QED  BY <1>2, <1>3, <1>9

LEMMA LiteralsAreOctets ==
  /\ SP \in Octet /\ CR \in Octet /\ LF \in Octet /\ "." \in Octet
  /\ "/" \in Octet /\ "0" \in Octet /\ "00-continue" \in Octet
  /\ "1" \in Octet /\ "2" \in Octet /\ ":" \in Octet /\ "?" \in Octet
  /\ "C" \in Octet /\ "EAD" \in Octet /\ "ET" \in Octet
  /\ "G" \in Octet /\ "H" \in Octet /\ "O" \in Octet
  /\ "ONNECT" \in Octet /\ "OST" \in Octet /\ "OURCE" \in Octet
  /\ "P" \in Octet /\ "PTIONS" \in Octet /\ "S" \in Octet
  /\ "TTP" \in Octet /\ "UT" \in Octet /\ "c" \in Octet
  /\ "e" \in Octet /\ "eep-alive" \in Octet /\ "h" \in Octet
  /\ "hunked" \in Octet /\ "k" \in Octet /\ "lose" \in Octet
  /\ "onnection" \in Octet /\ "ontent-length" \in Octet
  /\ "ost" \in Octet /\ "pgrade" \in Octet /\ "q" \in Octet
  /\ "ransfer-encoding" \in Octet /\ "t" \in Octet /\ "u" \in Octet
  /\ "x" \in Octet /\ "xpect" \in Octet
  BY DEF Octet

LEMMA StringsAreOctets ==
  ASSUME NEW s \in Seq(STRING)
  PROVE  s \in Seq(Octet)
  <1>. DEFINE n == Len(s)
  <1>1. n \in Nat /\ s \in [1 .. n -> STRING]
    OBVIOUS
  <1>2. STRING \subseteq Octet
    BY DEF Octet
  <1>. HIDE DEF n
  <1>3. s \in [1 .. n -> Octet]
    BY <1>1, <1>2
  <1>. QED  BY <1>1, <1>3

LEMMA BytesAreOctets ==
  ASSUME NEW r \in Request
  PROVE  Bytes(r) \in Seq(Octet)
  <1>. DEFINE Str == Seq(Octet)
  <1>1. \A a, b \in Str : a \o b \in Str
    OBVIOUS
  <1>2. ASSUME NEW a \in Str, NEW b \in Str
        PROVE  Field(a, b) \in Str
    <2>1. <<":", SP>> \in Str /\ <<CR, LF>> \in Str
      BY LiteralsAreOctets
    <2>. HIDE DEF Str
    <2>. QED  BY <1>1, <2>1 DEF Field
  <1>3. Target(r) \in Str
    <2>1. r.url \in Str
      BY StringsAreOctets DEF Request
    <2>2. <<"?", "q">> \in Str /\ <<>> \in Str
      BY LiteralsAreOctets
    <2>. HIDE DEF Str
    <2>. QED  BY <1>1, <2>1, <2>2 DEF Target
  <1>4. Method[r.method] \in Str
    <2>1. /\ <<"G", "ET">> \in Str /\ <<"H", "EAD">> \in Str
          /\ <<"P", "UT">> \in Str /\ <<"P", "OST">> \in Str
          /\ <<"O", "PTIONS">> \in Str /\ <<"C", "ONNECT">> \in Str
          /\ <<"S", "OURCE">> \in Str
      BY LiteralsAreOctets
    <2>. HIDE DEF Str
    <2>2. \A m \in DOMAIN Method : Method[m] \in Str
      BY <2>1 DEF Method
    <2>3. r.method \in DOMAIN Method
      BY DEF Request
    <2>. QED  BY <2>2, <2>3
  <1>. DEFINE line == <<SP, "H", "TTP", "/", "1", ".", r.minor, CR, LF>>
              host == IF r.host THEN Field(<<"h", "ost">>, <<"x">>) ELSE <<>>
              connection ==
                CASE r.connection = "none" -> <<>>
                  [] r.connection = "close" ->
                       Field(<<"c", "onnection">>, <<"c", "lose">>)
                  [] r.connection = "keep-alive" ->
                       Field(<<"c", "onnection">>, <<"k", "eep-alive">>)
              upgrade == IF r.upgrade = <<>> THEN <<>>
                         ELSE Field(<<"u", "pgrade">>, r.upgrade)
              expect == IF r.expect
                        THEN Field(<<"e", "xpect">>, <<"1", "00-continue">>)
                        ELSE <<>>
              body ==
                CASE r.body = "none" -> <<CR, LF>>
                  [] r.body = "length" ->
                       Field(<<"c", "ontent-length">>, <<"2">>)
                       \o <<CR, LF, "x", "x">>
                  [] r.body = "chunked" ->
                       Field(<<"t", "ransfer-encoding">>, <<"c", "hunked">>)
                       \o <<CR, LF, "1", CR, LF, "x", CR, LF, "0", CR, LF,
                            CR, LF>>
  <1>5. line \in Str /\ <<SP>> \in Str /\ <<>> \in Str
    <2>1. r.minor \in Octet
      BY LiteralsAreOctets DEF Request
    <2>. QED  BY <2>1, LiteralsAreOctets
  <1>6. /\ <<"h", "ost">> \in Str /\ <<"x">> \in Str
        /\ <<"c", "onnection">> \in Str /\ <<"c", "lose">> \in Str
        /\ <<"k", "eep-alive">> \in Str /\ <<"u", "pgrade">> \in Str
        /\ <<"e", "xpect">> \in Str /\ <<"1", "00-continue">> \in Str
        /\ <<"c", "ontent-length">> \in Str /\ <<"2">> \in Str
        /\ <<"t", "ransfer-encoding">> \in Str
        /\ <<"c", "hunked">> \in Str
    BY LiteralsAreOctets
  <1>7. /\ <<CR, LF>> \in Str /\ <<CR, LF, "x", "x">> \in Str
        /\ <<CR, LF, "1", CR, LF, "x", CR, LF, "0", CR, LF, CR, LF>> \in Str
    BY LiteralsAreOctets
  <1>8. r.upgrade \in Str
    BY StringsAreOctets DEF Request
  <1>9. /\ r.connection \in {"none", "close", "keep-alive"}
        /\ r.body \in {"none", "length", "chunked"}
    BY DEF Request
  <1>10. Bytes(r) = Method[r.method] \o <<SP>> \o Target(r) \o line \o host
                    \o connection \o upgrade \o expect \o body
    BY Zenon DEF Bytes
  <1>. HIDE DEF Str, line
  <1>11. host \in Str
    BY <1>2, <1>5, <1>6
  <1>12. connection \in Str
    BY <1>2, <1>5, <1>6, <1>9
  <1>13. upgrade \in Str
    BY <1>2, <1>5, <1>6, <1>8
  <1>14. expect \in Str
    BY <1>2, <1>5, <1>6
  <1>15. body \in Str
    BY <1>1, <1>2, <1>6, <1>7, <1>9
  <1>. HIDE DEF host, connection, upgrade, expect, body
  <1>16. Bytes(r) \in Str
    <2>1. Method[r.method] \o <<SP>> \o Target(r) \o line \in Str
      BY <1>1, <1>3, <1>4, <1>5
    <2>. DEFINE x == Method[r.method] \o <<SP>> \o Target(r) \o line
    <2>2. Bytes(r) = x \o host \o connection \o upgrade \o expect \o body
      BY <1>10, Zenon
    <2>. HIDE DEF x
    <2>3. x \o host \o connection \in Str
      BY <1>1, <1>11, <1>12, <2>1 DEF x
    <2>. DEFINE y == x \o host \o connection
    <2>4. Bytes(r) = y \o upgrade \o expect \o body
      BY <2>2, Zenon
    <2>. HIDE DEF y
    <2>5. y \o upgrade \o expect \in Str
      BY <1>1, <1>13, <1>14, <2>3 DEF y
    <2>. QED  BY <1>1, <1>15, <2>4, <2>5
  <1>. QED  BY <1>16 DEF Str

LEMMA ScriptIsSequence ==
  ASSUME NEW s \in Scripts
  PROVE  AllBytes(s.requests) \in Seq(Octet)
  <1>1. s.requests \in Seq(Request)
    BY HttpAssumption
  <1>. DEFINE q == [i \in DOMAIN s.requests |-> Bytes(s.requests[i])]
  <1>2. q \in Seq(Seq(Octet))
    <2>. DEFINE n == Len(s.requests)
    <2>1. /\ n \in Nat /\ DOMAIN s.requests = 1 .. n
          /\ \A i \in 1 .. n : s.requests[i] \in Request
      BY <1>1
    <2>. HIDE DEF n
    <2>2. \A i \in 1 .. n : q[i] \in Seq(Octet)
      BY <2>1, BytesAreOctets
    <2>3. q \in [1 .. n -> Seq(Octet)]
      BY <2>1, <2>2
    <2>. HIDE DEF q
    <2>. QED  BY <2>1, <2>3
  <1>. QED  BY <1>2, FlattenIsSeq DEF AllBytes

-----------------------------------------------------------------------------
(* The invariant, one kind of step after the other.                        *)
LEMMA GuardedOwn ==
  Guarded <=> Own(k.timer, "k") =
                IF k.phase = "reading" /\ k.open /\ "k" \notin robbed
                THEN {k.task_id} ELSE {}
  BY DEF Guarded, Own

(* A step of the connection that leaves it over or with a new task.        *)
ConnectionStep ==
  /\ Over(k, k') \/ Renewed(k, k')
  /\ robbed' = Robbed("k", k.timer, k'.timer)
  /\ other' = other

LEMMA ConnectionSteps ==
  ASSUME HttpInv, k.phase \in {"accepted", "reading"}, ConnectionStep
  PROVE  /\ IsConn(k') /\ IsTimer(k'.timer) /\ robbed' \subseteq Owner
         /\ k'.phase \in {"reading", "ended", "upgraded"}
         /\ k'.phase = "reading" => ~k'.thrown /\ k'.res.file = <<>>
         /\ k'.phase \in {"ended", "upgraded"} => ~k'.open
         /\ Guarded' /\ OtherGuarded'
         /\ "other" \in robbed' \ robbed => ~k.open \/ "k" \in robbed
         /\ "k" \notin robbed' \ robbed
  <1>. DEFINE t == k.timer
              w == "k"
              v == "other"
  <1>0. k.phase \in {"accepted", "reading"}
    OBVIOUS
  <1>1. /\ IsTimer(t) /\ robbed \subseteq Owner
        /\ w \in Owner /\ v \in Owner /\ v # w
    BY DEF HttpInv, HttpTypeOK, Owner
  <1>2. Own(t, w) = IF k.phase = "reading" /\ k.open /\ w \notin robbed
                    THEN {k.task_id} ELSE {}
    BY GuardedOwn DEF HttpInv
  <1>3. Own(t, v) = IF other.phase = "reading" /\ other.open
                       /\ v \notin robbed
                    THEN {other.task_id} ELSE {}
    BY DEF HttpInv, OtherGuarded
  <1>4. Own(t, w) \subseteq {k.task_id}
    BY <1>2
  <1>5. robbed' = (robbed \union (Owners(t) \ {w})) \ Owners(k'.timer)
    BY DEF ConnectionStep, Robbed
  <1>6. k.phase = "accepted" => k.task_id \notin Own(t, v)
    BY <1>1 DEF HttpInv, AtRest, IsTimer, Own
  <1>7. Guarded' <=> Own(k'.timer, w) =
                       IF k'.phase = "reading" /\ k'.open /\ w \notin robbed'
                       THEN {k'.task_id} ELSE {}
    BY DEF Guarded, Own
  <1>10. OtherGuarded' <=> Own(k'.timer, v) =
                            IF other.phase = "reading" /\ other.open
                               /\ v \notin robbed'
                            THEN {other.task_id} ELSE {}
    BY DEF OtherGuarded, ConnectionStep
  <1>11. Own(t, w) \cap Own(t, v) = {}
    BY DEF Own
  <1>8. CASE Over(k, k')
    <2>1. /\ IsTimer(k'.timer) /\ robbed' \subseteq Owner
          /\ Own(k'.timer, w) = {}
          /\ Own(k'.timer, v) = Own(t, v) \ {k.task_id}
          /\ v \in robbed' <=> (v \in robbed \/ Own(t, v) # {})
                               /\ Own(k'.timer, v) = {}
          /\ w \in robbed' <=> w \in robbed
      BY <1>1, <1>4, <1>5, <1>8, RobbedByCancel DEF Over
    <2>3. Guarded'
      BY <1>7, <1>8, <2>1 DEF Over
    <2>4. OtherGuarded'
      BY <1>3, <1>10, <2>1
    <2>5. /\ v \in robbed' \ robbed => ~k.open \/ w \in robbed
          /\ w \notin robbed' \ robbed
      BY <1>2, <1>3, <1>6, <2>1, <1>0, <1>11
    <2>. QED  BY <1>8, <2>1, <2>3, <2>4, <2>5 DEF Over
  <1>9. CASE Renewed(k, k')
    <2>1. PICK u : /\ Cancelled(k.timer, k.task_id, u)
                   /\ k'.timer = schedule(u, "k")
                   /\ k'.task_id = u.highest_id + 1
      BY <1>9 DEF Renewed
    <2>2. /\ IsTimer(k'.timer) /\ robbed' \subseteq Owner
          /\ Own(k'.timer, w) = {k'.task_id}
          /\ Own(k'.timer, v) = Own(t, v) \ {k.task_id}
          /\ v \in robbed' <=> (v \in robbed \/ Own(t, v) # {})
                               /\ Own(k'.timer, v) = {}
          /\ w \notin robbed'
      BY <1>1, <1>4, <1>5, <2>1, RobbedByRenewal
    <2>3. Guarded'
      BY <1>7, <1>9, <2>2 DEF Renewed, NoFile
    <2>4. OtherGuarded'
      BY <1>3, <1>10, <2>2
    <2>5. /\ v \in robbed' \ robbed => ~k.open \/ w \in robbed
          /\ w \notin robbed' \ robbed
      BY <1>2, <1>3, <1>6, <2>2, <1>0, <1>11
    <2>. QED  BY <1>9, <2>2, <2>3, <2>4, <2>5 DEF Renewed, NoFile
  <1>. QED  BY <1>8, <1>9 DEF ConnectionStep

(* Start and the handlers of do_read are such steps.                       *)
LEMMA HandledIsStep ==
  ASSUME HttpInv, k.phase = "reading", NEW bytes \in Seq(Octet),
         Handled(bytes), other' = other
  PROVE  ConnectionStep
  <1>1. PICK x :
          LET b == [k EXCEPT !.reset = x]
              fed == Parser!feed(b, bytes)
          IN  k' = [ReadDone(fed.k, fed.ok) EXCEPT !.reset = "no"]
    BY DEF Handled
  <1>. DEFINE b == [k EXCEPT !.reset = x]
              fed == Parser!feed(b, bytes)
              d == ReadDone(fed.k, fed.ok)
  <1>2. /\ Running(b, b) /\ IsTimer(b.timer)
        /\ b.timer = k.timer /\ b.task_id = k.task_id
    BY DEF HttpInv, HttpTypeOK, AtRest, Running, NoFile, IsConn, IsRes,
           ConnFields
  <1>. HIDE DEF b
  <1>3. Fed(b, fed.k)
    BY <1>2, FedByFeed
  <1>. HIDE DEF fed
  <1>4. Over(b, d) \/ Renewed(b, d)
    BY <1>2, <1>3, ReadDoneOverOrRenewed
  <1>. HIDE DEF d
  <1>5. k' = [d EXCEPT !.reset = "no"]
    BY <1>1 DEF b, fed, d
  <1>6. Over(k, k') \/ Renewed(k, k')
    BY <1>2, <1>4, <1>5
       DEF Over, Renewed, NoFile, IsConn, IsRes, ConnFields
  <1>. QED  BY <1>6 DEF ConnectionStep, Handled

LEMMA StartIsStep ==
  ASSUME HttpInv, Start
  PROVE  ConnectionStep
  <1>. DEFINE u == cancel(k.timer, k.task_id)
              d == start_deadline(k)
              e == [d EXCEPT !.phase = "reading"]
  <1>1. /\ IsConn(k) /\ IsTimer(k.timer) /\ k.open /\ ~k.thrown /\ NoFile(k)
    BY DEF HttpInv, HttpTypeOK, AtRest, Start, NoFile
  <1>2. Cancelled(k.timer, k.task_id, u)
    BY <1>1, CancelCancels
  <1>3. /\ IsConn(d) /\ d.res = k.res /\ d.thrown = k.thrown
        /\ d.open = k.open
        /\ d.timer = schedule(u, "k") /\ d.task_id = u.highest_id + 1
    BY <1>1, DeadlineStarts
  <1>. HIDE DEF d, u
  <1>4. Renewed(k, e)
    BY <1>1, <1>2, <1>3 DEF Renewed, NoFile, IsConn, IsRes, ConnFields
  <1>5. k' = clear(e)
    BY DEF Start, d, e
  <1>. HIDE DEF e
  <1>6. Same(e, clear(e)) /\ clear(e).res = e.res
    BY <1>4, SameClear DEF Renewed
  <1>7. clear(e).open = e.open
    BY <1>4 DEF clear, Renewed, IsConn, ConnFields
  <1>8. Renewed(k, k')
    BY <1>4, <1>5, <1>6, <1>7 DEF Renewed, Same, NoFile
  <1>. QED  BY <1>8 DEF ConnectionStep, Start

LEMMA ReadFailsIsStep ==
  ASSUME HttpInv, ReadFails
  PROVE  ConnectionStep
  <1>1. Fed(k, k) /\ IsTimer(k.timer)
    BY DEF HttpInv, HttpTypeOK, AtRest, ReadFails, Fed, Running, NoFile
  <1>. QED  BY <1>1, ErrorIsOver DEF ConnectionStep, ReadFails

(* The ticks of the timer.                                                 *)
LEMMA OwnTick ==
  ASSUME NEW t, IsTimer(t)
  PROVE  LET u == process_tasks(t) IN
         /\ IsTimer(u)
         /\ \A w : Own(u, w) = Own(t, w) \ Due(t)
  <1>. DEFINE u == process_tasks(t)
              left == DOMAIN t.tasks \ Due(t)
  <1>1. /\ DOMAIN u = {"tasks", "highest_id"}
        /\ u.highest_id = IF left = {} THEN 0 ELSE t.highest_id
        /\ DOMAIN u.tasks = left
        /\ \A i \in left :
             u.tasks[i] = [t.tasks[i] EXCEPT !.left = t.tasks[i].left - 1]
    BY DEF process_tasks
  <1>2. ASSUME NEW i \in left
        PROVE  u.tasks[i] \in Task /\ u.tasks[i].owner = t.tasks[i].owner
    <2>. DEFINE a == t.tasks[i]
    <2>1. a \in [owner : Owner, left : Nat] /\ a.left # 0
      BY DEF IsTimer, Task, Due
    <2>. HIDE DEF a
    <2>2. [a EXCEPT !.left = a.left - 1] \in [owner : Owner, left : Nat]
      BY <2>1
    <2>3. [a EXCEPT !.left = a.left - 1].owner = a.owner
      BY <2>1
    <2>. QED  BY <1>1, <2>2, <2>3 DEF a, Task
  <1>. HIDE DEF u
  <1>3. IsTimer(u)
    BY <1>1, <1>2 DEF IsTimer
  <1>4. \A w : Own(u, w) = Own(t, w) \ Due(t)
    BY <1>1, <1>2 DEF Own
  <1>. QED  BY <1>3, <1>4 DEF u

LEMMA TickKeeps ==
  ASSUME HttpInv, Tick
  PROVE  HttpInv'
  <1>. DEFINE t == k.timer
              due == {t.tasks[i].owner : i \in Due(t)}
  <1>1. IsConn(k) /\ IsTimer(t) /\ HttpTypeOK
    BY DEF HttpInv, HttpTypeOK
  <1>2. /\ k' = [k EXCEPT !.timer = process_tasks(t),
                          !.open = @ /\ "k" \notin due]
        /\ other' = [other EXCEPT !.open = @ /\ "other" \notin due]
        /\ chunk' \in InFlight("k" \in due)
        /\ stream' = IF "k" \in due THEN <<>> ELSE stream
    BY DEF Tick
  <1>0. robbed' = robbed /\ peer' = peer
    BY DEF Tick
  <1>3. IsTimer(process_tasks(t))
        /\ \A w : Own(process_tasks(t), w) = Own(t, w) \ Due(t)
    BY <1>1, OwnTick
  <1>4. \A w : w \in due <=> Own(t, w) \cap Due(t) # {}
    BY DEF Own, Due
  <1>. HIDE DEF due
  <1>5. /\ IsConn(k') /\ k'.timer = process_tasks(t)
        /\ (k'.open <=> k.open /\ "k" \notin due)
        /\ k'.phase = k.phase /\ k'.task_id = k.task_id
        /\ k'.thrown = k.thrown /\ k'.res = k.res
    BY <1>1, <1>2 DEF IsConn, IsRes, ConnFields
  <1>6. /\ other' \in [phase : {"none", "reading"}, open : BOOLEAN,
                       task_id : Nat]
        /\ (other'.open <=> other.open /\ "other" \notin due)
        /\ other'.phase = other.phase /\ other'.task_id = other.task_id
    BY <1>1, <1>2 DEF HttpTypeOK
  <1>7. /\ chunk' \in Seq(Octet) /\ stream' \in Seq(Octet)
        /\ chunk' # chunk => "k" \in due /\ k.phase = "reading"
    BY <1>1, <1>2 DEF HttpTypeOK, InFlight
  <1>8. HttpTypeOK'
    <2>1. IsConn(k') /\ IsTimer(k'.timer)
      BY <1>3, <1>5
    <2>2. /\ k'.phase \in {"accepted", "reading", "ended", "upgraded"}
          /\ robbed' \subseteq Owner
      BY <1>0, <1>1, <1>5 DEF HttpTypeOK
    <2>. QED  BY <1>6, <1>7, <2>1, <2>2 DEF HttpTypeOK
  <1>9. Own(t, "k") = IF k.phase = "reading" /\ k.open /\ "k" \notin robbed
                      THEN {k.task_id} ELSE {}
    BY GuardedOwn DEF HttpInv
  <1>10. Guarded'
    <2>1. Own(k'.timer, "k") =
            IF k'.phase = "reading" /\ k'.open /\ "k" \notin robbed'
            THEN {k'.task_id} ELSE {}
      <3>1. Own(k'.timer, "k") = Own(t, "k") \ Due(t)
        BY <1>3, <1>5
      <3>2. "k" \in due <=> Own(t, "k") \cap Due(t) # {}
        BY <1>4
      <3>. HIDE DEF t
      <3>. QED  BY <1>0, <1>5, <1>9, <3>1, <3>2
    <2>. QED  BY <2>1 DEF Guarded, Own
  <1>11. OtherGuarded'
    <2>1. Own(t, "other") =
            IF other.phase = "reading" /\ other.open /\ "other" \notin robbed
            THEN {other.task_id} ELSE {}
      BY DEF HttpInv, OtherGuarded
    <2>2. Own(k'.timer, "other") =
            IF other'.phase = "reading" /\ other'.open
               /\ "other" \notin robbed'
            THEN {other'.task_id} ELSE {}
      <3>1. Own(k'.timer, "other") = Own(t, "other") \ Due(t)
        BY <1>3, <1>5
      <3>2. "other" \in due <=> Own(t, "other") \cap Due(t) # {}
        BY <1>4
      <3>. HIDE DEF t
      <3>. QED  BY <1>0, <1>6, <2>1, <3>1, <3>2
    <2>. QED  BY <2>2 DEF OtherGuarded
  <1>12. AtRest'
    <2>1. k.phase = "accepted" => "k" \notin due
      BY <1>4, <1>9
    <2>. QED  BY <1>0, <1>5, <1>6, <1>7, <2>1 DEF HttpInv, AtRest
  <1>. QED  BY <1>8, <1>10, <1>11, <1>12 DEF HttpInv


(* The steps of the other connection: its task goes, and another one may   *)
(* come.  Of the connection only the timer changes.                        *)
OtherAfter(id, u) ==
  /\ id = other.task_id \/ (id = 0 /\ other.phase = "none")
  /\ Cancelled(k.timer, id, u)
  /\ \/ /\ k'.timer = u
        /\ other' = [other EXCEPT !.phase = "none", !.open = FALSE]
     \/ /\ k'.timer = schedule(u, "other")
        /\ other' = [phase |-> "reading", open |-> TRUE,
                     task_id |-> u.highest_id + 1]

OtherStep ==
  /\ k' = [k EXCEPT !.timer = k'.timer]
  /\ robbed' = Robbed("other", k.timer, k'.timer)
  /\ UNCHANGED <<stream, peer, chunk>>
  /\ \E id, u : OtherAfter(id, u)

LEMMA OtherSteps ==
  ASSUME HttpInv, OtherStep
  PROVE  /\ HttpInv'
         /\ "k" \in robbed' \ robbed => ~other.open \/ "other" \in robbed
         /\ "other" \notin robbed' \ robbed
  <1>. DEFINE t == k.timer
              s == k'.timer
              w == "other"
              v == "k"
  <1>1. /\ IsConn(k) /\ IsTimer(t) /\ robbed \subseteq Owner
        /\ w \in Owner /\ v \in Owner /\ v # w
    BY DEF HttpInv, HttpTypeOK, Owner
  <1>2. other \in [phase : {"none", "reading"}, open : BOOLEAN, task_id : Nat]
    BY DEF HttpInv, HttpTypeOK
  <1>3. Own(t, v) = IF k.phase = "reading" /\ k.open /\ v \notin robbed
                    THEN {k.task_id} ELSE {}
    BY GuardedOwn DEF HttpInv
  <1>4. Own(t, w) = IF other.phase = "reading" /\ other.open
                       /\ w \notin robbed
                    THEN {other.task_id} ELSE {}
    BY DEF HttpInv, OtherGuarded
  <1>5. Own(t, w) \cap Own(t, v) = {} /\ 0 \notin Own(t, v)
    BY <1>1 DEF Own, IsTimer
  <1>0. PICK id, u : OtherAfter(id, u)
    BY DEF OtherStep
  <1>6. /\ id = other.task_id \/ (id = 0 /\ other.phase = "none")
        /\ Cancelled(t, id, u)
        /\ \/ /\ s = u
              /\ other' = [other EXCEPT !.phase = "none", !.open = FALSE]
           \/ /\ s = schedule(u, "other")
              /\ other' = [phase |-> "reading", open |-> TRUE,
                           task_id |-> u.highest_id + 1]
    BY <1>0 DEF OtherAfter
  <1>7. Own(t, w) \subseteq {id}
    BY <1>4, <1>6
  <1>8. robbed' = (robbed \union (Owners(t) \ {w})) \ Owners(s)
    BY DEF OtherStep, Robbed
  <1>9. /\ IsTimer(s) /\ robbed' \subseteq Owner
        /\ Own(s, v) = Own(t, v) \ {id}
        /\ v \in robbed' <=> (v \in robbed \/ Own(t, v) # {})
                             /\ Own(s, v) = {}
        /\ w \in robbed' => w \in robbed
        /\ other' \in [phase : {"none", "reading"}, open : BOOLEAN,
                       task_id : Nat]
        /\ Own(s, w) = IF other'.phase = "reading" /\ other'.open
                          /\ w \notin robbed'
                       THEN {other'.task_id} ELSE {}
        /\ other'.phase = "none" => ~other'.open
    <2>1. CASE /\ s = u
               /\ other' = [other EXCEPT !.phase = "none", !.open = FALSE]
      <3>1. /\ IsTimer(u) /\ robbed' \subseteq Owner
            /\ Own(u, w) = {} /\ Own(u, v) = Own(t, v) \ {id}
            /\ v \in robbed' <=> (v \in robbed \/ Own(t, v) # {})
                                 /\ Own(u, v) = {}
            /\ w \in robbed' <=> w \in robbed
        BY <1>1, <1>6, <1>7, <1>8, <2>1, RobbedByCancel
      <3>2. /\ other' \in [phase : {"none", "reading"}, open : BOOLEAN,
                           task_id : Nat]
            /\ other'.phase = "none" /\ ~other'.open
        BY <1>2, <2>1
      <3>. QED  BY <2>1, <3>1, <3>2
    <2>2. CASE /\ s = schedule(u, "other")
               /\ other' = [phase |-> "reading", open |-> TRUE,
                            task_id |-> u.highest_id + 1]
      <3>1. /\ IsTimer(s) /\ robbed' \subseteq Owner
            /\ Own(s, w) = {u.highest_id + 1} /\ Own(s, v) = Own(t, v) \ {id}
            /\ v \in robbed' <=> (v \in robbed \/ Own(t, v) # {})
                                 /\ Own(s, v) = {}
            /\ w \notin robbed'
        BY <1>1, <1>6, <1>7, <1>8, <2>2, RobbedByRenewal
      <3>2. u.highest_id + 1 \in Nat
        <4>1. IsTimer(u)
          BY <1>1, <1>6, CancelledIsTimer
        <4>. QED  BY <4>1 DEF IsTimer
      <3>3. /\ other' \in [phase : {"none", "reading"}, open : BOOLEAN,
                           task_id : Nat]
            /\ other'.phase = "reading" /\ other'.open
            /\ other'.task_id = u.highest_id + 1
        BY <2>2, <3>2
      <3>. QED  BY <3>1, <3>3
    <2>. QED  BY <1>6, <2>1, <2>2
  <1>10. /\ IsConn(k') /\ k'.open = k.open /\ k'.phase = k.phase
         /\ k'.task_id = k.task_id /\ k'.thrown = k.thrown /\ k'.res = k.res
    BY <1>1 DEF OtherStep, IsConn, IsRes, ConnFields
  <1>11. HttpTypeOK'
    BY <1>9, <1>10 DEF HttpInv, HttpTypeOK, OtherStep
  <1>12. Guarded'
    <2>1. Own(s, v) = IF k'.phase = "reading" /\ k'.open /\ v \notin robbed'
                      THEN {k'.task_id} ELSE {}
      <3>. HIDE DEF t, s
      <3>. QED  BY <1>3, <1>9, <1>10
    <2>. QED  BY <2>1 DEF Guarded, Own
  <1>13. OtherGuarded'
    BY <1>9 DEF OtherGuarded
  <1>14. AtRest'
    BY <1>9, <1>10 DEF HttpInv, AtRest, OtherStep
  <1>15. /\ v \in robbed' \ robbed => ~other.open \/ w \in robbed
         /\ w \notin robbed' \ robbed
    <2>1. other.phase # "reading" => ~other.open
      BY <1>2 DEF HttpInv, AtRest
    <2>2. w \in robbed' => w \in robbed
      BY <1>9
    <2>3. ASSUME v \in robbed' \ robbed, other.open, w \notin robbed
          PROVE  FALSE
      <3>1. Own(t, v) # {} /\ Own(s, v) = {} /\ Own(s, v) = Own(t, v) \ {id}
        BY <1>9, <2>3
      <3>2. Own(t, w) = {other.task_id}
        BY <1>4, <2>1, <2>3
      <3>3. id \in Own(t, v)
        BY <3>1
      <3>. QED  BY <1>5, <1>6, <3>2, <3>3
    <2>. QED  BY <2>2, <2>3
  <1>. QED  BY <1>11, <1>12, <1>13, <1>14, <1>15 DEF HttpInv

LEMMA OthersAreSteps ==
  ASSUME HttpInv, OtherStart \/ OtherRequest \/ OtherEnds
  PROVE  OtherStep
  <1>. DEFINE t == k.timer
  <1>1. /\ IsConn(k) /\ IsTimer(t)
        /\ other \in [phase : {"none", "reading"}, open : BOOLEAN,
                      task_id : Nat]
    BY DEF HttpInv, HttpTypeOK
  <1>2. \A x : /\ [k EXCEPT !.timer = x].timer = x
    BY <1>1 DEF IsConn, ConnFields
  <1>3. CASE OtherStart
    <2>1. Cancelled(t, 0, t)
      BY <1>1 DEF Cancelled, IsTimer
    <2>2. /\ schedule(t, "other").highest_id = t.highest_id + 1
          /\ other.phase = "none"
      BY <1>3 DEF schedule, OtherStart
    <2>3. /\ k' = [k EXCEPT !.timer = schedule(t, "other")]
          /\ k'.timer = schedule(t, "other")
          /\ robbed' = Robbed("other", t, schedule(t, "other"))
          /\ UNCHANGED <<stream, peer, chunk>>
          /\ other' = [phase |-> "reading", open |-> TRUE,
                       task_id |-> t.highest_id + 1]
      BY <1>2, <1>3, <2>2 DEF OtherStart
    <2>4. OtherAfter(0, t)
      BY <2>1, <2>2, <2>3 DEF OtherAfter
    <2>. QED  BY <2>2, <2>3, <2>4 DEF OtherStep
  <1>4. CASE OtherRequest
    <2>. DEFINE u == cancel(t, other.task_id)
    <2>1. Cancelled(t, other.task_id, u)
      BY <1>1, CancelCancels
    <2>2. /\ schedule(u, "other").highest_id = u.highest_id + 1
          /\ other.phase = "reading"
      BY <1>4 DEF schedule, OtherRequest
    <2>3. other.open /\ other' = [other EXCEPT !.task_id = u.highest_id + 1]
      BY <1>4, <2>2 DEF OtherRequest
    <2>. HIDE DEF u
    <2>4. other' = [phase |-> "reading", open |-> TRUE,
                    task_id |-> u.highest_id + 1]
      BY <1>1, <2>2, <2>3
    <2>5. /\ k' = [k EXCEPT !.timer = schedule(u, "other")]
          /\ k'.timer = schedule(u, "other")
          /\ robbed' = Robbed("other", t, schedule(u, "other"))
          /\ UNCHANGED <<stream, peer, chunk>>
      BY <1>2, <1>4 DEF OtherRequest, u
    <2>6. OtherAfter(other.task_id, u)
      BY <2>1, <2>4, <2>5 DEF OtherAfter
    <2>. QED  BY <2>5, <2>6 DEF OtherStep
  <1>5. CASE OtherEnds
    <2>. DEFINE u == cancel(t, other.task_id)
    <2>1. Cancelled(t, other.task_id, u)
      BY <1>1, CancelCancels
    <2>2. /\ k' = [k EXCEPT !.timer = u] /\ k'.timer = u
          /\ robbed' = Robbed("other", t, u)
          /\ UNCHANGED <<stream, peer, chunk>>
          /\ other.phase = "reading"
          /\ other' = [other EXCEPT !.phase = "none", !.open = FALSE]
      BY <1>2, <1>5 DEF OtherEnds
    <2>. HIDE DEF u
    <2>3. OtherAfter(other.task_id, u)
      BY <2>1, <2>2 DEF OtherAfter
    <2>. QED  BY <2>2, <2>3 DEF OtherStep
  <1>. QED  BY <1>3, <1>4, <1>5

(* The connection's own steps.                                             *)
LEMMA ConnectionKeeps ==
  ASSUME HttpInv, k.phase \in {"accepted", "reading"}, ConnectionStep,
         stream' \in Seq(Octet),
         chunk' = <<>>
  PROVE  HttpInv'
  <1>1. HttpTypeOK'
    BY ConnectionSteps DEF HttpInv, HttpTypeOK, ConnectionStep
  <1>2. AtRest'
    BY ConnectionSteps DEF HttpInv, AtRest, ConnectionStep
  <1>. QED  BY <1>1, <1>2, ConnectionSteps DEF HttpInv

LEMMA ConnectionActs ==
  ASSUME HttpInv, Start \/ Read \/ LateRead \/ ReadFails
  PROVE  /\ k.phase \in {"accepted", "reading"} /\ ConnectionStep
         /\ stream' \in Seq(Octet) /\ chunk' = <<>>
  <1>1. stream \in Seq(Octet) /\ chunk \in Seq(Octet)
    BY DEF HttpInv, HttpTypeOK
  <1>2. k.phase # "reading" \/ (k.open /\ peer # "reset") => chunk = <<>>
    BY DEF HttpInv, AtRest
  <1>3. CASE Start
    BY <1>1, <1>2, <1>3, StartIsStep DEF Start
  <1>4. CASE Read
    <2>1. k.phase = "reading" /\ k.open /\ peer # "reset"
          /\ chunk' = chunk /\ other' = other
      BY <1>4 DEF Read
    <2>2. PICK n \in 1 .. Len(stream) :
            /\ Handled(SubSeq(stream, 1, n))
            /\ stream' = SubSeq(stream, n + 1, Len(stream))
      BY <1>4 DEF Read
    <2>3. SubSeq(stream, 1, n) \in Seq(Octet)
          /\ SubSeq(stream, n + 1, Len(stream)) \in Seq(Octet)
      BY <1>1
    <2>. QED  BY <1>2, <2>1, <2>2, <2>3, HandledIsStep
  <1>5. CASE LateRead
    <2>1. k.phase = "reading"
      BY <1>5 DEF HttpInv, AtRest, LateRead
    <2>. QED  BY <1>1, <1>5, <2>1, HandledIsStep DEF LateRead
  <1>6. CASE ReadFails
    BY <1>1, <1>6, ReadFailsIsStep DEF ReadFails
  <1>. QED  BY <1>3, <1>4, <1>5, <1>6

(* The end of the client's socket changes nothing of the connection.       *)
LEMMA ClientEndsKeeps ==
  ASSUME HttpInv, ClientEnds
  PROVE  HttpInv'
  <1>1. UNCHANGED <<k, other, robbed>> /\ k.phase = "reading"
    BY DEF ClientEnds
  <1>6. stream \in Seq(Octet) /\ chunk \in Seq(Octet) /\ peer = "open"
    BY DEF ClientEnds, HttpInv, HttpTypeOK
  <1>7. \/ stream' = stream /\ chunk' = chunk
        \/ /\ stream' = <<>> /\ peer' = "reset"
           /\ chunk' \in {<<>>, stream, chunk}
    BY DEF ClientEnds, InFlight
  <1>2. /\ stream' \in Seq(Octet) /\ chunk' \in Seq(Octet)
        /\ chunk' = chunk \/ peer' = "reset"
    <2>1. <<>> \in Seq(Octet)
      OBVIOUS
    <2>2. stream' = stream \/ stream' = <<>>
      BY <1>7
    <2>3. chunk' \in {<<>>, stream, chunk}
      BY <1>7
    <2>4. chunk' = chunk \/ peer' = "reset"
      BY <1>7
    <2>. QED  BY <1>6, <2>1, <2>2, <2>3, <2>4
  <1>3. HttpTypeOK'
    BY <1>1, <1>2 DEF HttpInv, HttpTypeOK
  <1>5. Guarded' /\ OtherGuarded'
    BY <1>1 DEF HttpInv, Guarded, OtherGuarded
  <1>4. AtRest'
    BY <1>1, <1>2, <1>6 DEF HttpInv, AtRest
  <1>. QED  BY <1>3, <1>4, <1>5 DEF HttpInv

LEMMA HttpInitially ==
  ASSUME HttpInit
  PROVE  HttpInv
  <1>1. /\ k = NewConnection(script.app) /\ robbed = {} /\ chunk = <<>>
        /\ other = [phase |-> "none", open |-> FALSE, task_id |-> 0]
        /\ stream \in Seq(Octet)
    BY ScriptIsSequence DEF HttpInit
  <1>2. /\ IsConn(k) /\ k.timer = NewTimer /\ k.phase = "accepted"
        /\ k.task_id = 0 /\ k.open /\ ~k.thrown /\ k.res.file = <<>>
    BY <1>1 DEF NewConnection, IsConn, IsRes, ConnFields, ResFields, response
  <1>3. IsTimer(NewTimer) /\ \A w : Own(NewTimer, w) = {}
    BY DEF IsTimer, NewTimer, Own
  <1>4. HttpTypeOK
    BY <1>1, <1>2, <1>3 DEF HttpTypeOK
  <1>5. AtRest
    BY <1>1, <1>2 DEF AtRest
  <1>6. Guarded /\ OtherGuarded
    BY <1>1, <1>2, <1>3, GuardedOwn DEF OtherGuarded
  <1>. QED  BY <1>4, <1>5, <1>6 DEF HttpInv

(* No step breaks the invariant, and none makes a connection lose its task *)
(* to one whose own is still there.                                        *)
LEMMA HttpSteps ==
  ASSUME HttpInv, [HttpNext]_httpVars
  PROVE  /\ HttpInv'
         /\ "other" \in robbed' \ robbed => ~k.open \/ "k" \in robbed
         /\ "k" \in robbed' \ robbed => ~other.open \/ "other" \in robbed
  <1>1. CASE Start \/ Read \/ LateRead \/ ReadFails
    <2>1. /\ k.phase \in {"accepted", "reading"} /\ ConnectionStep
          /\ stream' \in Seq(Octet) /\ chunk' = <<>>
      BY <1>1, ConnectionActs
    <2>. QED  BY <2>1, ConnectionKeeps, ConnectionSteps
  <1>2. CASE ClientEnds
    BY <1>2, ClientEndsKeeps DEF ClientEnds
  <1>3. CASE Tick
    BY <1>3, TickKeeps DEF Tick
  <1>4. CASE OtherStart \/ OtherRequest \/ OtherEnds
    BY <1>4, OthersAreSteps, OtherSteps
  <1>5. CASE UNCHANGED httpVars
    BY <1>5 DEF httpVars, HttpInv, HttpTypeOK, AtRest, Guarded, OtherGuarded
  <1>. QED  BY <1>1, <1>2, <1>3, <1>4, <1>5 DEF HttpNext

(* The connection and its timer keep their invariant, whatever the routes, *)
(* the scripts, the chunks, the timeout and the bounds are.                *)
THEOREM HttpInvCorrect == HttpSpec => []HttpInv
  <1>1. HttpInit => HttpInv
    BY HttpInitially
  <1>2. HttpInv /\ [HttpNext]_httpVars => HttpInv'
    BY HttpSteps
  <1>. QED  BY <1>1, <1>2, PTL DEF HttpSpec

(* Crow's deadline: a connection that waits for a read has one task that   *)
(* will close it, under the id that it keeps, unless another connection    *)
(* has cancelled it; and a connection that is over has left none behind,   *)
(* which would keep the object for ever.  start_deadline and               *)
(* cancel_deadline_timer are called from start, handle and the three ends  *)
(* of do_read's handler; that no path through the parser and the handlers  *)
(* it calls misses one is what the proof shows, for any bytes in any       *)
(* chunks.                                                                 *)
THEOREM DeadlineGuards == HttpSpec => []Guarded
  <1>1. HttpInv => Guarded
    BY DEF HttpInv
  <1>. QED  BY <1>1, HttpInvCorrect, PTL

(* task_timer gives ids anew when it is empty, so that a connection that   *)
(* cancels the id it keeps may cancel another's task: only one whose own   *)
(* task has run, or has been cancelled so before, can.                     *)
THEOREM OnlyStaleIdsAreRobbed == HttpSpec => OnlyStaleIdsRob
  <1>1. HttpInv /\ [HttpNext]_httpVars =>
          [/\ "other" \in robbed' \ robbed => ~k.open \/ "k" \in robbed
           /\ "k" \in robbed' \ robbed =>
                ~other.open \/ "other" \in robbed]_httpVars
    BY HttpSteps
  <1>. QED  BY <1>1, HttpInvCorrect, PTL DEF HttpSpec, OnlyStaleIdsRob
=============================================================================
