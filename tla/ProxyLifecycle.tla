--------------------------- MODULE ProxyLifecycle ---------------------------
(***************************************************************************)
(* The life of the udproxy process: main() creates the web server and the  *)
(* proxies, gives each a thread that runs run(), joins the threads and     *)
(* returns, when the static objects are destroyed (proxy/main.cpp,         *)
(* proxybase.cpp, webserver.cpp).  Each application is a Crow server with  *)
(* threads of its own (proxy/crow_all.h, Crow::run and Server::run).       *)
(*                                                                         *)
(* SIGINT first goes to main()'s handler, which stops every application    *)
(* made so far.  From the first signal_add on, it goes to asio, whose      *)
(* handler writes to a pipe; whichever io_context runs reads the pipe and  *)
(* notifies the signal sets that exist at that moment.                     *)
(*                                                                         *)
(* Abstractions.  Clients and packets are the business of WsBroadcast.     *)
(* The two flags that wait_for_server_start waits for are one, the later.  *)
(* A timeout of three seconds may strike at any moment if "slow" is among  *)
(* the faults, and else only when the server will never start.             *)
(***************************************************************************)
EXTENDS Naturals

CONSTANTS Proxy,       \* the ProxyBase objects
          Web,         \* the WebServer object
          MaxSignals,  \* bound: SIGINTs sent to the process
          Faults       \* what may go wrong in an instance

App == Proxy \cup {Web}

ASSUME LifecycleAssumption ==
  /\ Web \notin Proxy
  /\ MaxSignals \in Nat
  /\ Faults \subseteq {"wsbind", "udpbind", "recverror", "slow"}

VARIABLES
  main,            \* setup, join, destroy, gone
  created,         \* applications the globals refer to
  handler,         \* those the running signal_handler has yet to stop
  sent, pipe,      \* SIGINTs sent; those asio has yet to deliver
  run,             \* per application: where its run() is
  async,           \* per application: where the thread of run_async is
  stopped,         \* per application: which io_contexts were stopped
  sig,             \* per application: the state of its signal_set
  udp,             \* per proxy: where udp_loop is
  stop_requested,  \* per proxy
  object           \* per proxy: whole, its registry destroyed, or gone

vars == <<main, created, handler, sent, pipe, run, async, stopped, sig, udp,
          stop_requested, object>>
mainVars == <<main, created, object>>
sigVars  == <<handler, sent, pipe, sig>>
srvVars  == <<run, async, stopped>>
udpVars  == <<udp, stop_requested>>

Init ==
  /\ main = "setup" /\ created = {}
  /\ handler = {} /\ sent = 0 /\ pipe = 0
  /\ run = [a \in App |-> "none"]
  /\ async = [a \in App |-> "none"]
  /\ stopped = [a \in App |-> "no"]
  /\ sig = [a \in App |-> "none"]
  /\ udp = [p \in Proxy |-> "none"]
  /\ stop_requested = [p \in Proxy |-> FALSE]
  /\ object = [p \in Proxy |-> "whole"]

-----------------------------------------------------------------------------
(* Where the thread of run_async is: starting, constructed (server_ is set, *)
(* the acceptor bound), registered (signal_add), pooled (the workers run),  *)
(* accepting (async_wait, do_accept), serving (the main io_context runs),   *)
(* ended; or failed, when the acceptor could not be bound.                  *)
Pooled == {"pooled", "accepting", "serving", "ended"}
HasServer(a) == async[a] \in {"constructed", "registered"} \cup Pooled
Started(a) == async[a] \in {"serving", "ended"}
Finished(a) == async[a] \in {"ended", "failed"}
Serving(a) == async[a] = "serving" /\ stopped[a] = "no"
AsioInstalled == \E a \in App : sig[a] # "none"

(* Crow::stop: without a server it does nothing; io_contexts that are not   *)
(* yet in the pool are not stopped.  It closes the members of websockets_   *)
(* first, but there are none: nothing calls add_websocket.                  *)
StopServer(a) ==
  stopped' = [stopped EXCEPT ![a] = IF async[a] \in Pooled THEN "all"
                                    ELSE IF HasServer(a) THEN "io" ELSE @]

(* main(): the web server first, then a proxy at a time.  A handler that    *)
(* interrupts the main thread holds it up.                                  *)
AddApp(a) ==
  /\ main = "setup" /\ handler = {} /\ a \notin created
  /\ a = Web \/ Web \in created
  /\ created' = created \cup {a}
  /\ UNCHANGED <<main, object, sigVars, srvVars, udpVars>>

SpawnThreads ==
  /\ main = "setup" /\ handler = {} /\ created = App
  /\ main' = "join"
  /\ run' = [a \in App |-> "start"]
  /\ UNCHANGED <<created, object, sigVars, async, stopped, udpVars>>

(* The joins are done; main returns and ~WebServer stops a server that has  *)
(* ended.                                                                   *)
JoinAll ==
  /\ main = "join" /\ \A a \in App : run[a] = "returned"
  /\ main' = "destroy"
  /\ UNCHANGED <<created, object, sigVars, srvVars, udpVars>>

(* ~ProxyBase stops the server and asks the UDP thread to stop ...          *)
Destructor(p) ==
  /\ main = "destroy" /\ object[p] = "whole"
  /\ StopServer(p)
  /\ stop_requested' = [stop_requested EXCEPT ![p] = TRUE]
  /\ object' = [object EXCEPT ![p] = "ending"]
  /\ UNCHANGED <<main, created, sigVars, run, async, udp>>

(* ... which it joins if run() has not; the members declared after          *)
(* server_future go next ...                                                *)
DestroyRegistry(p) ==
  /\ main = "destroy" /\ object[p] = "ending" /\ udp[p] \in {"none", "done"}
  /\ object' = [object EXCEPT ![p] = "registry gone"]
  /\ UNCHANGED <<main, created, sigVars, srvVars, udpVars>>

(* ... and server_future, which waits for the thread of run_async, and the  *)
(* server.                                                                  *)
DestroyServer(p) ==
  /\ main = "destroy" /\ object[p] = "registry gone" /\ Finished(p)
  /\ object' = [object EXCEPT ![p] = "gone"]
  /\ UNCHANGED <<main, created, sigVars, srvVars, udpVars>>

Exit ==
  /\ main = "destroy" /\ \A p \in Proxy : object[p] = "gone"
  /\ main' = "gone"
  /\ UNCHANGED <<created, object, sigVars, srvVars, udpVars>>

-----------------------------------------------------------------------------
(* A SIGINT.  It is blocked while signal_handler runs; one that arrives     *)
(* during static destruction is left out.                                   *)
Sigint ==
  /\ main \in {"setup", "join"} /\ sent < MaxSignals
  /\ sent' = sent + 1
  /\ IF AsioInstalled THEN pipe' = pipe + 1 /\ UNCHANGED handler
     ELSE handler = {} /\ handler' = created /\ UNCHANGED pipe
  /\ UNCHANGED <<mainVars, sig, srvVars, udpVars>>

(* signal_handler stops the proxies, then the web server.                   *)
SignalHandler(a) ==
  /\ a \in handler
  /\ a = Web => handler = {Web}
  /\ handler' = handler \ {a}
  /\ StopServer(a)
  /\ stop_requested' = [p \in Proxy |-> stop_requested[p] \/ p = a]
  /\ UNCHANGED <<mainVars, sent, pipe, sig, run, async, udp>>

(* An io_context that runs reads the pipe; a signal set on which no wait is *)
(* queued remembers the signal.                                             *)
Deliver ==
  /\ pipe > 0 /\ \E a \in App : Serving(a)
  /\ pipe' = pipe - 1
  /\ sig' = [a \in App |-> CASE sig[a] = "added"   -> "undelivered"
                             [] sig[a] = "waiting" -> "posted"
                             [] OTHER              -> sig[a]]
  /\ UNCHANGED <<mainVars, handler, sent, srvVars, udpVars>>

(* The handler of the async_wait runs in the server's io_context: stop().   *)
HandleSignalMain(a) ==                    \* mutant: stops the main context only
  /\ Serving(a) /\ sig[a] = "posted"
  /\ sig' = [sig EXCEPT ![a] = "handled"]
  /\ stopped' = [stopped EXCEPT ![a] = "io"]
  /\ UNCHANGED <<mainVars, handler, sent, pipe, run, async, udpVars>>
HandleSignal(a) ==
  /\ Serving(a) /\ sig[a] = "posted"
  /\ sig' = [sig EXCEPT ![a] = "handled"]
  /\ StopServer(a)
  /\ UNCHANGED <<mainVars, handler, sent, pipe, run, async, udpVars>>

-----------------------------------------------------------------------------
(* Crow::run and Server::run, in the thread of run_async.                   *)
AsyncStep(a, from, to) ==
  /\ async[a] = from
  /\ async' = [async EXCEPT ![a] = to]
  /\ UNCHANGED <<mainVars, handler, sent, pipe, run, stopped, udpVars>>

Construct(a) == AsyncStep(a, "starting", "constructed") /\ UNCHANGED sig

(* The port is taken: the constructor of the acceptor throws, and the       *)
(* exception ends in the future, which nobody asks for it.                  *)
ConstructFails(a) ==
  /\ "wsbind" \in Faults
  /\ AsyncStep(a, "starting", "failed") /\ UNCHANGED sig

SignalAdd(a) ==
  /\ AsyncStep(a, "constructed", "registered")
  /\ sig' = [sig EXCEPT ![a] = "added"]

StartWorkers(a) == AsyncStep(a, "registered", "pooled") /\ UNCHANGED sig

AsyncWait(a) ==
  /\ AsyncStep(a, "pooled", "accepting")
  /\ sig' = [sig EXCEPT ![a] = IF @ = "undelivered" THEN "posted"
                               ELSE "waiting"]

NotifyStart(a) == AsyncStep(a, "accepting", "serving") /\ UNCHANGED sig

(* The main io_context's thread is joined, then the workers.                *)
ServerEnds(a) ==
  /\ stopped[a] = "all"
  /\ AsyncStep(a, "serving", "ended") /\ UNCHANGED sig

-----------------------------------------------------------------------------
(* ProxyBase::run and WebServer::run.                                       *)
RunAsync(a) ==
  /\ run[a] = "start"
  /\ run' = [run EXCEPT ![a] = "wait"]
  /\ async' = [async EXCEPT ![a] = "starting"]
  /\ UNCHANGED <<mainVars, sigVars, stopped, udpVars>>

ServerStarted(a) ==
  /\ run[a] = "wait" /\ Started(a)
  /\ run' = [run EXCEPT ![a] = "up"]
  /\ udp' = [p \in Proxy |-> IF p = a THEN "open" ELSE udp[p]]
  /\ UNCHANGED <<mainVars, sigVars, async, stopped, stop_requested>>

(* wait_for_server_start times out.  A proxy's run() returns; the web       *)
(* server's has its future in a local variable, whose destructor waits.     *)
StartTimeout(a) ==
  /\ run[a] = "wait" /\ ~Started(a)
  /\ "slow" \in Faults \/ async[a] = "failed"
  /\ run' = [run EXCEPT ![a] = IF a = Web THEN "linger" ELSE "returned"]
  /\ UNCHANGED <<mainVars, sigVars, async, stopped, udpVars>>

WebReturnsAtOnce ==                       \* mutant: does not wait
  /\ run[Web] \in {"up", "linger"}
  /\ run' = [run EXCEPT ![Web] = "returned"]
  /\ UNCHANGED <<mainVars, sigVars, async, stopped, udpVars>>
WebReturns ==
  /\ run[Web] \in {"up", "linger"} /\ Finished(Web)
  /\ run' = [run EXCEPT ![Web] = "returned"]
  /\ UNCHANGED <<mainVars, sigVars, async, stopped, udpVars>>

ServerStoppedAtOnce(p) ==                 \* mutant: no server_future.wait()
  /\ run[p] = "up"
  /\ stop_requested' = [stop_requested EXCEPT ![p] = TRUE]
  /\ run' = [run EXCEPT ![p] = "join"]
  /\ UNCHANGED <<mainVars, sigVars, async, stopped, udp>>
ServerStopped(p) ==
  /\ run[p] = "up" /\ Finished(p)
  /\ stop_requested' = [stop_requested EXCEPT ![p] = TRUE]
  /\ run' = [run EXCEPT ![p] = "join"]
  /\ UNCHANGED <<mainVars, sigVars, async, stopped, udp>>

JoinUdpNot(p) ==                          \* mutant: no udp_thread.join()
  /\ run[p] = "join"
  /\ run' = [run EXCEPT ![p] = "returned"]
  /\ UNCHANGED <<mainVars, sigVars, async, stopped, udpVars>>
JoinUdp(p) ==
  /\ run[p] = "join" /\ udp[p] = "done"
  /\ run' = [run EXCEPT ![p] = "returned"]
  /\ UNCHANGED <<mainVars, sigVars, async, stopped, udpVars>>

-----------------------------------------------------------------------------
(* udp_loop.                                                                *)
UdpStep(p, from, to) ==
  /\ udp[p] = from
  /\ udp' = [udp EXCEPT ![p] = to]
  /\ UNCHANGED <<mainVars, sigVars, srvVars, stop_requested>>

UdpOpen(p) == UdpStep(p, "open", "loop")
UdpOpenFails(p) == "udpbind" \in Faults /\ UdpStep(p, "open", "done")
UdpStops(p) == stop_requested[p] /\ UdpStep(p, "loop", "done")
UdpRecvError(p) == "recverror" \in Faults /\ UdpStep(p, "loop", "done")

-----------------------------------------------------------------------------
MainThread ==
  \/ \E a \in App : AddApp(a)
  \/ SpawnThreads \/ JoinAll \/ Exit
  \/ \E p \in Proxy : Destructor(p) \/ DestroyRegistry(p) \/ DestroyServer(p)

AsyncThread(a) ==
  \/ Construct(a) \/ SignalAdd(a) \/ StartWorkers(a) \/ AsyncWait(a)
  \/ NotifyStart(a) \/ ServerEnds(a) \/ HandleSignal(a)

RunThread(a) == RunAsync(a) \/ ServerStarted(a) \/ StartTimeout(a)

ProxyThread(p) == \/ ServerStopped(p) \/ JoinUdp(p)
                  \/ UdpOpen(p) \/ UdpStops(p)

Next ==
  \/ MainThread \/ Sigint \/ Deliver \/ WebReturns
  \/ \E a \in App : \/ SignalHandler(a) \/ AsyncThread(a) \/ RunThread(a)
                    \/ ConstructFails(a)
  \/ \E p \in Proxy : ProxyThread(p) \/ UdpOpenFails(p) \/ UdpRecvError(p)

Spec == Init /\ [][Next]_vars

(* Threads run, a read pipe is read; nothing makes a SIGINT or a fault come. *)
Fairness ==
  /\ WF_vars(MainThread) /\ WF_vars(Deliver) /\ WF_vars(WebReturns)
  /\ \A a \in App : /\ WF_vars(SignalHandler(a)) /\ WF_vars(AsyncThread(a))
                    /\ WF_vars(RunThread(a))
  /\ \A p \in Proxy : WF_vars(ProxyThread(p))

FairSpec == Spec /\ Fairness

-----------------------------------------------------------------------------
(* Types of the variables (globals of main.cpp, members of ProxyBase).      *)
TypeOK ==
  /\ main \in {"setup", "join", "destroy", "gone"}
  /\ created \subseteq App /\ handler \subseteq App
  /\ sent \in 0..MaxSignals /\ pipe \in 0..sent
  /\ run \in [App -> {"none", "start", "wait", "up", "linger", "join",
                      "returned"}]
  /\ async \in [App -> {"none", "starting", "constructed", "registered",
                        "failed"} \cup Pooled]
  /\ stopped \in [App -> {"no", "io", "all"}]
  /\ sig \in [App -> {"none", "added", "undelivered", "waiting", "posted",
                      "handled"}]
  /\ udp \in [Proxy -> {"none", "open", "loop", "done"}]
  /\ stop_requested \in [Proxy -> BOOLEAN]
  /\ object \in [Proxy -> {"whole", "ending", "registry gone", "gone"}]

(* A UDP thread only lives between the start of the proxy's server and the  *)
(* return of run(), however the server failed, was late or was stopped: no  *)
(* joinable std::thread is ever destroyed, and none uses a dead proxy.      *)
UdpWithinRun ==
  \A p \in Proxy : udp[p] \in {"open", "loop"} =>
    /\ Started(p)
    /\ run[p] \in {"up", "join"}
    /\ object[p] = "whole"

(* run() gave the server up: no UDP thread was made, the future was left.   *)
GaveUp(p) == run[p] = "returned" /\ udp[p] = "none"

(* The registry of clients and its mutex are destroyed before the server    *)
(* whose handlers use them.  That is sound as long as run() has not given   *)
(* up on a server that started late: the workers have ended by then.        *)
RegistryOutlivesHandlers ==
  \A p \in Proxy : object[p] # "whole" => GaveUp(p) \/ async[p] = "ended"

(* The process does not end while a server still serves, except one that    *)
(* run() gave up on.                                                        *)
ExitAfterServers ==
  main = "destroy" => \A a \in App : Finished(a) \/ (a # Web /\ GaveUp(a))

(* The inductive invariant behind the three properties above: how far run() *)
(* has got tells what became of the server and of the UDP thread, and main  *)
(* destroys nothing before every run() has returned.                        *)
RunTells(a) ==
  /\ run[a] \in {"up", "join"} => Started(a)
  /\ run[a] = "join" => Finished(a)
  /\ run[a] = "returned" => Finished(a) \/ (a # Web /\ GaveUp(a))
UdpTells(p) ==
  /\ udp[p] # "none" => run[p] \in {"up", "join", "returned"} /\ Started(p)
  /\ udp[p] \in {"open", "loop"} => run[p] # "returned"
MainTells ==
  /\ main = "setup" => \A a \in App : run[a] = "none"
  /\ main \in {"destroy", "gone"} => \A a \in App : run[a] = "returned"
  /\ main \in {"setup", "join"} => \A p \in Proxy : object[p] = "whole"
LifecycleInv ==
  (\A a \in App : RunTells(a)) /\ (\A p \in Proxy : UdpTells(p)) /\ MainTells

(* A SIGINT that comes when every server has its wait queued (or will never *)
(* start) ends the process, whatever signals came earlier and whatever      *)
(* became of the UDP threads.                                               *)
Settled == \A a \in App : /\ stopped[a] # "io"
                          /\ sig[a] \in {"waiting", "posted", "handled"}
                             \/ async[a] = "failed"
SigintEnds == (main = "join" /\ pipe > 0 /\ Settled) ~> (main = "gone")
=============================================================================
