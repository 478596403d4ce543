---------------------------- MODULE WsBroadcast ----------------------------
(***************************************************************************)
(* One ProxyBase (proxy/proxybase.cpp) with the Crow WebSocket connections *)
(* it is handed (proxy/crow_all.h, crow::websocket::Connection).           *)
(*                                                                         *)
(* Two kinds of threads share the registry ws_clients:                     *)
(*   - the UDP thread (udp_loop) turns a packet into a JSON text and,      *)
(*     under ws_clients_mutex, posts it to every registered connection;    *)
(*   - the worker threads of the Crow server.  A connection belongs to the *)
(*     io_context of one worker, so its handlers run one at a time.  They  *)
(*     call onopen, onclose and onerror, which change ws_clients under the *)
(*     same mutex, and they free the connection.                           *)
(*                                                                         *)
(* A handler is split only where another thread can get in between: when   *)
(* it waits for the mutex.  What it does up to that point is one action,   *)
(* what it does from the lock to the next wait (or to its end) another.    *)
(* The critical sections of the workers are single actions, so the mutex   *)
(* is seen taken only while the UDP thread iterates.                       *)
(*                                                                         *)
(* Abstractions.  A frame is Hello, a packet number, Pong or CloseFrame.   *)
(* A packet that does not parse leaves no trace (udp_loop continues), so   *)
(* only parsed packets are numbered.  has_sent_close_, has_recv_close_ and *)
(* is_close_handler_called_ are set together, in the handler of a received *)
(* Close frame: nothing in the proxy starts a close.  They are closing.    *)
(***************************************************************************)
EXTENDS Integers, Sequences

CONSTANTS Conn,        \* connection objects, one per accepted WebSocket
          Worker,      \* worker threads of the Crow server
          WorkerOf,    \* the worker whose io_context serves a connection
          MaxPackets,  \* bound: UDP packets that parse
          Events       \* what an instance lets the outside do

ASSUME WsAssumption == /\ WorkerOf \in [Conn -> Worker]
                       /\ MaxPackets \in Nat
                       /\ Events \subseteq {"eof", "reset", "ping", "recverror",
                                          "stop"}

VARIABLES
  ws_clients,        \* std::set<connection*>
  udp,               \* where the UDP thread is
  json,              \* the packet in its hands, 0 before the first
  todo,              \* clients the current iteration has still to serve
  worker,            \* per worker: the handler waiting for the mutex
  serverUp,          \* FALSE once Server::stop has stopped the io_contexts
  stop_requested,
  crashed,           \* freed memory was used and the process died
  mem,               \* the Connection object of each connection
  peer,              \* the TCP connection as the kernel sees the peer
  sock,              \* adaptor_'s descriptor
  is_reading, state_, close_connection, closing,
  posted,            \* SendMessageType handlers queued in the io_context
  write_buffers, sending_buffers,
  delivered          \* frames of the writes that completed

udpVars  == <<udp, json, todo>>
runVars  == <<serverUp, stop_requested, crashed>>
readVars == <<is_reading, state_>>
flagVars == <<close_connection, closing>>
bufVars  == <<write_buffers, sending_buffers, delivered>>
vars == <<ws_clients, udpVars, worker, runVars, mem, peer, sock, readVars,
          flagVars, posted, bufVars>>

-----------------------------------------------------------------------------
Hello == 0
Pong == -1
CloseFrame == -2
Packet == 1..MaxPackets
Frame == {Hello, Pong, CloseFrame} \cup Packet

(* What a worker that waits for the mutex (or has just left it) will do     *)
(* next: the rest of onopen, the log line after it, the close handler run   *)
(* by a Close frame, the erase of onerror, the close handler run by         *)
(* check_destroy.                                                           *)
Step == {"onopen", "opened", "closeframe", "onerror", "onclose"}
Idle == [at |-> "idle"]
Busy(s, c) == [at |-> s, conn |-> c]

MutexFree == udp # "broadcast"
At(s, c) == worker[WorkerOf[c]] = Busy(s, c)
ReadyOnAnyThread(c) == ~crashed /\ serverUp  \* mutant: a pool per io_context
Ready(c) == ~crashed /\ serverUp /\ worker[WorkerOf[c]] = Idle
Goto(s, c) == worker' = [worker EXCEPT ![WorkerOf[c]] = Busy(s, c)]
Done(c) == worker' = [worker EXCEPT ![WorkerOf[c]] = Idle]

Init ==
  /\ ws_clients = {}
  /\ udp = "recv" /\ json = 0 /\ todo = {}
  /\ worker = [w \in Worker |-> Idle]
  /\ serverUp = TRUE /\ stop_requested = FALSE /\ crashed = FALSE
  /\ mem = [c \in Conn |-> "none"]
  /\ peer = [c \in Conn |-> "connected"]
  /\ sock = [c \in Conn |-> "open"]
  /\ is_reading = [c \in Conn |-> FALSE]
  /\ state_ = [c \in Conn |-> "header"]
  /\ close_connection = [c \in Conn |-> FALSE]
  /\ closing = [c \in Conn |-> FALSE]
  /\ posted = [c \in Conn |-> <<>>]
  /\ write_buffers = [c \in Conn |-> <<>>]
  /\ sending_buffers = [c \in Conn |-> <<>>]
  /\ delivered = [c \in Conn |-> <<>>]

-----------------------------------------------------------------------------
(* The peer: a browser that goes away without a Close frame, with a FIN or  *)
(* with a RST.  After a RST the kernel no longer knows the remote address.  *)
PeerEof(c) ==
  /\ "eof" \in Events /\ ~crashed /\ mem[c] = "live" /\ peer[c] = "connected"
  /\ peer' = [peer EXCEPT ![c] = "eof"]
  /\ UNCHANGED <<ws_clients, udpVars, worker, runVars, mem, sock, readVars,
                 flagVars, posted, bufVars>>

PeerReset(c) ==
  /\ "reset" \in Events /\ ~crashed /\ mem[c] = "live" /\ peer[c] # "reset"
  /\ peer' = [peer EXCEPT ![c] = "reset"]
  /\ UNCHANGED <<ws_clients, udpVars, worker, runVars, mem, sock, readVars,
                 flagVars, posted, bufVars>>

(* get_remote_ip() throws when the descriptor is closed or not connected.   *)
RemoteIpThrows(c) == sock[c] = "closed" \/ peer[c] = "reset"

-----------------------------------------------------------------------------
(* Opening.  The constructor's start() writes the 101 response, calls the   *)
(* open handler and starts to read.                                         *)
Upgrade(c) ==
  /\ Ready(c) /\ mem[c] = "none"
  /\ mem' = [mem EXCEPT ![c] = "live"]
  /\ sending_buffers' = [sending_buffers EXCEPT ![c] = <<Hello>>]
  /\ Goto("onopen", c)
  /\ UNCHANGED <<ws_clients, udpVars, runVars, peer, sock, readVars, flagVars,
                 posted, write_buffers, delivered>>

OnOpen(c) ==
  /\ ~crashed /\ At("onopen", c) /\ MutexFree
  /\ ws_clients' = ws_clients \cup {c}
  /\ Goto("opened", c)
  /\ UNCHANGED <<udpVars, runVars, mem, peer, sock, readVars, flagVars, posted,
                 bufVars>>

StartReading(c) ==
  /\ ~crashed /\ At("opened", c) /\ ~RemoteIpThrows(c)
  /\ is_reading' = [is_reading EXCEPT ![c] = TRUE]
  /\ Done(c)
  /\ UNCHANGED <<ws_clients, udpVars, runVars, mem, peer, sock, state_, flagVars,
                 posted, bufVars>>

(* The log line of onopen throws out of the constructor: the object's       *)
(* members are destroyed and its memory returned, the worker's loop catches *)
(* the exception, and the pointer stays in ws_clients.                      *)
OpenThrows(c) ==
  /\ ~crashed /\ At("opened", c) /\ RemoteIpThrows(c)
  /\ mem' = [mem EXCEPT ![c] = "unwound"]
  /\ sock' = [sock EXCEPT ![c] = "closed"]
  /\ Done(c)
  /\ UNCHANGED <<ws_clients, udpVars, runVars, peer, readVars, flagVars, posted,
                 bufVars>>

-----------------------------------------------------------------------------
(* Reading.  state_ is "header" while a failing read closes the adaptor     *)
(* before it calls error_handler_ (MiniHeader, Len16, Len64) and "body"     *)
(* where it closes it after (Mask, Payload).                                *)
Reading(c) == Ready(c) /\ mem[c] = "live" /\ is_reading[c]

ReadHeader(c) ==
  /\ Reading(c) /\ state_[c] = "header"
  /\ state_' = [state_ EXCEPT ![c] = "body"]
  /\ UNCHANGED <<ws_clients, udpVars, worker, runVars, mem, peer, sock,
                 is_reading, flagVars, posted, bufVars>>

(* A text, binary, continuation or pong frame: the proxy has no onmessage.  *)
ReadData(c) ==
  /\ Reading(c) /\ state_[c] = "body"
  /\ state_' = [state_ EXCEPT ![c] = "header"]
  /\ UNCHANGED <<ws_clients, udpVars, worker, runVars, mem, peer, sock,
                 is_reading, flagVars, posted, bufVars>>

Occurs(f, s) == \E i \in 1..Len(s) : s[i] = f

(* Bound: one Ping per connection.                                          *)
PingBound(c) == \A s \in {posted[c], write_buffers[c], sending_buffers[c],
                          delivered[c]} : ~Occurs(Pong, s)

ReadPing(c) ==
  /\ "ping" \in Events /\ Reading(c) /\ state_[c] = "body" /\ PingBound(c)
  /\ state_' = [state_ EXCEPT ![c] = "header"]
  /\ posted' = [posted EXCEPT ![c] = Append(@, Pong)]
  /\ UNCHANGED <<ws_clients, udpVars, worker, runVars, mem, peer, sock,
                 is_reading, flagVars, bufVars>>

(* A Close frame: close() runs inline, sets the flags and calls the close   *)
(* handler, which waits for the mutex.                                      *)
ReadClose(c) ==
  /\ Reading(c) /\ state_[c] = "body"
  /\ is_reading' = [is_reading EXCEPT ![c] = FALSE]
  /\ closing' = [closing EXCEPT ![c] = TRUE]
  /\ Goto("closeframe", c)
  /\ UNCHANGED <<ws_clients, udpVars, runVars, mem, peer, sock, state_,
                 close_connection, posted, bufVars>>

(* A read that fails in the header closes the adaptor first, so the log     *)
(* line of onerror always throws: neither its erase nor check_destroy runs. *)
ReadErrorHeader(c) ==
  /\ Reading(c) /\ state_[c] = "header" /\ peer[c] # "connected"
  /\ is_reading' = [is_reading EXCEPT ![c] = FALSE]
  /\ close_connection' = [close_connection EXCEPT ![c] = TRUE]
  /\ sock' = [sock EXCEPT ![c] = "closed"]
  /\ UNCHANGED <<ws_clients, udpVars, worker, runVars, mem, peer, state_, closing,
                 posted, bufVars>>

ReadErrorBody(c) ==
  /\ Reading(c) /\ state_[c] = "body" /\ peer[c] # "connected"
  /\ is_reading' = [is_reading EXCEPT ![c] = FALSE]
  /\ close_connection' = [close_connection EXCEPT ![c] = TRUE]
  /\ IF RemoteIpThrows(c) THEN UNCHANGED worker ELSE Goto("onerror", c)
  /\ UNCHANGED <<ws_clients, udpVars, runVars, mem, peer, sock, state_, closing,
                 posted, bufVars>>

-----------------------------------------------------------------------------
(* Writing.  do_write hands everything buffered to one async_write unless   *)
(* one is under way.                                                        *)
DoWrite(c, buffered) ==
  IF sending_buffers[c] = <<>>
  THEN /\ sending_buffers' = [sending_buffers EXCEPT ![c] = buffered]
       /\ write_buffers' = [write_buffers EXCEPT ![c] = <<>>]
  ELSE /\ write_buffers' = [write_buffers EXCEPT ![c] = buffered]
       /\ UNCHANGED sending_buffers

(* The end of check_destroy, the close handler having been called: free the *)
(* object unless an asynchronous operation still refers to it.              *)
DestroyIfEmpty(c) ==                         \* mutant: waits for write_buffers
  mem' = [mem EXCEPT ![c] = IF /\ sending_buffers'[c] = <<>>
                               /\ write_buffers'[c] = <<>> /\ ~is_reading'[c]
                            THEN "deleted" ELSE @]
DestroyIfQuiet(c) ==
  mem' = [mem EXCEPT ![c] = IF sending_buffers'[c] = <<>> /\ ~is_reading'[c]
                            THEN "deleted" ELSE @]

(* A SendMessageType handler leaves the io_context's queue; it does nothing *)
(* when the anchor it watches is gone.                                      *)
SendPosted(c) ==
  /\ Ready(c) /\ posted[c] # <<>>
  /\ posted' = [posted EXCEPT ![c] = Tail(@)]
  /\ IF mem[c] = "live"
     THEN DoWrite(c, Append(write_buffers[c], Head(posted[c])))
     ELSE UNCHANGED <<write_buffers, sending_buffers>>
  /\ UNCHANGED <<ws_clients, udpVars, worker, runVars, mem, peer, sock, readVars,
                 flagVars, delivered>>

(* An async_write completed and the connection is in service.               *)
AnyService(c) == TRUE                        \* mutant: the flag is not read
InService(c) == ~close_connection[c]

WriteOkUnchained(c) ==                       \* mutant: no next do_write
  /\ Ready(c) /\ mem[c] = "live" /\ sending_buffers[c] # <<>>
  /\ InService(c)
  /\ delivered' = [delivered EXCEPT ![c] = @ \o sending_buffers[c]]
  /\ sending_buffers' = [sending_buffers EXCEPT ![c] = <<>>]
  /\ UNCHANGED <<ws_clients, udpVars, worker, runVars, mem, peer, sock, readVars,
                 flagVars, posted, write_buffers>>
WriteOk(c) ==
  /\ Ready(c) /\ mem[c] = "live" /\ sending_buffers[c] # <<>>
  /\ InService(c)
  /\ delivered' = [delivered EXCEPT ![c] = @ \o sending_buffers[c]]
  /\ sending_buffers' = [sending_buffers EXCEPT ![c] = write_buffers[c]]
  /\ write_buffers' = [write_buffers EXCEPT ![c] = <<>>]
  /\ UNCHANGED <<ws_clients, udpVars, worker, runVars, mem, peer, sock, readVars,
                 flagVars, posted>>

(* is_close_handler_called_                                                 *)
CalledIfClosed(c) == closing[c] \/ close_connection[c]  \* mutant
CloseHandlerCalled(c) == closing[c]

(* An async_write failed, or completed after close_connection_ was set.     *)
(* check_destroy calls the close handler unless a Close frame did.          *)
WriteEnds(c) ==
  /\ Ready(c) /\ mem[c] = "live" /\ sending_buffers[c] # <<>>
  /\ close_connection[c] \/ peer[c] = "reset"
  /\ sending_buffers' = [sending_buffers EXCEPT ![c] = <<>>]
  /\ close_connection' = [close_connection EXCEPT ![c] = TRUE]
  /\ UNCHANGED <<ws_clients, udpVars, runVars, peer, sock, readVars, closing,
                 posted, write_buffers, delivered>>
  /\ \/ ~CloseHandlerCalled(c) /\ Goto("onclose", c) /\ UNCHANGED mem
     \/ CloseHandlerCalled(c) /\ UNCHANGED worker /\ DestroyIfQuiet(c)

(* The pending 101 write of a constructor that threw: its handler finds the *)
(* anchor gone, unless the write had succeeded, when it first reads and     *)
(* clears members of the freed object.                                      *)
OrphanWrite(c) ==
  /\ Ready(c) /\ mem[c] = "unwound" /\ sending_buffers[c] # <<>>
  /\ sending_buffers' = [sending_buffers EXCEPT ![c] = <<>>]
  /\ crashed' \in BOOLEAN
  /\ UNCHANGED <<ws_clients, udpVars, worker, serverUp, stop_requested, mem,
                 peer, sock, readVars, flagVars, posted, write_buffers, delivered>>

-----------------------------------------------------------------------------
(* The handlers that waited for the mutex.                                  *)
Erase(c) == ws_clients' = ws_clients \ {c}

(* onclose inside close(), then the rest of close(): queue the Close frame; *)
(* handle_fragment returns to do_read, which closes the adaptor and calls   *)
(* check_destroy.                                                           *)
OnCloseFrame(c) ==
  /\ ~crashed /\ At("closeframe", c) /\ MutexFree
  /\ Erase(c)
  /\ DoWrite(c, Append(write_buffers[c], CloseFrame))
  /\ close_connection' = [close_connection EXCEPT ![c] = TRUE]
  /\ state_' = [state_ EXCEPT ![c] = "header"]
  /\ sock' = [sock EXCEPT ![c] = "closed"]
  /\ Done(c)
  /\ UNCHANGED <<udpVars, runVars, peer, is_reading, closing, posted, delivered>>
  /\ DestroyIfQuiet(c)

(* The erase of onerror after a read that failed in the body, then the      *)
(* adaptor is closed and check_destroy calls the close handler.             *)
OnError(c) ==
  /\ ~crashed /\ At("onerror", c) /\ MutexFree
  /\ Erase(c)
  /\ sock' = [sock EXCEPT ![c] = "closed"]
  /\ Goto("onclose", c)
  /\ UNCHANGED <<udpVars, runVars, mem, peer, readVars, flagVars, posted, bufVars>>

(* onclose called by check_destroy, then the rest of check_destroy.         *)
OnClose(c) ==
  /\ ~crashed /\ At("onclose", c) /\ MutexFree
  /\ Erase(c)
  /\ Done(c)
  /\ UNCHANGED <<udpVars, runVars, peer, sock, readVars, flagVars, posted, bufVars>>
  /\ DestroyIfQuiet(c)

-----------------------------------------------------------------------------
(* The UDP thread.                                                          *)
UdpRecv ==
  /\ ~crashed /\ udp = "recv" /\ ~stop_requested /\ json < MaxPackets
  /\ udp' = "lock"
  /\ json' = json + 1
  /\ UNCHANGED <<ws_clients, todo, worker, runVars, mem, peer, sock, readVars,
                 flagVars, posted, bufVars>>

UdpLock ==
  /\ ~crashed /\ udp = "lock"
  /\ udp' = "broadcast"
  /\ todo' = ws_clients
  /\ UNCHANGED <<ws_clients, json, worker, runVars, mem, peer, sock, readVars,
                 flagVars, posted, bufVars>>

(* client->send_text(json): a handler is posted to the client's io_context. *)
(* Through a dangling pointer the call is undefined: it may crash, or post  *)
(* a handler that does nothing.                                             *)
UdpSend(c) ==
  /\ ~crashed /\ udp = "broadcast" /\ c \in todo
  /\ todo' = todo \ {c}
  /\ IF mem[c] = "live"
     THEN /\ posted' = [posted EXCEPT ![c] = Append(@, json)]
          /\ UNCHANGED crashed
     ELSE /\ crashed' \in BOOLEAN
          /\ UNCHANGED posted
  /\ UNCHANGED <<ws_clients, udp, json, worker, serverUp, stop_requested, mem,
                 peer, sock, readVars, flagVars, bufVars>>

UdpUnlockEarly ==                            \* mutant: break in the loop
  /\ ~crashed /\ udp = "broadcast"
  /\ udp' = "recv" /\ todo' = {}
  /\ UNCHANGED <<ws_clients, json, worker, runVars, mem, peer, sock,
                 readVars, flagVars, posted, bufVars>>
UdpUnlock ==
  /\ ~crashed /\ udp = "broadcast" /\ todo = {}
  /\ udp' = "recv"
  /\ UNCHANGED <<ws_clients, json, todo, worker, runVars, mem, peer, sock,
                 readVars, flagVars, posted, bufVars>>

(* The loop ends on the stop flag, and for good on a recv error.            *)
UdpExit ==
  /\ ~crashed /\ udp = "recv"
  /\ stop_requested \/ "recverror" \in Events
  /\ udp' = "done"
  /\ UNCHANGED <<ws_clients, json, todo, worker, runVars, mem, peer, sock,
                 readVars, flagVars, posted, bufVars>>

(* SIGINT reaches Server::stop, which stops the io_contexts: handlers under *)
(* way finish, no other starts.  run() then sets the flag.  Crow::stop, on  *)
(* the way of stop(), closes the members of websockets_ first, but there    *)
(* are none: nothing calls add_websocket.                                   *)
ServerStop ==
  /\ "stop" \in Events /\ ~crashed /\ serverUp
  /\ serverUp' = FALSE
  /\ UNCHANGED <<ws_clients, udpVars, worker, stop_requested, crashed, mem, peer,
                 sock, readVars, flagVars, posted, bufVars>>

RequestStop ==
  /\ ~crashed /\ ~serverUp /\ ~stop_requested
  /\ stop_requested' = TRUE
  /\ UNCHANGED <<ws_clients, udpVars, worker, serverUp, crashed, mem, peer, sock,
                 readVars, flagVars, posted, bufVars>>

-----------------------------------------------------------------------------
(* Steps the worker of c takes without help from the network.               *)
Handler(c) ==
  \/ OnOpen(c) \/ StartReading(c) \/ OpenThrows(c)
  \/ ReadErrorHeader(c) \/ ReadErrorBody(c)
  \/ SendPosted(c) \/ WriteOk(c) \/ WriteEnds(c) \/ OrphanWrite(c)
  \/ OnCloseFrame(c) \/ OnError(c) \/ OnClose(c)

Network(c) ==
  \/ PeerEof(c) \/ PeerReset(c) \/ Upgrade(c)
  \/ ReadHeader(c) \/ ReadData(c) \/ ReadPing(c) \/ ReadClose(c)

UdpThread == \/ UdpLock \/ UdpUnlock \/ \E c \in Conn : UdpSend(c)

Next ==
  \/ \E c \in Conn : Network(c) \/ Handler(c)
  \/ UdpRecv \/ UdpExit \/ UdpThread
  \/ ServerStop \/ RequestStop

Spec == Init /\ [][Next]_vars
(* The threads run, and the network drains what is written to a peer that   *)
(* is still there or reports that it is gone.                               *)
Fairness == /\ \A c \in Conn : WF_vars(Handler(c))
            /\ WF_vars(UdpThread)

FairSpec == Spec /\ Fairness

-----------------------------------------------------------------------------
BusyStates == {Idle} \cup {Busy(s, c) : s \in Step, c \in Conn}

(* Types of the variables (proxybase.hpp's members, Connection's members).  *)
TypeOK ==
  /\ ws_clients \subseteq Conn
  /\ udp \in {"recv", "lock", "broadcast", "done"}
  /\ json \in 0..MaxPackets
  /\ todo \subseteq Conn
  /\ worker \in [Worker -> BusyStates]
  /\ serverUp \in BOOLEAN /\ stop_requested \in BOOLEAN /\ crashed \in BOOLEAN
  /\ mem \in [Conn -> {"none", "live", "unwound", "deleted"}]
  /\ peer \in [Conn -> {"connected", "eof", "reset"}]
  /\ sock \in [Conn -> {"open", "closed"}]
  /\ is_reading \in [Conn -> BOOLEAN]
  /\ state_ \in [Conn -> {"header", "body"}]
  /\ close_connection \in [Conn -> BOOLEAN]
  /\ closing \in [Conn -> BOOLEAN]
  /\ posted \in [Conn -> Seq(Frame)]
  /\ write_buffers \in [Conn -> Seq(Frame)]
  /\ sending_buffers \in [Conn -> Seq(Frame)]
  /\ delivered \in [Conn -> Seq(Frame)]

(* check_destroy frees a connection only after onclose has taken it out of  *)
(* the registry, whichever handlers ran before, were cut short by an        *)
(* exception, or ran twice: ws_clients never holds a freed connection that  *)
(* has finished opening, and the UDP thread never calls one.                *)
NeverDeletedWhileRegistered ==
  \A c \in ws_clients \cup todo : mem[c] # "deleted"

(* A handler only ever runs for a connection whose object exists: what      *)
(* waits for the mutex in one worker is not freed by the UDP thread or by   *)
(* another handler in the meantime.                                         *)
HandlerOwnsConnection ==
  \A w \in Worker : worker[w] # Idle => mem[worker[w].conn] = "live"

(* The inductive invariant behind the two properties above: the iterator's  *)
(* set is empty outside the loop and never runs ahead of the registry, and  *)
(* once a Close frame has been handled the connection is out of it, which   *)
(* is why check_destroy may free without calling the close handler.         *)
RegistryInv ==
  /\ udp # "broadcast" => todo = {}
  /\ todo \subseteq ws_clients
  /\ \A c \in ws_clients : mem[c] \in {"live", "unwound"}
  /\ \A w \in Worker : worker[w] # Idle =>
       /\ WorkerOf[worker[w].conn] = w
       /\ mem[worker[w].conn] = "live"
  /\ \A c \in Conn :
       /\ mem[c] = "none" \/ At("onopen", c) => ~closing[c]
       /\ closing[c] => At("closeframe", c) \/ c \notin ws_clients

(* On the wire a client sees the 101 response first, and nothing after the  *)
(* Close frame, although texts are posted between onopen's insert and the   *)
(* end of the handshake and remain queued behind the Close frame.           *)
OnWire(c) == delivered[c] \o sending_buffers[c]
WireProtocol ==
  \A c \in Conn : mem[c] = "live" =>
    /\ ~close_connection[c] /\ OnWire(c) # <<>> => Head(OnWire(c)) = Hello
    /\ \A i \in 1..Len(OnWire(c)) :
         OnWire(c)[i] = CloseFrame => i = Len(OnWire(c))

(* The set ws_clients does not change under the iterator of the UDP         *)
(* thread's loop.                                                           *)
IterationStable == [][udp = "broadcast" => ws_clients' = ws_clients]_vars

(* A client that says goodbye is taken out of the registry and its object   *)
(* freed, while the server runs.                                            *)
Stopped == crashed \/ ~serverUp
GoodbyeFrees == \A c \in Conn : closing[c] ~> (mem[c] = "deleted" \/ Stopped)

(* A connection is new until onopen, then a member, then gone.              *)
Status(c) == IF c \in ws_clients THEN "member"
             ELSE IF mem[c] = "none" \/ At("onopen", c) THEN "new" ELSE "gone"

-----------------------------------------------------------------------------
(* The proxy as a feed: what the clients may rely on (module PanelFeed).    *)
PacketsUpTo(s) ==
  LET packets[i \in 0..Len(s)] ==
        IF i = 0 THEN <<>>
        ELSE IF s[i] \in Packet THEN Append(packets[i - 1], s[i])
             ELSE packets[i - 1]
  IN packets
Packets(s) == PacketsUpTo(s)[Len(s)]

Lost(c) == close_connection[c] \/ mem[c] = "unwound" \/ Stopped
Waiting(c) == Packets(sending_buffers[c] \o write_buffers[c] \o posted[c])
Owed(c) == IF Lost(c) THEN <<>>
           ELSE Waiting(c) \o (IF c \in todo THEN <<json>> ELSE <<>>)

Published == IF udp = "lock" THEN json - 1 ELSE json
Received(c) == Packets(delivered[c])

Feed == INSTANCE PanelFeed WITH
  Client <- Conn,
  published <- Published,
  status <- [c \in Conn |-> Status(c)],
  lost <- [c \in Conn |-> Lost(c)],
  owed <- [c \in Conn |-> Owed(c)],
  received <- [c \in Conn |-> Received(c)]

(* The proxy implements the feed: every member that stays connected gets    *)
(* every packet published after it joined, once and in order; a broadcast   *)
(* is atomic although the UDP thread serves one client at a time while      *)
(* workers run.                                                             *)
ImplementsFeed == Feed!Spec

(* ... and eventually gets it.                                              *)
ImplementsFairFeed == Feed!FairSpec
=============================================================================
