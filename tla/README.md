# VPanel in TLA+

VPanel shows the CPU state of running machines in a browser. A kernel copies registers into a
`panel` structure at every clock tick; a client on that machine sends the structure in UDP
packets; `udproxy` turns each packet into JSON and broadcasts it over WebSockets to the pages
that draw the lamps. This directory specifies the parts of it where threads, sockets,
interrupts and machines meet, model-checks them with TLC and proves their main invariants with
TLAPS.

    kernel panel --/dev/kmem, kvm, /proc--> client --UDP--> udproxy --WebSocket--> base.js, panel.js
                                                 \--UDP--> socket/server.c (console)

## Inventory

| Component | State it keeps | Operations | Modules |
|---|---|---|---|
| Proxy core (`proxy/proxybase.*`) | `ws_clients` under `ws_clients_mutex`, `stop_requested`, `udp_thread`, `server_future`, `ws_server` | onopen, onclose, onerror, `udp_loop`, `run`, `stop`, destructor | WsBroadcast, PanelFeed, ProxyLifecycle |
| Crow's WebSocket (`crow_all.h`, `websocket::Connection`) | socket, read state, `write_buffers_`, `sending_buffers_`, `close_connection_`, Close flags | upgrade, read chain, `send_text`, `do_write`, `close`, `check_destroy` | WsBroadcast |
| Crow's HTTP (`http_parser_execute`, `HTTPParser`, `Router`, `Connection`, `task_timer`) | parser state, request, response, deadlines by id | read, parse, route, answer, upgrade, deadline | HttpMessage, HttpParser, HttpRouter, HttpResponse, HttpConnection |
| Crow's server (`Crow`, `Server`) | `server_`, io_contexts, signal set, started flag | `run_async`, `wait_for_server_start`, `run`, `stop` | ProxyLifecycle |
| Process (`proxy/main.cpp`) | the static `proxies` and `webserver`, threads | `main`, `signal_handler`, static destruction | ProxyLifecycle |
| Web server (`proxy/webserver.*`) | one more Crow application | `run`, `stop`, routes for files and `/config.json` | ProxyLifecycle, HttpRouter, HttpResponse, HttpConnection |
| Packet formats (`proxy/*proxy.cpp`, `types.hpp`, `panel_packet.h`, `panel_state.h`) | none | `get_panel_state`, `udp_packet_to_json` | PanelPipeline, PanelLamps |
| Console server (`socket/server.c`) | receive buffer | `main`, `handle_udp_clients`, displays | PanelPipeline |
| Clients (`socket/arch/*/client.c`, the older `socket/client.c`, `udpsender.py`) | socket, address of the panel | `main`, `send_frames` | PanelPipeline (start, packets); VaxNotify, BsdPanel, NetBSDClock, KprobePanel (loops) |
| VAX kernel panel (`arch/NetBSDVAX/kern_clock.c`) | `panel`, `panel_client_pid`, `panel_notification_enabled` | `hardclock`, sysctl handlers, `panel_notify_userspace` | VaxNotify |
| 2.11BSD kernel (`arch/211BSD/kern_clock.c`) | `panel`, `panel_seq`, `last_seq`; `calltodo`; time, timers and limits; `cp_time` | `hardclock`, `softclock`, `timeout`, `untimeout`, `hzto`, `gatherstats`, `sys_wait_for_panel`, `decode_phys_addr` | BsdPanel, BsdCallout, TimerQueue, BsdClock, BsdCharge, BsdTime, BsdPhys |
| NetBSD/amd64 kernel (`arch/NetBSDx64/kern_clock.c`) | `panel`, `psdiv`, `profprocs`, per processor divider, count and rate | `hardclock`, `statclock`, `startprofclock`, `stopprofclock` | NetBSDClock |
| Linux kprobe (`arch/LinuxX64/kprobe.c`) | `captured_regs`, `regs_valid`, `regs_mutex` | `handler_pre`, `proc_read`, init and exit | KprobePanel |
| Browser (`wwwroot/src/base.js`, `*/panel.js`) | message queue, intervals, label; lamps and masks | WebSocket events, `enqueue`, `processQueue`, `setPanelState`, `updateLights`, lamp test | PanelPage, PanelLamps |

### How they interact and what is hard

* **Two kinds of threads and one registry.** The UDP thread iterates over `ws_clients` and
  calls `send_text`, which only posts; Crow's workers insert and erase, and free connections
  that delete themselves (`check_destroy`). Correct means: the iterator stays valid, no address
  in the registry is that of a freed object, a client that stays connected gets every packet
  once and in order, one that leaves is freed.
* **Exceptions in handlers.** `get_remote_ip()` throws on a socket without a peer, and the
  callbacks call it for a log line before or after they change the registry.
* **Start and stop.** Every application is a Crow server on threads of its own, signal handlers
  replace each other, `stop()` may come before there is anything to stop, ports may be taken,
  and the static objects are destroyed when `main` returns. Correct means: no UDP thread
  outlives `run()`, registries outlive the handlers that use them, a SIGINT ends the process.
* **A stream of bytes, cut anywhere.** Requests reach the parser in the pieces that reads cut
  them into, several at a time, while a deadline shared with other connections may close the
  socket. Correct means: the answers are those of the requests, in their order, whatever the
  cuts; every connection ends.
* **Several compilers, one packet.** Each receiver declares the sender's structure again, for
  another machine: sizes, alignment and word order must agree. Datagrams may be lost, repeated
  or reordered, and five kinds of senders share port 4000.
* **Kernel and client.** Registers are copied in clock interrupts and read without a lock;
  wakeups and signals may be lost, merged, sent to the wrong process, or come between a test
  and the sleep that follows it. A probe takes a mutex inside `schedule()`.
* **A clock that interrupts itself.** The timeout table is changed by ticks, by the soft clock
  and by the functions it calls; dividers and counters are shared by processors without a lock.
* **Events in a page.** WebSocket events, intervals and clicks come in any order, and a message
  changes only the lamps the script takes to be wrong.

## Modules

| Module | What it is |
|---|---|
| `WsBroadcast` | one proxy's registry, UDP thread and Crow connections |
| `PanelFeed` | what a proxy promises its clients, without threads and buffers; implemented by `WsBroadcast`, used by `PanelPage` |
| `ProxyLifecycle` | main, signals, start and stop of the Crow servers, `run()`, the UDP threads, destruction |
| `HttpMessage`, `HttpParser` | symbols, request and parser; the parser itself, byte by byte, with its callbacks |
| `HttpRouter` | tries of the program's rules and their lookup |
| `HttpResponse` | responses: of requests without a rule, and of the handlers; over any lookup |
| `HttpConnection` | a connection from acceptance to end, with reads, deadline and timer |
| `PanelPipeline` | every sender from its start to its end, and its packets as the proxies and the console server read them |
| `PanelLamps`, `PanelPage` | from a panel state to lamps; the page with its connection, queue, label and lamps |
| `VaxNotify` | the VAX kernel's panel, its notification by signal, and the clients that wait for it |
| `BsdPanel` | the panel of 2.11BSD, its system call and its clients |
| `TimerQueue`, `BsdCallout` | what the timeout table promises; the list of differences that implements it |
| `BsdTime`, `BsdCharge`, `BsdPhys`, `BsdClock` | time of day and `hzto`; what a tick charges; the decoded address; a machine that does all three |
| `NetBSDClock` | clock interrupts of several processors, profiling, panel and client of NetBSD/amd64 |
| `KprobePanel` | the Linux module with its probe, its file and its clients |
| `*Proofs` | theorems: `WsBroadcastProofs`, `VaxNotifyProofs`, `BsdPanelProofs`, `NetBSDClockProofs`, `KprobeProofs`, `CrowProofs` about `ProxyLifecycle` and `HttpConnection`, `BsdClockProofs` about `BsdCallout` and `BsdClock`, and `DisplayProofs` about `PanelPipeline` and `PanelPage` |
| `MC*` | constants for TLC |

### WsBroadcast

A connection belongs to the io_context of one worker, so its handlers run one at a time. A
handler is split only where another thread can get in: at `ws_clients_mutex`. `worker[w]` is
the handler in which worker `w` waits; the UDP thread holds the mutex in `udp = "broadcast"`.

| Action | Code |
|---|---|
| `Upgrade`, `OnOpen`, `StartReading`, `OpenThrows` | constructor and `start()` of a connection: 101 response, onopen's insert, its log line (which may throw), first read |
| `ReadHeader`, `ReadData`, `ReadPing`, `ReadClose` | `do_read`, `handle_fragment` |
| `ReadErrorHeader`, `ReadErrorBody` | the two kinds of failing reads: with and without onerror |
| `SendPosted`, `WriteOk`, `WriteEnds`, `OrphanWrite` | posts, `do_write` and its completion, completion for an object that is gone |
| `OnCloseFrame`, `OnError`, `OnClose` | the close handler, onerror (which may throw), `check_destroy` |
| `UdpRecv`, `UdpLock`, `UdpSend`, `UdpUnlock`, `UdpExit` | `udp_loop` |
| `PeerEof`, `PeerReset` | the browser goes away |
| `ServerStop`, `RequestStop` | `Server::stop`; `stop()` and `run()` setting `stop_requested` |

Packets are numbered when they are received and parse. Buffers are sequences of frames:
`posted` (queued `SendMessageType` handlers), `write_buffers`, `sending_buffers`, `delivered`.

`PanelFeed` is the abstract specification: `Publish` makes every member be owed one packet, at
once; `Deliver` hands over a prefix of what is owed; a client may be lost at any moment.
`ImplementsFeed` maps the three buffers and the rest of the running iteration to `owed`: a
broadcast takes effect when the UDP thread gets the mutex, though it serves one client at a
time. `Crow::stop` also closes the members of `websockets_`; the set is always empty, because
nothing calls `add_websocket`, so `ServerStop` has no such step.

### ProxyLifecycle

`run[a]` is the thread main gave to application `a`, `async[a]` the thread of its Crow server,
`udp[p]` the UDP thread of proxy `p`, `sig[a]` the server's asio signal set, `pipe` the signals
asio's handler has written down and no io_context has read. `stopped[a]` tells a stop that met a
server without workers (`"io"`: only the main io_context knows) from a complete one. Actions bear
the names of the steps in `main.cpp`, `proxybase.cpp`, `webserver.cpp` and `crow_all.h`;
`Destructor` is the body of `~ProxyBase` up to its join, `DestroyRegistry` and `DestroyServer`
the join and the destruction of the members in reverse order. The constant `Faults` says which
failures an instance allows: a WebSocket port that is taken (`wsbind`), a UDP port that is taken
(`udpbind`), a `recv` error (`recverror`), a server slower than three seconds (`slow`).

### HttpParser, HttpRouter, HttpResponse, HttpConnection

All handlers of an io_context run on one thread, so each is one action, and what lies inside is
a function: `k`, the connection with its parser, response and timer, goes through
`http_parser_execute` byte by byte (`Execute`, a recursive function over the bytes of a chunk), and
the callbacks of the parser call the connection (`handle_url`, `handle_header`, `handle`) as they
do in the code, in the middle of a read. `HttpParser` takes the connection's three callbacks as
operator constants. `HttpResponse` and `HttpConnection` take the router's lookup as one (`Found`):
the cfg gives it `HttpRouter!Rule`, which walks the tries; the proofs hold for every lookup.

| Definition | Code |
|---|---|
| `StartReq` .. `DiscardLws`, `BodyIdentity`, `ChunkSize`, `ChunkData` | the states of `http_parser_execute` that a request can reach |
| `on_url` .. `on_message_complete`, `feed`, `done`, `clear` | `HTTPParser` |
| `add`, `optimize`, `find`, `Rule`; `handle_initial`, `handle_upgrade` | `Trie`; `Router` |
| `Handler`, `set_static_file_info` | the routes of `webserver.cpp` and of a proxy |
| `schedule`, `cancel`, `process_tasks` | `task_timer`, whose ids begin anew when no task is left |
| `Start`, `Read`, `ReadFails`, `LateRead` | `Connection::start`, `do_read` and its handler; a handler that the deadline or a reset has overtaken |
| `Tick`, `OtherStart`, `OtherRequest`, `OtherEnds` | the timer, and another connection, which is seen only through it |
| `ClientEnds` | the client closes or resets |

A symbol of the stream is a character, or a run of characters the parser treats alike. The
abstractions: a reset comes between two handlers or late within one, when the first write that
would fail throws; a read that was under way when the deadline or a reset came has read nothing
or all there was; `/config.json` is shorter than the threshold above which Crow streams a body;
handlers answer synchronously, so `need_to_call_after_handlers_` is never found set.

### PanelPipeline

| Action | Code |
|---|---|
| `FindPanel`, `CreateSocket`, `GiveUp` | `main` of a client up to its loop, and its ends: no step is tried again |
| `SendFrame` | `send_frames`: a state behind its header |
| `SendBare` | the older client: the state alone, which only a PDP-11 compiles |
| `SendByHand` | `udpsender.py`, whose user fills in the header |
| `Lose` | a datagram is lost; `Arrives` leaves it to come again |
| `ProxyReceive`, with `HasState` | `udp_loop` with `get_panel_state` and `udp_packet_to_json` |
| `ServerStarts`, `ServerEnds`, `ServerReceive` | `server.c`: `main`, and the loop of `handle_udp_clients` |

Memory is a sequence of 16-bit words; each word knows which field of which state of which
sender it is, so that a misreading is seen whatever the values are. A sender's packet is its
declaration compiled for its machine; a receiver's `Read` takes words at the offsets of its own
declaration. `recvfrom` leaves what lies behind the datagram in the server's buffer. `server.c`
is taken to run on a machine with 64-bit longs. That a PDP-11 long has its high word first is
external knowledge; the bytes in `arch/211BSD/endiantest.c` agree with it. `Crews` says which
senders run together, `Hosts` whether they are told to send to the proxies or to the console
server, `ToolCounts` and `ToolFlags` what the tool's user may set, `BareCounts` and `BareFlags`
what a receiver may find where a state without a header has its address.

### PanelLamps, PanelPage

A number is the set of its bits, and JSON a record without the members nobody sent: a member
that is asked for and missing is undefined, and so false. `PanelLamps` has `udp_packet_to_json`
of the three proxies and what the three scripts do with the result: masks, differences, lamp
test, the halves of 32 bits of the amd64 page. `PanelPage` is a page on top of `PanelFeed`, the
abstract proxy: `Publish` and `Proxy` are steps of the feed, `Open`, `Message` and `Close` the
events of the WebSocket, `StatusTick` and `FpsTick` the two intervals, `Click` the lamp test.
Each is one task of the browser, `processQueue`'s loop included.

### VaxNotify

| Action | Code |
|---|---|
| `Tick`, with `Notify` and `Signal` | `hardclock` on the primary CPU: copy of the frame, `panel_notify_userspace`, `psignal` |
| `Admin` | the two sysctl handlers, used by hand |
| `SetupPanelNotification`, `RegisterPid`, `RegisterEnabled`, `Open` | the client's `main`, up to the loop; each may fail as the code lets it |
| `WaitForPanel`, `WaitInterrupted`, `WaitFails` | `wait_for_panel_notification`: an interrupted wait (`EINTR`) is taken for the signal |
| `ReadAddress`, `ReadData`, `SendFrame`, `Fails` | one turn of `send_frames_with_notification`: the clock may interrupt the read between its two words |
| `Start`, `Kill`, `Reap` | processes, whose pids are used again |

A word of the panel is the number of the tick that wrote it, so that old and new can be told
apart; `BsdPanel`, `NetBSDClock` and `KprobePanel` do the same. `signalled` and `heard` are
history: the tick of the last signal, and of the last one kevent reported. How signals reach
kevent (once, however many came; also when ignored) is external knowledge of NetBSD.

### BsdPanel

A PDP-11 has one processor, and a process in the kernel keeps it until it sleeps or returns:
`inKernel` is that process. Only `hardclock` comes between, at any word that `copy` copies out
of `/dev/kmem`, and between the test of `panel_seq` in `sys_wait_for_panel` and `tsleep`, where
its `wakeup` finds nobody. A signal ends the sleep (`PCATCH`), but the loop does not look at
what `tsleep` returned and tests again; the process dies on its way back to user mode. `seen`
and `missed` are history. `Window` bounds the ticks between test and sleep: a handful of
instructions, so 1 is generous; the theorems hold for any.

### BsdCallout, BsdClock

`BsdCallout`: `calltodo` is the list of differences as a sequence; sections at `splclock` and
`splhigh` are one step. `hardclock` decrements (`Decremented`) and starts `softclock` if the
tick found the processor at base priority and the first event due in it; `softclock_call`,
`_returned`, `_break` and `_done` are its loop, which ticks and the functions it calls
interrupt; `timeout` and `untimeout` walk the list. `TimerQueue` is the abstract specification:
a bag of functions with the ticks they have left, called in the order of their deadlines, never
early, and told how late they are. The refinement mapping adds up the differences (`Left`).

`BsdClock` is a machine whose tick does what the rest of `hardclock` does: `Charged` and
`Posted` (times, interval timers, limit, `p_cpu`), `gatherstats`, the time of day with
`adjtime`'s corrections, and the address for the lamps. `ask` calls `hzto`. A long has 32 bits
and an int 16, so a conversion wraps (`ToInt`) and a division cuts off towards zero. The
operators `&` and `|` of C are a recursive function on the numbers of 22 bits (`And`, `Or`).

### NetBSDClock

The handlers of the clock interrupts are split at every access to what processors share: psdiv
is read four times in `statclock`, `profprocs` is loaded and stored (`loadprofprocs`,
`storeprofprocs`) under the lock of one process only, the frame is copied word by word, on the
primary processor, while the client's `kvm_read` copies it word by word on another. `changes`
in `cpu` and `overlap` are history. In `hardclock` the word of the panel counts up, which
numbers the ticks. `stathz` 0 stands for a machine without a statistics clock: `hardclock` calls
`statclock` itself (`"stat"`), and the divider is never set. The statistics clock of the VAX
kernel is the same text.

### KprobePanel

| Action | Code |
|---|---|
| `proc_create`, `register_kprobe`, `my_kprobe_exit` | loading and unloading; the exit waits for handlers that run and for reads of the file |
| `schedule`, `handler_lock`, `handler_capture`, `handler_valid` | the probe is hit on processor 0; `handler_pre`, register by register |
| `main`, `capture_cpu_state`, `proc_read`, `proc_read_format`, `proc_read_unlock`, `send`, `delay` | the client, and the read of the file on its behalf |

A handler that has to wait for the mutex sleeps (`slept`), inside a probe: hits by other tasks
are missed meanwhile, and those who unload the module do not wait for it. A task that holds
the mutex is not hit: `proc_read` does not call `schedule()` between lock and unlock, and a
preemption does not go through that symbol.


## Runs

Every bound is a constant of the cfg.

| Run | Instance | Properties |
|---|---|---|
| `ws_two_workers` | 2 connections on 2 workers, 2 packets, peers close or reset | `NeverDeletedWhileRegistered`, `HandlerOwnsConnection`, `ImplementsFeed` |
| `ws_all_events` | 1 connection, 4 packets, all outside events, fairness | `WireProtocol`, `GoodbyeFrees`, `ImplementsFairFeed` |
| `life_safe` | 1 proxy and the web server, 3 SIGINTs, all faults, fairness | `UdpWithinRun`, `RegistryOutlivesHandlers`, `ExitAfterServers`, `SigintEnds` |
| `pipe_proxy` | any two senders, and the older client with two that share its port; one state each, headers set by hand, datagrams lost, doubled and reordered | `ProxyFaithful` |
| `vax_notify` | 2 pids, 2 processes started, 2 ticks, all faults, fairness | `FrameFresh`, `FramesForward`, `SignalAnswered` |
| `bsd_callout` | 2 functions, 3 entries, times up to 3, up to 2 ticks late, fairness | `PromptAtBase`, `EventsAnswered`, `QueueSpec` |
| `bsd_panel` | 2 clients, 2 words, 3 ticks, `Window` 1, all faults, fairness | `SleepsBriefly`, `FrameOrdered`, `TicksServed` |
| `bsd_clock` | 3 ticks a second, 4 ticks, 2 settings, values at the borders | `TicksCharged`, `TimeSlewed`, `HztoSound`, `PanelAddressRight` |
| `netbsd_clock` | 2 processors, 2 processes, divider 2, 2 words, 2 ticks, 3 changes | `ProfilersCounted`, `RateAgrees`, `FrameOrdered` |
| `linux_kprobe` | 2 clients, 1 other task, 2 words, 3 captures, fairness | `OneCapture`, `SafeUnload`, `ReadsEnd`, `FramesCome` |
| `http_request` | 19 scripts of one or two requests, cut at any byte, a deadline after one tick, ids up to 2, fairness | `AnswersInOrder`, `AllAnswered`, `Guarded`, `OnlyStaleIdsRob`, `Ends` |
| `panel_page` | 3 pages, 4 packets, a queue of 5, fairness | `LampsFollow`, `LabelTruthful`, `CatchesUp` |

What they show:

* The registry and its broadcast implement the atomic publication of `PanelFeed`; no connection
  that deletes itself is in the registry, nor has a callback waiting; a client that stays gets
  every packet once, in order and before the Close frame, and one that leaves is freed.
* A SIGINT that finds every server waiting for it ends the process, and nothing that handlers or
  UDP threads use is destroyed before them, except where `run()` had given up on its server.
* A proxy broadcasts one state of its own kind of machine, field by field.
* On the VAX and the PDP-11 frames are as fresh as what woke the client and never go back; on
  amd64 a frame is torn by one tick at most; under Linux it is one capture.
* The differences of 2.11BSD's timeout table implement a queue of deadlines; every event nobody
  cancels is called. Every tick is charged once, and the time never goes back.
* However its requests are cut, an HTTP connection answers them in order and in full, ends, and
  keeps its deadline, except in the cases `Excused` and `OnlyStaleIdsRob` name.
* The lamps of a page are those of the last state received (without those of the modes), and its
  label does not say of a closed connection that it is connected.

*Why the bounds are enough.* The registry is a set, and connections only meet through the mutex
and, on one worker, through the queue of that worker. `ws_two_workers` has two of them meet in
the registry; two connections of one worker never run at the same time, a handler of one that
waits for the mutex only delays the other, and the proofs hold for every assignment of
connections to workers. Two packets let a broadcast find the leftovers of the one before; four
let one be on the wire, one in each buffer and one posted. In the lifecycle applications only
meet in signals, in `main` and in the shared pipe, so a proxy and the web server have every
order of two; three SIGINTs are one for each handler in force and one more. The safety
properties are proved for any number of proxies. One state per sender is enough in the
pipeline, as a second could only differ in its number, except for the stale buffer, where a
second *sender* plays that part; the theorems hold for any crews and any number of states. The
VAX kernel knows one pid, so that two processes are enough
for a registration to be taken over, or a pid to be used twice; of two ticks one may come
before a read and one inside it, and a wait that is interrupted starts reads between them. The
machine of `netbsd_clock` has a statistics clock; of one that has none (`stathz` = 0, `hardclock`
calls `statclock`) the theorems speak as well.

Three entries let one event be at the head, one be overdue behind it and one be set or cancelled
at either place; two functions, of which one may be cancelled, let entries be told apart. Two
clients of the PDP-11 are enough for `last_seq` to be taken away, and two words for a frame to
be torn. The clock is a function of its arguments tick by tick: `bsd_clock` takes those at which
a branch changes its outcome, and each of them in one tick before and after; with ticks of 333
milliseconds the last tick of an int comes after 10911 seconds, and the run asks for times on
either side of it, to come and in the past. Two processes can
overlap in `startprofclock` or `stopprofclock`, and three changes bring the divider back to an
earlier value behind the back of a processor. Three captures are the last one, the one a client
reads and one that comes meanwhile. Two requests are enough for anything one leaves to the next;
longer scripts repeat that step. Ids of deadlines are cut off at `MaxId`: two let a stale id
meet the id of another connection, and scripts that are cut in several pieces go up to
`MaxCutId`. A page sees messages one at a time; four packets let one be published, one owed, one
received and one drawn.

`CHECK_DEADLOCK FALSE` is set because the systems do stop: a process that has exited, a proxy
that was stopped, a connection that has ended, a module that was unloaded, and every clock once
its bounded ticks are over.

### Fairness

`WsBroadcast!Fairness`: each connection's handlers run when they can (the operating system
schedules worker threads, asio runs what is queued, the network completes or fails a write),
and the UDP thread proceeds once it has a packet. Neither packets nor browsers nor failures are
fair: nothing makes them come. Fairness is weak, on the disjunction of a thread's steps, since
a thread does whatever comes next. `ProxyLifecycle!Fairness` is the same for main, the threads
of `run()`, of the servers and of the UDP loop; no SIGINT and no fault is fair. Starting is
fair, failing to start is not. In `VaxNotify` each client runs when it can; ticks, `Admin`, deaths
and failures are not fair.

`HttpConnection!HttpFairness`: the accepted connection starts, its timer ticks, a read of a
socket that was closed fails, and the handler of a completed read runs. Nothing makes the client
send, close or reset: `Ends` rests on the deadline alone. `PanelPage!Fairness`: what the proxy
owes is delivered, a message delivered is handled, a connection under way opens or is refused,
the two intervals run. Publishing, closing and clicks are not fair.

`BsdCallout!Fairness`: softclock proceeds, priority that was raised is lowered again, and the
clock ticks; the latter is strong fairness of a tick at base priority, because the program runs
at base priority again and again and no stretch above it is in step with the clock for ever.
`BsdPanel!Fairness`: each client proceeds, strongly, because the one processor is given to the
other client and to the clock in between; that the clock ticks is not assumed. In
`KprobePanel!Fairness` the probe is placed, other tasks are scheduled, a handler in the probe
proceeds; getting the mutex, and each client's steps, are strongly fair: the mutex wakes its
waiters in turn, and a client is kept from its steps only while the probe runs in its place.
`NetBSDClock` and `BsdClock` assume none and state no liveness.

## Where the code departs from what it says

The models have these behaviours. `ProxyFaithful` names the exchanged words, `AnswersInOrder` and
`AllAnswered` the cases of `Excused`, `OnlyStaleIdsRob` the stale ids; the other properties leave
the cases out, and a correction would not break them. What a comment or a document claims to the
contrary is quoted.

*Proxy.*
* `onopen` inserts the connection and then logs the peer's address (proxybase.cpp:22). If the
  peer has reset the connection, `get_remote_ip()` throws, the connection is freed without a
  callback, and its address stays in `ws_clients`: the next broadcast uses it.
* `onerror` logs the address of a socket Crow has closed (proxybase.cpp:31), which always throws:
  the erase behind it is skipped, and so is Crow's `check_destroy`.
* A SIGINT while the servers are constructed is lost: `stop()` finds no server (proxybase.cpp:69),
  and what it asked of Crow is forgotten when the server starts (crow_all.h:14678). The server
  then serves without its UDP thread.
* A server that takes more than three seconds comes up although `run()` has reported a failure.
* The words of a PDP-11's `ps_address` arrive exchanged.
* `server.c` listens on port 4000 alone, while the clients of the VAX and of NetBSD/amd64 send to
  4002 and 4001. It accepts a packet by a size that leaves out the padding behind the header
  (line 326), so that packets of Linux and macOS are dropped, although
  arch/LinuxX64/README.md:56 says that it "Receives LinuxX64 packets (type=5) and displays
  register values"; it does not know the type of a PDP-11, whose words come exchanged, and reads
  what looks like its packet at the offsets of a machine with 64-bit longs.
* The older client (`socket/client.c`) sends a state without a header; a proxy and the server take
  its first words for one.

*HTTP (vendored, as the program uses it).*
* The place of a `?` is taken relative to the read it came in (crow_all.h:4113) while the URL is
  routed piece by piece (9556): a query that starts in a later read becomes part of the path, and
  `OPTIONS` is answered for a piece of its URL. `OPTIONS *` is compared with `/*`.
* `HEAD` of a file sends `Content-Length: 0` and then the file; errors answered to a `HEAD` have
  a body; a `HEAD` without `Host` leaves `skip_body` set for the request behind it.
* A request behind one that asks to close is answered; a 404 says Keep-Alive and then closes;
  an upgrade that is not for a WebSocket route closes without a response; an upgrade to `h2c`
  that is cut behind its `h` loses the requests behind it.
* Deadline ids begin anew when no deadline is left. A connection whose deadline has run keeps its
  id, and cancels with it the deadline of whoever has got that id since.

*Page.*
* The lamps of the three modes are never on: the proxy sends `user_mode`, `super_mode` and
  `kernel_mode` (pdproxy.cpp:61), the page asks for `user`, `super` and `kernel` (panel.js:130),
  under comments that say "User", "Super" and "Kernel"; the labels are in index.html:76.
  `LampsFollow` leaves these lamps out.
* A closed connection is not opened again; a failed `/config.json` leaves "Connecting...";
  "WebSocket error" is written over at once. The branch for invalid JSON cannot be reached, the
  queue never holds more than one message, and nothing calls `setSwitch` or `toggleSwitch`.

*Kernels and clients.*
* VAX: a client that cannot register says that it falls back to polling (client.c:433) and waits
  for a signal instead, as does, for ever, a client whose registration another one took over. A
  pid that is used again before the next tick gets SIGUSR1.
* 2.11BSD: once the limit of a process has been raised past the hard one, every tick sends
  SIGXCPU. `hzto` wraps for a time more than 32768 ticks in the past, although kern_clock.c:453
  says that "Delta times less than 25 days can be computed \`\`exactly''"; `HztoSound` says nothing
  of those. `decode_phys_addr` masks to 21 bits, the offset to 12, and or-s where it should add;
  its comment (kern_clock.c:27) says "Returns 22-bit physical address for the given virtual pc and
  ps." `PanelAddressRight` is about the addresses that lose nothing by it.
  `last_seq` is shared by all processes: of two clients one may always be first.
* Linux: a handler that sleeps on the mutex is not waited for when the module is unloaded.
* NetBSD/amd64: `profprocs` is changed under the lock of one process only; two changes at once may
  lose a count, and the divider is then wrong until profiling ends, or longer.

## Proofs

The theorems hold for every value of the constants, under the modules' assumptions:
`WsAssumption` (each connection has one worker, `MaxPackets` is a natural number, `Events` is a
subset of those named), `LifecycleAssumption` (the web server is not a proxy, `MaxSignals` is a
natural number, `Faults` a subset of those named), `VaxAssumption` (0 is not a pid, the bounds
are natural numbers, `Faults` a subset of those named), `PanelAssumption` of `BsdPanel` (`Nobody`
is not a client, a panel has words, `Window` is a natural number), `ClockAssumption` of
`NetBSDClock` (there is a primary processor, processes are finitely many, the profiling rate is a
multiple of the rate of the clock that calls `statclock`), `KprobeAssumption` (names are
distinct, a capture has registers), `TableAssumption` of `BsdCallout` (what may be cancelled is
one of the functions, the bounds are natural numbers, one may wait at least a tick), those of
`BsdClock` and its parts (`ClockAssumption`: from 2 to 1000 ticks in a second;
`ChargeAssumption`: `MaxCpu` is a natural number; `InputAssumption`: corrections are integers,
times lie between 24 days ago and the end of a long; `AddressAssumption`: a pc and a mapping
register have 16 bits; `SettingAssumption`: timers and limits are natural numbers, and no limit
is set above the greatest one), `PipelineAssumption` (`Crews` are sets of the senders named,
counts and flags natural numbers), `PageAssumption` (the states a page gets have the members its
proxy sends) and `HttpAssumption` (a script is a sequence of requests, of any methods, URLs and
headers; a deadline has at least one tick, the bounds are natural numbers).

`WsBroadcastProofs`: `TypeCorrect` (`TypeOK`), `RegistryCorrect` (`RegistryInv`), and from them
`NoDeletedClient` (`NeverDeletedWhileRegistered`), `HandlersOwnTheirConnection`
(`HandlerOwnsConnection`) and `IteratorValid` (`IterationStable`). That no freed connection is
registered is not inductive: a connection is freed without another look at the registry once
its Close frame has been handled. `RegistryInv` adds why that is sound: whoever has handled a
Close frame either still waits for the mutex or has left the registry, a handler that waits
keeps its object alive because nothing else runs on its worker, and what an iteration still
has to serve is part of the registry. The proof has one lemma for each action or group of
actions; temporal steps are left to PTL.

The second part is about the wire: `WireCorrect` (`WireInv`) and from it `WireProtocolKept`
(`WireProtocol`). That nothing follows the Close frame on the wire is not inductive, because
`close()` puts its frame into a buffer that posts may still be appended to. `WireInv` says for
each connection what is in which buffer until the handshake's response is out (`Opening`); that a
Close frame comes last in the write under way, and that one which has to wait for the frames
before it waits for good, as the end of their write frees the connection (`Closing`); and that
the Close handler is called once, by a reader that then reads no more (`Reader`).

The third part is the refinement: `ProxyImplementsFeed` (`ImplementsFeed`), and from it
`NoClientMissesAPacket`. `FeedInv` says what the mapping needs beside the registry's invariant: an
iteration has a packet, nothing is posted to a connection that was never opened, a connection
that is freed or waits to leave the registry has been told to close. Each action is
mapped to `Publish`, to `Deliver`, to the loss of a client or to a stutter. The packets among the
frames of a buffer are a filter, which the library defines by recursion; the lemmas that say
what it does to an appended frame are proved by induction over sets of numbers (a least element
that does not have the property), which needs no theorem that takes an operator.

`CrowProofs` has two parts. Lifecycle: `LifeTypeCorrect` (`TypeOK`), `LifecycleCorrect`
(`LifecycleInv`), and from them `UdpThreadJoined` (`UdpWithinRun`), `RegistryDestroyedLast`
(`RegistryOutlivesHandlers`) and `ExitsLast` (`ExitAfterServers`). None of the three is inductive:
that the UDP thread ends in time depends on `run()` having joined it, that `main` destroys nothing
too early on what the return of each `run()` says about its server. `LifecycleInv` says what the
progress of `run()` and `main` tells of servers, UDP threads and objects (`RunTells`, `UdpTells`,
`MainTells`).

HTTP connection: `HttpInvCorrect` (`HttpInv`), and from it `DeadlineGuards` (`Guarded`) and
`OnlyStaleIdsAreRobbed` (`OnlyStaleIdsRob`). One read runs the parser over a whole chunk, in the
middle of which requests are completed, answered, and their deadlines cancelled, any number of
times. The proof goes up from the smallest operator: `Same` says that writing, clearing and
answering leave deadline, phase and `thrown` alone; `Fed` says what a callback may leave, namely a
connection whose task is still there and that has not thrown, or one whose task is cancelled,
once or again (`Running`, `Stopped`); every state of the parser keeps that (`IsLocals`), so an
induction over the bytes of a chunk (`LocalsExecute`) gives it for `feed`, and the three ends of
`do_read`'s handler lead from it to a connection that is over or has a new task (`Over`,
`Renewed`). The induction is over a set of numbers and needs the recursive function to exist
(`ParsedExists`). `Guarded` alone is not inductive: a cancelled id may be another connection's, so
`HttpInv` says the same of that one (`OtherGuarded`), that tasks only have ids that were given away,
and what a connection between two handlers looks like (`AtRest`): not thrown, no file pending, a
read under way only if a deadline or a reset has overtaken it.

`VaxNotifyProofs`: `VaxTypeCorrect` (`TypeOK`), `WordsInOrder` (`OrderInv`), and from them
`FramesAreFresh` (`FrameFresh`) and `FramesMoveForward` (`FramesForward`). Neither of the last two
is inductive, as a frame is put together in four steps with ticks in between: `OrderInv` says
for every one of them which word is older than which.

`BsdPanelProofs`: `PanelCorrect` (`TypeOK` and `FrameInv`), and from it `SleepIsBrief`
(`SleepsBriefly`) and `FramesInOrder` (`FrameOrdered`). `FrameInv` says how far a client has
copied and in which order what it holds was written (`InOrder`), and what a client that has
tested `panel_seq` may have missed before it sleeps (`Brief`).

`NetBSDClockProofs`: `ClockCorrect`, and from it `ProfprocsCounts` (`ProfilersCounted`),
`RatesAgree` (`RateAgrees`) and `FramesTornByOneTick` (`FrameOrdered`). `CountInv` counts the
processes whose change has been stored, so that it holds in the middle of a change; `RateInv`
says what a processor knows of a divider that changed while `statclock` read it four times;
`PanelInv` says how far the frame is written and that the reader never holds a word from the
future.

`KprobeProofs`: `KprobeCorrect`, and from it `DatagramsHoldOneCapture` (`OneCapture`) and
`UnloadedWhenLeft` (`SafeUnload`). `ProbeInv` says that the registers before the handler's
position are those of the capture under way, and who may be in the module at each stage of its
unloading; `ClientInv` that a capture stays whole under the mutex on its way to the datagram.

`BsdClockProofs` has two parts. Callout: `CalloutCorrect` (`TypeOK` and `CalloutInv`), and from it
`CalledPromptly` (`PromptAtBase`) and `ListImplementsQueue` (`QueueSpec`). That an event due is
called at once at base priority is not inductive: it depends on the order of the entries that are
late, which only the first running difference of the list shows. The sum of the differences up to
an entry (`Left`) is recursive; the proofs give it a closed form, show that the walk of `timeout`
stops at the place where the sums say it should, and that ticks, insertion and removal change the
sums of the other entries as they should. The entries then form a bag of functions with the ticks
they have left, and every step of the list is a step of the queue or a stutter.

Clock: `ClockCorrect` (`ClockInv`), and from it `ClockCharges` (`TicksCharged`), `ClockSlews`
(`TimeSlewed`), `ClockWaits` (`HztoSound`) and `ClockShows` (`PanelAddressRight`). That each
signal was sent as often as it should is not inductive, since a timer and a limit have a state of
their own: `ClockInv` gives both in closed form after any number of ticks (`TimerAt`, `LimitAt`:
not reached yet, raised so many times, or passed for good), and the lemmas show that a tick leads
from one to the next and adds what `Fired` and `Warned` count. The time is kept by a sum: time and
what is left of the correction are ticks and corrections. `hzto` is proved by its branches, with a
lemma that quotient and remainder are unique; times to come have no bound but the type's, times
in the past the 32768 ticks that an int can say. For the address, `And` is shown to exist and to be
what its recursion says, by induction over a set of numbers (`SetInduction`); then that to shift
one operand up by six bits is to shift the other one down (`AndShifted6`), and that the or of two
numbers of six bits has six bits (`Within64`), which leaves `LampsRight`: where no mask cuts a bit
off and no bit is met twice, the or is the sum the hardware makes.

`DisplayProofs` has two parts. Pipeline: `PipeInvCorrect` (`PipeInv`), and from it
`PipeProxyFaithful` (`ProxyFaithful`). `PipeInv` says of every datagram on its way which packet
of which sender it is, and of what a proxy has shown that it is one of them read field by field.
The lemmas say what a declaration finds in the memory of another one: only a payload of the right
length and the right port is taken, and the two words of a PDP-11's address come exchanged. Page:
`PageInvCorrect` (`PageInv`), and from it `LampsAlwaysFollow` (`LampsFollow`, the lamps of the
mode left aside) and `LabelAlwaysTruthful` (`LabelTruthful`). The scripts only touch the lamps a
mask names, and mask and record are made of the last *two* messages: `PageInv` gives both in
closed form (`LampPanel`, `RegisterPanel`, with the halves of 32 bits of the amd64 page), says
that the queue is empty between tasks, what label each state of the connection may bear
(`LabelInv`), and that the feed only ever appends to what the page has received.

Only model-checked:
* Liveness, because the prover has neither fairness nor `ENABLED`: `GoodbyeFrees`,
  `ImplementsFairFeed`, `SigintEnds`, `SignalAnswered`, `EventsAnswered`, `TicksServed`, `ReadsEnd`,
  `FramesCome`, `Ends`, `CatchesUp`.
* `AnswersInOrder` and `AllAnswered` of `HttpConnection`: what the parser computes from the text of
  a request, and what `find`, a RECURSIVE operator, looks up in the tries. The theorems about the
  connection hold whatever bytes come and whatever is found; these two are about the very bytes.

## Not modelled

* NetBSD and 2.11BSD kernels: samples for the random pool, the scheduler's own ticks, the sysctl
  that reports the rates, `profil`'s histogram, the time the drives are busy, and the table of
  system calls. They neither read nor change the panel or the timers.
* macOS client: what it samples comes from the host (`thread_get_state`, `host_statistics`), and
  only the load of the last sample is kept. Its start and its packet are in `PanelPipeline`.
* Crow: blueprints, middleware, numeric parameters of rules, streams of large bodies, TLS,
  compression, fragmented WebSocket messages and the handshake's hash. The program uses none of
  them, except the hash, which has no state. JSON and templates are libraries without state.
* Pages: styles, pictures, the test page `wsclient.html`; the format of the time in the label and
  the scaling of the VAX page are layout.
* Programs that print what they find once (`endiantest.c` and the like), logging, build files.

## Plan

1. Done: every module above, its runs and its proofs.
2. Composition of `ProxyLifecycle` with `WsBroadcast`: connections destroyed with their server in
   the middle of a broadcast.
3. `VaxNotify` with a client that really polls, once the code does.
4. `PanelPage` with a page that opens its connection again, once the code does.
