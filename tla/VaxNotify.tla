----------------------------- MODULE VaxNotify -----------------------------
(***************************************************************************)
(* The panel of NetBSD/VAX: hardclock copies the interrupted frame into    *)
(* `panel' and signals the registered process; the client waits for the    *)
(* signal in kevent, reads the panel from /dev/kmem and sends it           *)
(* (socket/arch/NetBSDVAX/kern_clock.c and client.c).                      *)
(*                                                                         *)
(* hardclock is one step: it runs in the clock interrupt of the primary    *)
(* CPU.  The interrupt may come between the two words the client reads.    *)
(*                                                                         *)
(* Abstractions.  The words of the panel are the number of the tick that   *)
(* wrote them.  A frame given to sendto counts as sent whatever becomes of *)
(* it: the errors the client goes on after are a loss like any other.      *)
(* Nothing makes EVFILT_USER fire, so SIGUSR1 is the only event.           *)
(***************************************************************************)
EXTENDS Integers

CONSTANTS Pid,        \* process identifiers
          MaxTicks,   \* bound: clock interrupts of the primary CPU
          MaxStarts,  \* bound: processes started with an identifier of Pid
          Faults      \* what may go wrong in an instance

ASSUME VaxAssumption ==
  /\ 0 \notin Pid /\ MaxTicks \in Nat /\ MaxStarts \in Nat
  /\ Faults \subseteq {"kqueue", "kevent", "sysctl", "io", "kill", "admin",
                       "others", "interrupt"}

VARIABLES
  ticks,                       \* the tick `panel' was written in
  panel_notification_enabled,
  panel_client_pid,            \* 0 when there is none
  starts,                      \* processes started so far
  proc,                        \* what a pid names: none, client, other, zombie
  client                       \* per pid: the client's variables

vars == <<ticks, panel_notification_enabled, panel_client_pid, starts, proc,
          client>>
kernelVars == <<ticks, panel_notification_enabled, panel_client_pid>>

(* at: where main() is; ignores: SIGUSR1 is SIG_IGN; kq: notifications are  *)
(* available; knote: kevent has something to report; panel: what was read;  *)
(* frame: the last one sent.  History: signalled is the tick of the last    *)
(* signal, heard that of the last one kevent reported.                      *)
NoWords == [address |-> 0, data |-> 0]
Fresh == [at |-> "setup", ignores |-> FALSE, kq |-> FALSE, knote |-> FALSE,
          panel |-> NoWords, frame |-> NoWords, signalled |-> 0, heard |-> 0]

Init ==
  /\ ticks = 0 /\ starts = 0
  /\ panel_notification_enabled = TRUE /\ panel_client_pid = 0
  /\ proc = [p \in Pid |-> "none"]
  /\ client = [p \in Pid |-> Fresh]

-----------------------------------------------------------------------------
(* Processes.                                                               *)
Start(p, kind) ==
  /\ proc[p] = "none" /\ starts < MaxStarts
  /\ kind = "client" \/ "others" \in Faults
  /\ starts' = starts + 1
  /\ proc' = [proc EXCEPT ![p] = kind]
  /\ client' = [client EXCEPT ![p] = Fresh]
  /\ UNCHANGED kernelVars

Dies(p) == proc' = [proc EXCEPT ![p] = "zombie"]

Kill(p) ==
  /\ "kill" \in Faults /\ proc[p] \in {"client", "other"}
  /\ Dies(p)
  /\ UNCHANGED <<kernelVars, starts, client>>

Reap(p) ==
  /\ proc[p] = "zombie"
  /\ proc' = [proc EXCEPT ![p] = "none"]
  /\ UNCHANGED <<kernelVars, starts, client>>

(* sysctl -w hw.panel.enabled, hw.panel.client_pid=0, by hand.              *)
Admin ==
  /\ "admin" \in Faults
  /\ \/ /\ panel_notification_enabled' \in BOOLEAN
        /\ UNCHANGED panel_client_pid
     \/ panel_client_pid' = 0 /\ UNCHANGED panel_notification_enabled
  /\ UNCHANGED <<ticks, starts, proc, client>>

-----------------------------------------------------------------------------
(* psignal: kevent reports SIGUSR1 even to a process that ignores it, once  *)
(* however often it came; by default it ends the process.                   *)
Signal(p) ==
  IF proc[p] = "client" /\ client[p].ignores
  THEN /\ client' = IF client[p].kq
                    THEN [client EXCEPT ![p].knote = TRUE,
                                        ![p].signalled = ticks']
                    ELSE client
       /\ UNCHANGED proc
  ELSE Dies(p) /\ UNCHANGED client

(* panel_notify_userspace: clears a registration whose process is gone.     *)
Notify ==
  LET p == panel_client_pid
  IN IF ~panel_notification_enabled \/ p = 0
     THEN UNCHANGED <<panel_client_pid, proc, client>>
     ELSE IF proc[p] \in {"zombie", "none"}
          THEN panel_client_pid' = 0 /\ UNCHANGED <<proc, client>>
          ELSE Signal(p) /\ UNCHANGED panel_client_pid

(* hardclock on the primary CPU: the panel first, then the notification.    *)
Tick ==
  /\ ticks < MaxTicks
  /\ ticks' = ticks + 1
  /\ Notify
  /\ UNCHANGED <<panel_notification_enabled, starts>>

-----------------------------------------------------------------------------
(* The client's main().                                                     *)
At(p, step) == proc[p] = "client" /\ client[p].at = step
Goes(p, step) == client' = [client EXCEPT ![p].at = step]
Exits(p) == Dies(p) /\ UNCHANGED <<kernelVars, starts, client>>

(* setup_panel_notification: kqueue, SIG_IGN, kevent.  main goes on if it   *)
(* fails.                                                                   *)
SetupPanelNotification(p) ==
  /\ At(p, "setup")
  /\ \E ignores, kq \in BOOLEAN :
       /\ ~ignores => "kqueue" \in Faults /\ ~kq
       /\ ignores /\ ~kq => "kevent" \in Faults
       /\ client' = [client EXCEPT ![p].at = "register",
                                   ![p].ignores = ignores, ![p].kq = kq]
  /\ UNCHANGED <<kernelVars, starts, proc>>

(* register_with_kernel: two sysctl commands, failures are only reported.   *)
RegisterPid(p) ==
  /\ At(p, "register") /\ Goes(p, "enable")
  /\ \/ panel_client_pid' = p
     \/ "sysctl" \in Faults /\ UNCHANGED panel_client_pid
  /\ UNCHANGED <<ticks, panel_notification_enabled, starts, proc>>

RegisterEnabled(p) ==
  /\ At(p, "enable") /\ Goes(p, "open")
  /\ \/ panel_notification_enabled' = TRUE
     \/ "sysctl" \in Faults /\ UNCHANGED panel_notification_enabled
  /\ UNCHANGED <<ticks, panel_client_pid, starts, proc>>

(* open_kmem_and_find_panel and create_udp_socket.                          *)
Open(p) ==
  /\ At(p, "open") /\ Goes(p, "wait")
  /\ UNCHANGED <<kernelVars, starts, proc>>

(* wait_for_panel_notification: kevent without a timeout takes what the     *)
(* knote holds.                                                             *)
WaitThenHalfRead(p) ==        \* mutant: reads the second word only
  /\ At(p, "wait") /\ client[p].kq /\ client[p].knote
  /\ client' = [client EXCEPT ![p].at = "data", ![p].knote = FALSE,
                              ![p].heard = client[p].signalled]
  /\ UNCHANGED <<kernelVars, starts, proc>>
WaitForPanel(p) ==
  /\ At(p, "wait") /\ client[p].kq /\ client[p].knote
  /\ client' = [client EXCEPT ![p].at = "address", ![p].knote = FALSE,
                              ![p].heard = client[p].signalled]
  /\ UNCHANGED <<kernelVars, starts, proc>>

WaitFails(p) == At(p, "wait") /\ ~client[p].kq /\ Exits(p)

(* kevent is interrupted: taken for the signal, though the knote keeps what *)
(* it holds.                                                                *)
WaitInterrupted(p) ==
  /\ "interrupt" \in Faults
  /\ At(p, "wait") /\ client[p].kq /\ Goes(p, "address")
  /\ UNCHANGED <<kernelVars, starts, proc>>

(* read_panel_from_kmem: one read(2), which the clock may interrupt.        *)
ReadAddress(p) ==
  /\ At(p, "address")
  /\ client' = [client EXCEPT ![p].at = "data", ![p].panel.address = ticks]
  /\ UNCHANGED <<kernelVars, starts, proc>>

ReadDataRearmed(p) ==         \* mutant: signals during the read are dropped
  /\ At(p, "data")
  /\ client' = [client EXCEPT ![p].at = "send", ![p].panel.data = ticks,
                              ![p].knote = FALSE]
  /\ UNCHANGED <<kernelVars, starts, proc>>
ReadData(p) ==
  /\ At(p, "data")
  /\ client' = [client EXCEPT ![p].at = "send", ![p].panel.data = ticks]
  /\ UNCHANGED <<kernelVars, starts, proc>>

SendFrame(p) ==
  /\ At(p, "send")
  /\ client' = [client EXCEPT ![p].at = "wait", ![p].frame = client[p].panel]
  /\ UNCHANGED <<kernelVars, starts, proc>>

(* No panel symbol, no /dev/kmem, no socket; read fails; sendto fails for   *)
(* good.                                                                    *)
Fails(p) ==
  /\ "io" \in Faults
  /\ At(p, "open") \/ At(p, "address") \/ At(p, "send")
  /\ Exits(p)

-----------------------------------------------------------------------------
ClientStep(p) ==
  \/ SetupPanelNotification(p) \/ RegisterPid(p) \/ RegisterEnabled(p)
  \/ Open(p) \/ WaitForPanel(p) \/ WaitFails(p)
  \/ ReadAddress(p) \/ ReadData(p) \/ SendFrame(p)

Next ==
  \/ Tick \/ Admin
  \/ \E p \in Pid : \/ \E kind \in {"client", "other"} : Start(p, kind)
                    \/ Kill(p) \/ Reap(p) \/ ClientStep(p) \/ Fails(p)
                    \/ WaitInterrupted(p)

Spec == Init /\ [][Next]_vars

(* A process that can run does; ticks, failures and people are not fair.    *)
FairSpec == Spec /\ \A p \in Pid : WF_vars(ClientStep(p))

-----------------------------------------------------------------------------
Steps == {"setup", "register", "enable", "open", "wait", "address", "data",
          "send"}
Words == [address : 0..MaxTicks, data : 0..MaxTicks]

(* Types of the kernel's and the clients' variables.                        *)
TypeOK ==
  /\ ticks \in 0..MaxTicks /\ starts \in 0..MaxStarts
  /\ panel_notification_enabled \in BOOLEAN
  /\ panel_client_pid \in Pid \cup {0}
  /\ proc \in [Pid -> {"none", "client", "other", "zombie"}]
  /\ client \in [Pid -> [at : Steps, ignores : BOOLEAN, kq : BOOLEAN,
                         knote : BOOLEAN, panel : Words, frame : Words,
                         signalled : 0..MaxTicks, heard : 0..MaxTicks]]

(* A frame is at least as new as the signal it answers, though the signals  *)
(* of several ticks may be one and the words of a frame of two ticks: the   *)
(* kernel writes the panel before it signals, the client takes the signal   *)
(* before it reads.                                                         *)
FrameFresh ==
  \A p \in Pid : At(p, "wait") => client[p].frame.address >= client[p].heard

(* Frames never go back: each is at least as new, in both words, as the     *)
(* newer word of the one before.                                            *)
Forward(p) ==
  client'[p].frame \notin {client[p].frame, NoWords}
    => /\ client'[p].frame.address >= client[p].frame.data
       /\ client'[p].frame.data >= client'[p].frame.address
FramesForward == [][\A p \in Pid : Forward(p)]_vars

(* The inductive invariant behind both: the order in which a client's words *)
(* were written, wherever it is.                                            *)
Ordered(c) ==
  /\ c.heard <= c.signalled /\ c.signalled <= ticks
  /\ c.frame.address <= c.frame.data
  /\ c.frame.data <= c.panel.data
  /\ c.panel.address <= ticks /\ c.panel.data <= ticks
  /\ c.at \in {"data", "send"} => /\ c.frame.data <= c.panel.address
                                 /\ c.heard <= c.panel.address
  /\ c.at = "send" => c.panel.address <= c.panel.data
  /\ c.at = "wait" => c.heard <= c.frame.address
  /\ c.at \in {"setup", "register", "enable", "open"} => c.heard = 0
OrderInv == \A p \in Pid : Ordered(client[p])

(* No signal is lost on a client that has its kqueue: it sends a frame at   *)
(* least as new, or is gone.                                                *)
SignalAnswered ==
  \A p \in Pid : \A t \in 1..MaxTicks :
    (proc[p] = "client" /\ client[p].signalled = t)
      ~> (proc[p] # "client" \/ client[p].frame.address >= t)
=============================================================================
