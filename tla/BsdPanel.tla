------------------------------ MODULE BsdPanel ------------------------------
(***************************************************************************)
(* The panel of 2.11BSD on a PDP-11: hardclock writes it and counts it in  *)
(* panel_seq; a client copies it from /dev/kmem, sends it and waits for    *)
(* the next one in the system call sys_wait_for_panel.  There is one       *)
(* processor: a process in the kernel keeps it until it sleeps or returns, *)
(* and only the clock interrupts it, between any two words it copies and   *)
(* also between its test of panel_seq and its sleep.                       *)
(*                                                                         *)
(* A word of the panel is the number of the tick that wrote it, so that    *)
(* words of different ticks can be told apart; panel_seq is not wrapped.   *)
(***************************************************************************)
EXTENDS Integers, FiniteSets

CONSTANTS
  Client,    \* processes that run client.c
  Nobody,    \* no client
  NWords,    \* words of the panel that hardclock writes: 4 in the code
  MaxTicks,  \* bound: ticks of the clock
  Window,    \* bound: ticks between the test of panel_seq and the sleep
  Faults     \* what may go wrong: "setup", "read", "send", "signal"

ASSUME PanelAssumption ==
  Nobody \notin Client /\ NWords \in Nat \ {0} /\ Window \in Nat

VARIABLES
  panel,      \* the kernel's panel: the tick that wrote each word
  panel_seq,
  last_seq,   \* the static variable of sys_wait_for_panel
  inKernel,   \* the client that is in a system call and not asleep, if any
  client,     \* per client: where it is and what it has read
  frames      \* ghost: frames sent by all clients

vars == <<panel, panel_seq, last_seq, inKernel, client, frames>>

(* ps_address is a long, its high word first, then ps_data and ps_psw; the *)
(* four words after them are never written.                                *)
Words == 1 .. NWords

Places == {"setup", "read", "copy", "send", "test", "block", "asleep",
           "gone"}

(* at: where the client is; next: the word it copies next; copied: the     *)
(* packet it builds; seen: panel_seq when it last returned from the wait;  *)
(* missed: ticks since its last test of panel_seq that found it awake;     *)
(* signalled: a signal is pending that it does not handle.                 *)
Fresh == [at |-> "setup", next |-> 1, copied |-> [w \in Words |-> 0],
          seen |-> 0, missed |-> 0, signalled |-> FALSE]

Init ==
  /\ panel = [w \in Words |-> 0]
  /\ panel_seq = 0
  /\ last_seq = 0
  /\ inKernel = Nobody
  /\ client = [p \in Client |-> Fresh]
  /\ frames = 0

-----------------------------------------------------------------------------
Move(p, to) == client' = [client EXCEPT ![p].at = to]

UserMode(p, place) == client[p].at = place /\ inKernel = Nobody

KernelMode(p, place) == client[p].at = place /\ inKernel = p

(* Mutant: the wakeup is left out.                                         *)
hardclockSilent ==
  /\ panel_seq < MaxTicks
  /\ panel_seq' = panel_seq + 1
  /\ panel' = [w \in Words |-> panel_seq + 1]
  /\ UNCHANGED <<last_seq, inKernel, client, frames>>

(* The end of hardclock: the panel is written, counted, and those asleep   *)
(* on panel_seq are made runnable.                                         *)
hardclock ==
  /\ panel_seq < MaxTicks
  /\ \A p \in Client : client[p].at = "block" => client[p].missed < Window
  /\ panel_seq' = panel_seq + 1
  /\ panel' = [w \in Words |-> panel_seq + 1]
  /\ client' = [p \in Client |->
                  CASE client[p].at = "asleep" ->
                         [client[p] EXCEPT !.at = "test"]
                    [] client[p].at = "block" ->
                         [client[p] EXCEPT !.missed = @ + 1]
                    [] OTHER -> client[p]]
  /\ UNCHANGED <<last_seq, inKernel, frames>>

-----------------------------------------------------------------------------
(* main and the beginning of send_frames: nm, /dev/kmem and the socket.    *)
setup(p) ==
  /\ UserMode(p, "setup")
  /\ \/ Move(p, "read")
     \/ "setup" \in Faults /\ Move(p, "gone")
  /\ UNCHANGED <<panel, panel_seq, last_seq, inKernel, frames>>

(* read_panel_from_kmem enters read(); a failure ends the loop.            *)
read_panel_from_kmem(p) ==
  /\ UserMode(p, "read")
  /\ \/ /\ client' = [client EXCEPT ![p].at = "copy", ![p].next = 1]
        /\ inKernel' = p
     \/ /\ "read" \in Faults
        /\ Move(p, "gone")
        /\ UNCHANGED inKernel
  /\ UNCHANGED <<panel, panel_seq, last_seq, frames>>

(* Mutant: the words are copied from the last to the first.                *)
copyDown(p) ==
  /\ KernelMode(p, "copy")
  /\ LET w == client[p].next IN
       client' = [client EXCEPT
                    ![p].copied[NWords + 1 - w] = panel[NWords + 1 - w],
                    ![p].next = IF w = NWords THEN 1 ELSE w + 1,
                    ![p].at = IF w = NWords THEN "send" ELSE "copy"]
  /\ inKernel' = IF client[p].next = NWords THEN Nobody ELSE p
  /\ UNCHANGED <<panel, panel_seq, last_seq, frames>>

(* The kernel copies one word.                                             *)
copy(p) ==
  /\ KernelMode(p, "copy")
  /\ LET w == client[p].next IN
       client' = [client EXCEPT
                    ![p].copied[w] = panel[w],
                    ![p].next = IF w = NWords THEN 1 ELSE w + 1,
                    ![p].at = IF w = NWords THEN "send" ELSE "copy"]
  /\ inKernel' = IF client[p].next = NWords THEN Nobody ELSE p
  /\ UNCHANGED <<panel, panel_seq, last_seq, frames>>

(* sendto, and then sys 67.                                                *)
send(p) ==
  /\ UserMode(p, "send")
  /\ \/ /\ frames' = frames + 1
        /\ inKernel' = p
        /\ Move(p, "test")
     \/ /\ "send" \in Faults
        /\ Move(p, "gone")
        /\ UNCHANGED <<inKernel, frames>>
  /\ UNCHANGED <<panel, panel_seq, last_seq>>

(* Mutant: the caller waits for the second tick.                           *)
MustWaitTwo == panel_seq - last_seq =< 1

(* The condition of the while loop in sys_wait_for_panel.                  *)
MustWait == last_seq = panel_seq

sys_wait_for_panel(p) ==
  /\ client[p].at = "test"
  /\ inKernel \in {p, Nobody}
  /\ IF MustWait
     THEN /\ inKernel' = p
          /\ client' = [client EXCEPT ![p].at = "block", ![p].missed = 0]
          /\ UNCHANGED last_seq
     ELSE /\ inKernel' = Nobody
          /\ client' = [client EXCEPT ![p].at = "read",
                                      ![p].seen = panel_seq]
          /\ last_seq' = panel_seq
  /\ UNCHANGED <<panel, panel_seq, frames>>

(* tsleep with PCATCH: with a signal pending it returns at once, and the   *)
(* loop, which does not look at what it returned, tests again.             *)
tsleep(p) ==
  /\ KernelMode(p, "block")
  /\ IF client[p].signalled
     THEN Move(p, "test") /\ UNCHANGED inKernel
     ELSE Move(p, "asleep") /\ inKernel' = Nobody
  /\ UNCHANGED <<panel, panel_seq, last_seq, frames>>

(* A signal the client has no handler for; it ends a sleep with PCATCH.    *)
signal(p) ==
  /\ "signal" \in Faults
  /\ client[p].at # "gone" /\ ~client[p].signalled
  /\ client' = [client EXCEPT
                  ![p].signalled = TRUE,
                  ![p].at = IF @ = "asleep" THEN "test" ELSE @]
  /\ UNCHANGED <<panel, panel_seq, last_seq, inKernel, frames>>

(* The signal is acted upon when the client is about to return to user     *)
(* mode, and only then.                                                    *)
die(p) ==
  /\ client[p].signalled
  /\ inKernel = Nobody
  /\ client[p].at \in {"setup", "read", "send"}
  /\ Move(p, "gone")
  /\ UNCHANGED <<panel, panel_seq, last_seq, inKernel, frames>>

Step(p) ==
  \/ setup(p)
  \/ read_panel_from_kmem(p)
  \/ copy(p)
  \/ send(p)
  \/ sys_wait_for_panel(p)
  \/ tsleep(p)
  \/ die(p)

Next ==
  \/ hardclock
  \/ \E p \in Client : Step(p)
  \/ \E p \in Client : signal(p)

(* The scheduler lets every process go on in turn.  Nothing is assumed of  *)
(* the clock.                                                              *)
Fairness == \A p \in Client : SF_vars(Step(p))

Spec == Init /\ [][Next]_vars /\ Fairness

-----------------------------------------------------------------------------
Ticks == 0 .. MaxTicks

(* Every variable has its type.                                            *)
TypeOK ==
  /\ panel \in [Words -> Nat]
  /\ panel_seq \in Nat /\ last_seq \in Nat /\ frames \in Nat
  /\ inKernel \in Client \union {Nobody}
  /\ client \in [Client -> [at : Places, next : Words,
                            copied : [Words -> Nat], seen : Nat,
                            missed : Nat, signalled : BOOLEAN]]

(* hardclock may tick between the test of panel_seq and the sleep, and its *)
(* wakeup then finds nobody asleep.  That delays the client by the ticks   *)
(* that fell into that moment and no more, whichever client moved last_seq *)
(* meanwhile.                                                              *)
SleepsBriefly ==
  \A p \in Client :
    client[p].at \in {"block", "asleep"} =>
      /\ panel_seq - last_seq =< client[p].missed
      /\ client[p].missed =< Window

(* The words of a frame are copied in order while ticks go on: it may mix  *)
(* ticks, but a word is never older than the one before it, nor than the   *)
(* tick the client was woken for, and the words of the next frame are at   *)
(* least as new as the newest of this one.                                 *)
FrameOrdered ==
  \A p \in Client :
    LET c == client[p]
        sent == {"test", "block", "asleep", "send"}
    IN  /\ c.at \in sent => \A v, w \in Words :
             v =< w => c.copied[v] =< c.copied[w]
        /\ c.at \in sent => c.copied[1] >= c.seen
        /\ c.at = "copy" => \A v, w \in Words :
             v < c.next /\ w >= c.next => c.copied[v] >= c.copied[w]

(* The ticks that nobody has been given do not pile up: if more of them    *)
(* have passed than fit between a test and a sleep, then even if the clock *)
(* stops a waiting client returns, though not each of them need: another   *)
(* client may always be first.                                             *)
Waiting == \E p \in Client : client[p].at \in {"test", "block", "asleep"}

TicksServed ==
  \A n \in Ticks :
    (last_seq = n /\ panel_seq > n + Window /\ Waiting)
      ~> (last_seq > n \/ ~Waiting)
=============================================================================
