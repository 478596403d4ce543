---------------------------- MODULE KprobePanel ----------------------------
(***************************************************************************)
(* The Linux panel: a kernel module with a probe at the beginning of       *)
(* schedule() that captures the registers on processor 0, a file in /proc  *)
(* that prints the last capture, and the clients that read it and send it. *)
(* A mutex guards the capture.  The probe's handler takes it too, in the   *)
(* middle of schedule(): when it has to wait it sleeps, another task gets  *)
(* the processor, and until it is done the probe hits that follow on this  *)
(* processor are missed.                                                   *)
(*                                                                         *)
(* A register of a capture is the number of the capture; 0 stands for the  *)
(* contents before the first.                                              *)
(***************************************************************************)
EXTENDS Integers, FiniteSets

CONSTANTS
  Client,      \* tasks that run client.c
  Other,       \* other tasks on processor 0
  None,        \* no task
  NWords,      \* registers: 21 in the code
  MaxCaptures  \* bound: captures

ASSUME KprobeAssumption ==
  /\ {None, "probe"} \intersect (Client \union Other) = {}
  /\ None # "probe"
  /\ NWords \in Nat \ {0}

VARIABLES
  module,    \* how far the module is loaded or unloaded
  mutex,     \* regs_mutex: the client that holds it, "probe" or None
  captured,  \* captured_regs
  regs_valid,
  handler,   \* handler_pre on processor 0
  client,    \* per client: where it is, what it has read
  count      \* ghost: captures begun

vars == <<module, mutex, captured, regs_valid, handler, client, count>>

Words == 1 .. NWords

Task == Client \union Other

Idle == [task |-> None, at |-> "out", word |-> 1, slept |-> FALSE]

Init ==
  /\ module = "absent"
  /\ mutex = None
  /\ captured = [w \in Words |-> 0]
  /\ regs_valid = FALSE
  /\ handler = Idle
  /\ client = [c \in Client |-> [at |-> "start", word |-> 1, data |-> FALSE,
                                 regs |-> [w \in Words |-> 0], sent |-> 0]]
  /\ count = 0

-----------------------------------------------------------------------------
(* proc_create and then register_kprobe; if that fails the file is removed *)
(* again.                                                                  *)
proc_create ==
  /\ module = "absent"
  /\ module' = "created"
  /\ UNCHANGED <<mutex, captured, regs_valid, handler, client, count>>

register_kprobe ==
  /\ module = "created"
  /\ module' \in {"loaded", "unprobed"}
  /\ UNCHANGED <<mutex, captured, regs_valid, handler, client, count>>

(* The probe is taken away, and its handlers are waited for, but as the    *)
(* kernel sees it one that has been switched away from is done.            *)
unregister_kprobe ==
  /\ module = "loaded"
  /\ handler.task = None \/ handler.slept
  /\ module' = "unprobed"
  /\ UNCHANGED <<mutex, captured, regs_valid, handler, client, count>>

InProcRead(c) == client[c].at \in {"lock", "format", "unlock"}

(* The file is taken away, once the calls of proc_read have returned, and  *)
(* then the module's memory.                                               *)
proc_remove ==
  /\ module = "unprobed"
  /\ \A c \in Client : ~InProcRead(c)
  /\ module' = "gone"
  /\ UNCHANGED <<mutex, captured, regs_valid, handler, client, count>>

(* Mutant: the probe is left where it is.                                  *)
my_kprobe_exitProbed ==
  /\ module = "loaded"
  /\ \A c \in Client : ~InProcRead(c)
  /\ module' = "gone"
  /\ UNCHANGED <<mutex, captured, regs_valid, handler, client, count>>

my_kprobe_exit == unregister_kprobe \/ proc_remove

-----------------------------------------------------------------------------
(* A task calls schedule() on processor 0, where the probe hits it unless  *)
(* it is at work there already; elsewhere handler_pre returns at once.     *)
(* It does so to sleep, to wait for the mutex or at the end of its time    *)
(* slice, but never while it holds the mutex.                              *)
schedule(t) ==
  /\ module = "loaded" /\ handler.task = None
  /\ mutex # t
  /\ count < MaxCaptures
  /\ handler' = [Idle EXCEPT !.task = t, !.at = "lock"]
  /\ UNCHANGED <<module, mutex, captured, regs_valid, client, count>>

(* The handler waits for the mutex; should the module's memory be gone by  *)
(* then nothing is said of what it does.                                   *)
handler_lock ==
  /\ handler.at = "lock" /\ module # "gone"
  /\ IF mutex = None
     THEN /\ mutex' = "probe"
          /\ count' = count + 1
          /\ handler' = [handler EXCEPT !.at = "capture"]
     ELSE /\ handler' = [handler EXCEPT !.at = "lock", !.slept = TRUE]
          /\ UNCHANGED <<mutex, count>>
  /\ UNCHANGED <<module, captured, regs_valid, client>>

handler_capture ==
  /\ handler.at = "capture"
  /\ captured' = [captured EXCEPT ![handler.word] = count]
  /\ handler' = IF handler.word = NWords
                THEN [handler EXCEPT !.at = "valid"]
                ELSE [handler EXCEPT !.word = @ + 1]
  /\ UNCHANGED <<module, mutex, regs_valid, client, count>>

(* Mutants: the mutex is not let go; regs_valid is not set.                *)
handler_validUnset ==
  /\ handler.at = "valid"
  /\ mutex' = None
  /\ handler' = Idle
  /\ UNCHANGED <<module, captured, regs_valid, client, count>>
handler_validLocked ==
  /\ handler.at = "valid"
  /\ regs_valid' = TRUE
  /\ handler' = Idle
  /\ UNCHANGED <<module, mutex, captured, client, count>>

(* regs_valid is set and the mutex is let go.                              *)
handler_valid ==
  /\ handler.at = "valid"
  /\ regs_valid' = TRUE
  /\ mutex' = None
  /\ handler' = Idle
  /\ UNCHANGED <<module, captured, client, count>>

-----------------------------------------------------------------------------
Runs(c, place) == client[c].at = place /\ handler.task # c

Move(c, to) == client' = [client EXCEPT ![c].at = to]

(* The client is started, whenever it may be, and finds its server: the    *)
(* socket may not be had or the name not be known, and then it exits.      *)
main(c) ==
  /\ Runs(c, "start")
  /\ Move(c, "socket")
  /\ UNCHANGED <<module, mutex, captured, regs_valid, handler, count>>

create_udp_socket(c) ==
  /\ Runs(c, "socket")
  /\ Move(c, "open") \/ Move(c, "gone")
  /\ UNCHANGED <<module, mutex, captured, regs_valid, handler, count>>

(* fopen and read of /proc/panel_regs.  Without the file the client exits. *)
capture_cpu_state(c) ==
  /\ Runs(c, "open")
  /\ Move(c, IF module \in {"created", "loaded", "unprobed"} THEN "lock"
             ELSE "gone")
  /\ UNCHANGED <<module, mutex, captured, regs_valid, handler, count>>

(* Mutant: the mutex is not taken for the reading.                         *)
proc_read_unlocked(c) ==
  /\ Runs(c, "lock")
  /\ client' = [client EXCEPT ![c].at = IF regs_valid THEN "format"
                                        ELSE "unlock",
                              ![c].data = regs_valid, ![c].word = 1]
  /\ UNCHANGED <<module, mutex, captured, regs_valid, handler, count>>

(* proc_read: the mutex is taken and regs_valid looked at.                 *)
proc_read(c) ==
  /\ Runs(c, "lock")
  /\ mutex = None
  /\ mutex' = c
  /\ client' = [client EXCEPT ![c].at = IF regs_valid THEN "format"
                                        ELSE "unlock",
                              ![c].data = regs_valid, ![c].word = 1]
  /\ UNCHANGED <<module, captured, regs_valid, handler, count>>

(* snprintf, one register after the other.                                 *)
proc_read_format(c) ==
  /\ Runs(c, "format")
  /\ LET w == client[c].word IN
       client' = [client EXCEPT
                    ![c].regs[w] = captured[w],
                    ![c].word = IF w = NWords THEN 1 ELSE w + 1,
                    ![c].at = IF w = NWords THEN "unlock" ELSE "format"]
  /\ UNCHANGED <<module, mutex, captured, regs_valid, handler, count>>

(* The mutex is let go; what the client then finds in its buffer is parsed *)
(* and sent, or it is the line that says there is nothing yet.             *)
proc_read_unlock(c) ==
  /\ Runs(c, "unlock")
  /\ mutex' = IF mutex = c THEN None ELSE mutex
  /\ Move(c, IF client[c].data THEN "send" ELSE "delay")
  /\ UNCHANGED <<module, captured, regs_valid, handler, count>>

(* sendto; if it fails the client ends.                                    *)
send(c) ==
  /\ Runs(c, "send")
  /\ \/ client' = [client EXCEPT ![c].at = "delay",
                                 ![c].sent = client[c].regs[1]]
     \/ Move(c, "gone")
  /\ UNCHANGED <<module, mutex, captured, regs_valid, handler, count>>

(* precise_delay; then the file is opened anew.                            *)
delay(c) ==
  /\ Runs(c, "delay")
  /\ Move(c, "open")
  /\ UNCHANGED <<module, mutex, captured, regs_valid, handler, count>>

-----------------------------------------------------------------------------
Probe == handler_lock \/ handler_capture \/ handler_valid

Step(c) ==
  \/ create_udp_socket(c)
  \/ capture_cpu_state(c)
  \/ proc_read(c)
  \/ proc_read_format(c)
  \/ proc_read_unlock(c)
  \/ send(c)
  \/ delay(c)

Next ==
  \/ proc_create
  \/ register_kprobe
  \/ my_kprobe_exit
  \/ \E t \in Task : schedule(t)
  \/ Probe
  \/ \E c \in Client : main(c) \/ Step(c)

(* Tasks take their turns, schedule() is called again and again, and the   *)
(* mutex is handed on to those who wait for it.                            *)
Fairness ==
  /\ WF_vars(register_kprobe)
  /\ WF_vars(\E t \in Other : schedule(t))
  /\ SF_vars(handler_lock /\ mutex = None)
  /\ WF_vars(handler_capture) /\ WF_vars(handler_valid)
  /\ \A c \in Client : SF_vars(Step(c))

Spec == Init /\ [][Next]_vars /\ Fairness

-----------------------------------------------------------------------------
(* Every variable has its type.                                            *)
TypeOK ==
  /\ module \in {"absent", "created", "loaded", "unprobed", "gone"}
  /\ mutex \in Client \union {"probe", None}
  /\ captured \in [Words -> Nat]
  /\ regs_valid \in BOOLEAN
  /\ handler \in [task : Task \union {None}, word : Words, slept : BOOLEAN,
                  at : {"out", "lock", "capture", "valid"}]
  /\ client \in [Client -> [at : {"start", "socket", "open", "lock",
                                  "format", "unlock", "send", "delay",
                                  "gone"},
                            word : Words, data : BOOLEAN,
                            regs : [Words -> Nat], sent : Nat]]
  /\ count \in Nat

(* What is sent is one capture, not the registers of two, never the        *)
(* contents from before the first, and never older than what the client    *)
(* sent before it.                                                         *)
OneCapture ==
  \A c \in Client : client[c].at = "send" =>
    /\ \A w \in Words : client[c].regs[w] = client[c].regs[1]
    /\ client[c].regs[1] > 0
    /\ client[c].regs[1] >= client[c].sent

(* When the module's memory is gone no task is in its code, with one       *)
(* exception: a handler that had to wait for the mutex, as sleeping in a   *)
(* probe hides it from those who wait for the probe to be gone.            *)
SafeUnload ==
  module = "gone" =>
    /\ handler.task = None \/ handler.slept
    /\ \A c \in Client : ~InProcRead(c)

(* A read of the file comes to its end, although the probe takes the mutex *)
(* again and again, hits the reader itself while it waits for the mutex,   *)
(* and sleeps in there behind other readers.                               *)
ReadsEnd ==
  \A c \in Client : InProcRead(c) ~> ~InProcRead(c)

(* While the module is loaded a client that was started goes on sending    *)
(* unless sending fails, whether it or the module came first, and the time *)
(* when there is nothing to send comes to an end.                          *)
FramesCome ==
  \A c \in Client :
    <>[](module = "loaded" /\ client[c].at # "start")
      => []<>(client[c].at \in {"send", "gone"})
=============================================================================
