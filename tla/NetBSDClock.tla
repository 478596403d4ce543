---------------------------- MODULE NetBSDClock ----------------------------
(***************************************************************************)
(* The clock interrupts of NetBSD on several processors: hardclock, which  *)
(* on the primary processor copies the interrupted frame into the panel,   *)
(* and statclock, which follows the divider that startprofclock and        *)
(* stopprofclock set when processes begin and end to be profiled.  On a    *)
(* machine without a statistics clock hardclock calls statclock, and the   *)
(* divider stays 1.  The amd64 client reads the panel with kvm_read while  *)
(* it is written.                                                          *)
(*                                                                         *)
(* Nothing but the lock p_stmutex of one process orders the processors:    *)
(* profprocs and psdiv are read and written one access at a time, the      *)
(* panel and the client's copy of it one word at a time.  A word of the    *)
(* panel is the number of the tick that wrote it.                          *)
(***************************************************************************)
EXTENDS Integers, FiniteSets

CONSTANTS
  Cpu,         \* the processors that take clock interrupts
  Primary,     \* the one that owns time and panel
  Proc,        \* processes that may be profiled
  hz,          \* rate of hardclock
  stathz,      \* rate of the statistics clock, 0 if there is none
  profhz,      \* its rate while a process is profiled
  NWords,      \* words of the frame: 26 on amd64
  MaxTicks,    \* bound: ticks of hardclock on the primary processor
  MaxChanges   \* bound: starts and stops of profiling

clockrate == IF stathz = 0 THEN hz ELSE stathz

ASSUME ClockAssumption ==
  /\ Primary \in Cpu /\ IsFiniteSet(Proc)
  /\ hz \in Nat \ {0} /\ stathz \in Nat /\ profhz \in Nat
  /\ profhz >= clockrate /\ profhz % clockrate = 0
  /\ NWords \in Nat \ {0}

VARIABLES
  psdiv, profprocs,
  proc,     \* per process: PST_PROFIL, the lock and who changes the flag
  cpu,      \* per processor: where its interrupt handler is, spc_psdiv,
            \* spc_pscnt, the rate of its statistics clock
  panel,    \* the tick that wrote each word
  reader,   \* the client: where it is, the word it copies next, and what
            \* it has copied
  changes,  \* ghost: the starts and stops so far
  overlap   \* ghost: two of them have overlapped

vars == <<psdiv, profprocs, proc, cpu, panel, reader, changes, overlap>>

Words == 1 .. NWords

psratio == profhz \div clockrate

NoReader(place) ==
  [at |-> place, word |-> 1, copied |-> [w \in Words |-> 0]]

-----------------------------------------------------------------------------
Init ==
  /\ psdiv = 1
  /\ profprocs = 0
  /\ proc = [p \in Proc |-> [profiled |-> FALSE, lock |-> "free",
                             seen |-> 0]]
  /\ cpu = [c \in Cpu |-> [at |-> "out", word |-> 1,
                           psdiv |-> 1, pscnt |-> 1, rate |-> stathz,
                           changes |-> 0]]
  /\ panel = [w \in Words |-> 0]
  /\ reader = NoReader("start")
  /\ changes = 0
  /\ overlap = FALSE

Changing == {p \in Proc : proc[p].lock \in {"load", "store"}}

-----------------------------------------------------------------------------
(* startprofclock and stopprofclock, called with the lock of the process:  *)
(* the flag is changed, and the number of profiled processes is loaded,    *)
(* stored, and looked at; the processors' new divider may have to be set.  *)
changeprofclock(p) ==
  /\ proc[p].lock = "free"
  /\ changes < MaxChanges
  /\ changes' = changes + 1
  /\ proc' = [proc EXCEPT ![p].lock = "load",
                          ![p].profiled = ~@]
  /\ overlap' = (overlap \/ Changing # {})
  /\ UNCHANGED <<psdiv, profprocs, cpu, panel, reader>>

loadprofprocs(p) ==
  /\ proc[p].lock = "load"
  /\ proc' = [proc EXCEPT ![p].lock = "store", ![p].seen = profprocs]
  /\ UNCHANGED <<psdiv, profprocs, cpu, panel, reader, changes, overlap>>

(* Mutant: the divider is left alone when the last process is done.        *)
DividerKept(p, n) ==
  IF stathz # 0 /\ proc[p].profiled /\ n = 1 THEN psratio ELSE psdiv

(* The divider after profprocs was changed to n.                           *)
Divider(p, n) ==
  CASE stathz # 0 /\ proc[p].profiled /\ n = 1  -> psratio
    [] stathz # 0 /\ ~proc[p].profiled /\ n = 0 -> 1
    [] OTHER                                     -> psdiv

storeprofprocs(p) ==
  /\ proc[p].lock = "store"
  /\ LET n == IF proc[p].profiled THEN proc[p].seen + 1
              ELSE proc[p].seen - 1
     IN  /\ profprocs' = n
         /\ proc' = [proc EXCEPT ![p].lock = "free", ![p].seen = 0]
         /\ psdiv' = Divider(p, n)
         /\ cpu' = IF psdiv' = psdiv THEN cpu
                   ELSE [c \in Cpu |-> [cpu[c] EXCEPT
                           !.changes = IF @ < 2 THEN @ + 1 ELSE 2]]
  /\ UNCHANGED <<panel, reader, changes, overlap>>

-----------------------------------------------------------------------------
Handler(c, r) ==
  /\ cpu' = [cpu EXCEPT ![c] = r]
  /\ UNCHANGED <<psdiv, profprocs, proc, changes, overlap>>

(* Mutant: every processor copies its frame to the panel.                  *)
hardclockAnywhere(c) ==
  /\ cpu[c].at = "out" /\ panel[1] < MaxTicks
  /\ Handler(c, [cpu[c] EXCEPT !.at = "panel", !.word = 1])
  /\ UNCHANGED <<panel, reader>>

(* hardclock on the primary processor: memcpy to the panel, then statclock *)
(* if no other clock calls it.                                             *)
hardclock(c) ==
  /\ c = Primary
  /\ cpu[c].at = "out" /\ panel[1] < MaxTicks
  /\ Handler(c, [cpu[c] EXCEPT !.at = "panel", !.word = 1])
  /\ UNCHANGED <<panel, reader>>

hardclock_panel(c) ==
  /\ cpu[c].at = "panel"
  /\ panel' = [panel EXCEPT ![cpu[c].word] = @ + 1]
  /\ Handler(c, IF cpu[c].word = NWords
                THEN [cpu[c] EXCEPT !.word = 1, !.at =
                        IF stathz = 0 THEN "stat" ELSE "out"]
                ELSE [cpu[c] EXCEPT !.word = @ + 1])
  /\ UNCHANGED reader

(* statclock: the divider is compared with the one this processor knows.   *)
(* Without a statistics clock it is called by hardclock, which on the      *)
(* primary processor has filled the panel before.                          *)
statclock(c) ==
  /\ cpu[c].at = IF stathz = 0 /\ c = Primary THEN "stat" ELSE "out"
  /\ Handler(c, IF cpu[c].psdiv # psdiv
                THEN [cpu[c] EXCEPT !.at = "div", !.changes = 0]
                ELSE [cpu[c] EXCEPT !.at = "count"])
  /\ UNCHANGED <<panel, reader>>

(* Three more reads of psdiv, which need not find the same.                *)
statclock_div(c) ==
  /\ cpu[c].at = "div"
  /\ Handler(c, [cpu[c] EXCEPT !.at = "cnt", !.psdiv = psdiv])
  /\ UNCHANGED <<panel, reader>>

statclock_cnt(c) ==
  /\ cpu[c].at = "cnt"
  /\ Handler(c, [cpu[c] EXCEPT !.at = "rate", !.pscnt = psdiv])
  /\ UNCHANGED <<panel, reader>>

(* Mutant: the clock is never slowed down again.                           *)
statclock_rateOnce(c) ==
  /\ cpu[c].at = "rate"
  /\ Handler(c, [cpu[c] EXCEPT !.at = "count",
                               !.rate = IF psdiv = 1 THEN @ ELSE profhz])
  /\ UNCHANGED <<panel, reader>>

statclock_rate(c) ==
  /\ cpu[c].at = "rate"
  /\ Handler(c, [cpu[c] EXCEPT !.at = "count",
                               !.rate = IF psdiv = 1 THEN stathz
                                        ELSE profhz])
  /\ UNCHANGED <<panel, reader>>

(* With the lock of the process that runs here, or with none if the        *)
(* processor is idle: the tick is charged when the count comes to zero,    *)
(* and the count starts anew.                                              *)
statclock_count(c) ==
  /\ cpu[c].at = "count"
  /\ LET n == cpu[c].pscnt - 1 IN
       Handler(c, [cpu[c] EXCEPT !.at = "out",
                                 !.pscnt = IF n > 0 THEN n ELSE psdiv])
  /\ UNCHANGED <<panel, reader>>

-----------------------------------------------------------------------------
Kernel == <<psdiv, profprocs, proc, cpu, panel, changes, overlap>>

(* The client opens the kernel's memory, looks for the panel in its        *)
(* symbols and for its server; it exits if one of them is not to be had.   *)
open_kvm_and_find_panel ==
  /\ reader.at = "start"
  /\ reader' \in {NoReader("socket"), NoReader("gone")}
  /\ UNCHANGED Kernel

create_udp_socket ==
  /\ reader.at = "socket"
  /\ reader' \in {NoReader("read"), NoReader("gone")}
  /\ UNCHANGED Kernel

(* The client copies the panel word by word ...                            *)
kvm_read ==
  /\ reader.at = "read"
  /\ reader' = [at |-> IF reader.word = NWords THEN "send" ELSE "read",
                word |-> (reader.word % NWords) + 1,
                copied |-> [reader.copied EXCEPT
                              ![reader.word] = panel[reader.word]]]
  /\ UNCHANGED Kernel

(* ... sends it and starts again; it ends if it cannot be sent.            *)
send ==
  /\ reader.at = "send"
  /\ reader' \in {[reader EXCEPT !.at = "read"], NoReader("gone")}
  /\ UNCHANGED Kernel

send_frames == kvm_read \/ send

Statclock(c) ==
  \/ statclock(c)
  \/ statclock_div(c)
  \/ statclock_cnt(c)
  \/ statclock_rate(c)
  \/ statclock_count(c)

Next ==
  \/ \E p \in Proc : changeprofclock(p) \/ loadprofprocs(p)
                     \/ storeprofprocs(p)
  \/ \E c \in Cpu : hardclock(c) \/ hardclock_panel(c) \/ Statclock(c)
  \/ open_kvm_and_find_panel
  \/ create_udp_socket
  \/ send_frames

Spec == Init /\ [][Next]_vars

-----------------------------------------------------------------------------
(* Every variable has its type; the count of a processor is never zero     *)
(* between two interrupts, nor above the ratio of the two rates.           *)
TypeOK ==
  /\ psdiv \in {1, psratio}
  /\ profprocs \in Int /\ changes \in Nat /\ overlap \in BOOLEAN
  /\ proc \in [Proc -> [profiled : BOOLEAN, seen : Int,
                        lock : {"free", "load", "store"}]]
  /\ cpu \in [Cpu -> [at : {"out", "panel", "stat", "div", "cnt", "rate",
                            "count"},
                      word : Words, psdiv : {1, psratio},
                      pscnt : 1 .. psratio, rate : {stathz, profhz},
                      changes : 0 .. 2]]
  /\ panel \in [Words -> Nat]
  /\ reader \in [at : {"start", "socket", "read", "send", "gone"},
                 word : Words, copied : [Words -> Nat]]

(* profprocs is changed under the lock of one process only.  As long as no *)
(* two changes overlap it counts the profiled processes, and the divider   *)
(* is set for as long as there are any and a statistics clock to set; once *)
(* two have, it may be wrong for good, which is why the condition is there.*)
ProfilersCounted ==
  Changing = {} /\ ~overlap =>
    /\ profprocs = Cardinality({p \in Proc : proc[p].profiled})
    /\ psdiv = IF stathz # 0 /\ profprocs > 0 THEN psratio ELSE 1

(* statclock reads the divider four times.  A processor that takes itself  *)
(* to be in step with the divider runs its clock at the rate that goes     *)
(* with it, unless the divider was changed twice since it last adjusted    *)
(* itself: then nothing shows that the rate is wrong.                      *)
RateAgrees ==
  \A c \in Cpu :
    /\ cpu[c].at \in {"out", "panel", "stat", "count"}
    /\ cpu[c].psdiv = psdiv
    /\ cpu[c].changes < 2
    => cpu[c].rate = IF psdiv = 1 THEN stathz ELSE profhz

(* The client reads the panel while another processor writes it, both from *)
(* the first word to the last: a word of what it has read is at most one   *)
(* tick older than one before it.                                          *)
FrameOrdered ==
  \A v, w \in Words :
    v < w /\ (w < reader.word \/ reader.word = 1)
      => reader.copied[w] >= reader.copied[v] - 1
=============================================================================
