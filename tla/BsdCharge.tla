------------------------------ MODULE BsdCharge ------------------------------
(***************************************************************************)
(* What one tick of the 2.11BSD clock charges, and to whom: the time and   *)
(* the interval timers of the process that runs, its limit, and the share  *)
(* of the processor in each state that gatherstats counts.  The time that  *)
(* the drives are busy is left out.                                        *)
(*                                                                         *)
(* A timer is [value, interval], in ticks; a value of zero is a timer that *)
(* is off.  usage is the u-area of the process, with p_cpu.                *)
(***************************************************************************)
EXTENDS BsdTime

CONSTANT MaxCpu  \* the greatest value of p_cpu, a byte

ASSUME ChargeAssumption == MaxCpu \in Nat

-----------------------------------------------------------------------------
Signals == {"SIGVTALRM", "SIGPROF", "SIGXCPU"}

(* Mutant: a timer that has run out is not set again.                      *)
TimerOnce(timer) ==
  IF timer.value = 0 THEN timer ELSE [timer EXCEPT !.value = @ - 1]

TimerTick(timer) ==
  CASE timer.value = 0 -> timer
    [] timer.value = 1 -> [timer EXCEPT !.value = timer.interval]
    [] OTHER           -> [timer EXCEPT !.value = @ - 1]

Fires(timer) == timer.value = 1

Spent(usage) == usage.utime + usage.stime

OverLimit(usage) == Spent(usage) + 1 > usage.cur

(* The mode decides what the time of the process goes to; an idle tick is  *)
(* nobody's.                                                               *)
ChargedMode(usage, user, noproc) ==
  CASE user    -> [usage EXCEPT !.utime = @ + 1, !.virt = TimerTick(@)]
    [] noproc  -> usage
    [] OTHER   -> [usage EXCEPT !.stime = @ + 1]

(* And whatever the mode, the process pays with its priority, its limit    *)
(* and the profiling timer.  The limit goes up by five seconds, but not    *)
(* once it has reached the one the process may not raise.                  *)
ChargedProcess(usage, noproc) ==
  IF noproc THEN usage
  ELSE [usage EXCEPT
          !.p_cpu = IF @ = MaxCpu THEN @ ELSE @ + 1,
          !.cur = IF OverLimit(usage) /\ @ < usage.max THEN @ + 5 * hz
                  ELSE @,
          !.prof = TimerTick(@)]

Charged(usage, user, noproc) ==
  ChargedProcess(ChargedMode(usage, user, noproc), noproc)

(* psignal, as often as the tick calls it.                                 *)
Posted(usage, user, noproc) ==
  {s \in Signals :
     CASE s = "SIGVTALRM" -> user /\ Fires(usage.virt)
       [] s = "SIGPROF"   -> ~noproc /\ Fires(usage.prof)
       [] s = "SIGXCPU"   ->
            ~noproc /\ OverLimit(ChargedMode(usage, user, noproc))}

(* gatherstats, cpstate: without a process it is the time of a driver if   *)
(* the priority is raised.                                                 *)
gatherstats(user, noproc, basepri, nice) ==
  CASE user -> IF nice THEN "CP_NICE" ELSE "CP_USER"
    [] noproc /\ basepri -> "CP_IDLE"
    [] OTHER -> "CP_SYS"

-----------------------------------------------------------------------------
(* How often a timer has fired after n of its ticks.                       *)
Fired(timer, n) ==
  IF timer.value = 0 \/ n < timer.value THEN 0
  ELSE IF timer.interval = 0 THEN 1
  ELSE 1 + (n - timer.value) \div timer.interval

(* How often a process has been warned after n ticks: every five seconds   *)
(* until its limit has reached the greatest, and then in every tick.       *)
Step == 5 * hz

Raises(cur, max) == (max - cur + Step - 1) \div Step

Warned(cur, max, n) ==
  LET raises == Raises(cur, max)
      turns == (n - cur) \div Step
      last == cur + Step * raises
  IN  IF n < cur \/ n = 0 THEN 0
      ELSE IF turns < raises THEN turns + 1
      ELSE raises + n - (IF last = 0 THEN 1 ELSE last) + 1
=============================================================================
