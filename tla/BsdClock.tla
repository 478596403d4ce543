------------------------------ MODULE BsdClock ------------------------------
(***************************************************************************)
(* The time of day that the 2.11BSD clock keeps, tick by tick, and that    *)
(* adjtime slews; what it charges to the process that runs, or to nobody;  *)
(* the address it works out for the lamps in each tick; and hzto, which    *)
(* turns a time of day into the ticks a caller has to wait.                *)
(***************************************************************************)
EXTENDS BsdCharge, BsdPhys

CONSTANTS
  Adjust,   \* the corrections adjtime is asked for, in ticks
  Seconds,  \* seconds from the present time to the one hzto is asked for
  Usecs,    \* microseconds
  Pcs,      \* values of pc, 0 .. 65535
  Bases,    \* contents of the register that maps the page
  Settings, \* timers, limits and niceness that a process may have set
  MaxTicks  \* bound: ticks of the clock

Word == 0 .. 65535
Timer == [value : Nat, interval : Nat]

(* The values are those of the code's types; no time is further in the     *)
(* past than milliseconds in a long can say.                               *)
ASSUME InputAssumption ==
  /\ Adjust \subseteq Int
  /\ \A sec \in Seconds : sec \in Int /\ -2147483 < sec /\ sec =< MaxLong
  /\ \A usec \in Usecs : usec \in Int /\ -1000000 < usec /\ usec < 1000000
  /\ MaxTicks \in Nat

ASSUME AddressAssumption == Pcs \subseteq Word /\ Bases \subseteq Word

(* No process has a limit above its greatest one.                          *)
ASSUME SettingAssumption ==
  /\ Settings \subseteq [virt : Timer, prof : Timer, cur : Nat, max : Nat,
                         nice : BOOLEAN]
  /\ \A s \in Settings : s.cur =< s.max

VARIABLES
  ticks,   \* ghost: ticks so far
  clock,   \* [sec, lbolt, adjdelta]
  setting, \* what the process asked for before the first tick
  usage,   \* its times, timers and limits, see BsdCharge
  cp_time, \* the ticks in each state
  posted,  \* ghost: how often the process was sent each signal
  asked,   \* ghost: the corrections that adjtime was asked for, less those
           \* it dropped for a new one
  answer   \* what the routine that ran last worked out

charges == <<setting, usage, cp_time, posted>>

clockVars == <<ticks, clock, charges, asked, answer>>

UserPs == 49152   \* mode 3
KernelPs == 0
DriverPs == 224   \* priority 7

States == {"CP_USER", "CP_NICE", "CP_SYS", "CP_IDLE"}

OnlyIn(page, base) == [i \in 0 .. 15 |-> IF i = page THEN base ELSE 0]

(* The address for the lamps in each case that occurs.                     *)
Decoded ==
  [pc \in Pcs |-> [ps \in {UserPs, KernelPs, DriverPs} |-> [base \in Bases |->
     decode_phys_addr(pc, ps, OnlyIn(AprIndex(pc, ps), base))]]]

(* The rest of hardclock, one tick; a processor that is idle runs no       *)
(* process and is in the kernel.                                           *)
hardclock_charges(pc, ps, base, noproc) ==
  LET user == ps = UserPs
      cpstate == gatherstats(user, noproc, ps # DriverPs, setting.nice)
      signals == Posted(usage, user, noproc)
  IN  /\ ticks < MaxTicks
      /\ noproc => ~user
      /\ ticks' = ticks + 1
      /\ usage' = Charged(usage, user, noproc)
      /\ posted' = [s \in Signals |->
                      posted[s] + IF s \in signals THEN 1 ELSE 0]
      /\ cp_time' = [cp_time EXCEPT ![cpstate] = @ + 1]
      /\ clock' = Advanced(clock)
      /\ answer' = [of |-> "lamps", pc |-> pc, base |-> base,
                    is |-> Decoded[pc][ps][base]]
      /\ UNCHANGED <<setting, asked>>

(* The system call adjtime: what was left of the last correction is lost.  *)
adjtime(delta) ==
  /\ asked' = asked - clock.adjdelta + delta
  /\ clock' = [clock EXCEPT !.adjdelta = delta]
  /\ answer' = [of |-> "adjtime"]
  /\ UNCHANGED <<ticks, charges>>

(* A caller of timeout asks how long it is until a time.                   *)
ask(sec, usec) ==
  /\ answer' = [of |-> "hzto", sec |-> sec, usec |-> usec,
                is |-> hzto(sec, usec)]
  /\ UNCHANGED <<ticks, clock, charges, asked>>

ClockInit ==
  /\ ticks = 0
  /\ clock = [sec |-> 0, lbolt |-> 0, adjdelta |-> 0]
  /\ setting \in Settings
  /\ usage = [utime |-> 0, stime |-> 0, p_cpu |-> 0, virt |-> setting.virt,
              prof |-> setting.prof, cur |-> setting.cur,
              max |-> setting.max]
  /\ cp_time = [s \in States |-> 0]
  /\ posted = [s \in Signals |-> 0]
  /\ asked = 0
  /\ answer = [of |-> "nothing"]

ClockNext ==
  \/ \E pc \in Pcs, base \in Bases, ps \in {UserPs, KernelPs, DriverPs},
        noproc \in BOOLEAN :
       hardclock_charges(pc, ps, base, noproc)
  \/ \E delta \in Adjust : adjtime(delta)
  \/ \E sec \in Seconds, usec \in Usecs : ask(sec, usec)

ClockSpec == ClockInit /\ [][ClockNext]_clockVars

-----------------------------------------------------------------------------
(* A correction of the time is applied in full, one tick at a time, around *)
(* the ends of seconds too, and the time never runs backwards for it.      *)
TimeSlewed ==
  [][/\ InTicks(clock') + clock'.adjdelta = ticks' + asked'
     /\ InTicks(clock') - InTicks(clock) \in 0 .. 2]_clock

(* Each tick is charged once.  The user time of the process is what the    *)
(* processor spent in user mode, its system time what was spent in the     *)
(* kernel but by drivers while no process ran.  A process is sent SIGVTALRM *)
(* and SIGPROF as often as its timers came around in those times, and      *)
(* SIGXCPU as often as Warned says: the limit ends above the greatest one, *)
(* by less than five seconds, and from then on every tick posts one.       *)
TicksCharged ==
  LET user == cp_time["CP_USER"] + cp_time["CP_NICE"]
      kernel == cp_time["CP_SYS"] + cp_time["CP_IDLE"]
  IN  /\ user + kernel = ticks /\ usage.utime = user
      /\ cp_time["CP_SYS"] >= usage.stime
      /\ usage.p_cpu = IF Spent(usage) > MaxCpu THEN MaxCpu ELSE Spent(usage)
      /\ usage.cur < setting.max + Step
      /\ posted = [s \in Signals |->
            CASE s = "SIGVTALRM" -> Fired(setting.virt, user)
              [] s = "SIGPROF"   -> Fired(setting.prof, Spent(usage))
              [] s = "SIGXCPU"   ->
                   Warned(setting.cur, setting.max, Spent(usage))]

(* A time to come is waited for at least until the tick before it and, as  *)
(* a tick is taken to last 1000/hz whole milliseconds, at most longer by   *)
(* the part that is cut off there, if it is at most 32767 ticks away; for  *)
(* one further away the answer is the greatest int, whatever hzto reckons  *)
(* in (more than 32767 seconds are more than 32767 ticks).  A time in the  *)
(* past, by no more than the 32768 ticks an int can say, is not waited for *)
(* at all; of one further in the past nothing is said: there hzto, which   *)
(* caps its ticks for times to come only, wraps, and may make it a wait.   *)
HztoSound ==
  answer.of = "hzto" =>
    LET tick == 1000 \div hz
        ms == answer.sec * 1000 + Quotient(answer.usec, 1000)
        n == answer.is
    IN  IF answer.sec > MaxInt THEN n = MaxInt ELSE
        /\ (0 =< ms /\ ms \div tick =< MaxInt) =>
             /\ n * tick =< ms
             /\ n * 1000 > hz * (ms - tick - 1)
        /\ (0 =< ms /\ ms \div tick > MaxInt) => n = MaxInt
        /\ (ms < 0 /\ (-ms) \div tick =< MaxInt + 1) => n =< 0

(* Where the masks cut nothing off, and the or meets no bit twice, the     *)
(* lamps show the physical address, from whichever bank of registers the   *)
(* mode selects.                                                           *)
PanelAddressRight ==
  answer.of = "lamps" /\ AddressRight(answer.pc, answer.base)
    => answer.is = Mmu(answer.pc, answer.base)
=============================================================================
