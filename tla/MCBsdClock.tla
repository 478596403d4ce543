----------------------------- MODULE MCBsdClock -----------------------------
(* hz is a small number, so that a few ticks pass several seconds; 1000/hz  *)
(* is not a whole number, as with the code's 60.                            *)
EXTENDS BsdClock

Corrections == {-3, 2}

(* One process with both timers, the other with one that fires once; one   *)
(* may raise its limit and the other may not.                              *)
SomeSettings ==
  {[virt |-> [value |-> 1, interval |-> 2],
    prof |-> [value |-> 2, interval |-> 1],
    cur |-> 2, max |-> 3, nice |-> TRUE],
   [virt |-> [value |-> 0, interval |-> 0],
    prof |-> [value |-> 3, interval |-> 0],
    cur |-> 1, max |-> 1, nice |-> FALSE]}

(* Times at hand, and at the borders of hzto's branches; those of an int   *)
(* of ticks, of 333 milliseconds, are at 10911744 milliseconds to come and  *)
(* 10912077 in the past.                                                    *)
SomeSeconds == {-10913, -10912, 0, 10911, 10912, 32768, 2146483, 2146484,
                715827882, 715827883}
SomeUsecs == {-77000, -999, 332999, 333000, 743999, 744000}

(* Offsets at the borders of the masks and of the page, bases that share    *)
(* bits with them and bases at the border of 2 megabytes.                   *)
SomePcs == {0, 64, 4096, 57344}
SomeBases == {128, 32704, 32767, 32768}
=============================================================================
