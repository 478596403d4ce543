------------------------------ MODULE BsdTime ------------------------------
(***************************************************************************)
(* The arithmetic of the 2.11BSD clock, as functions: the time of day that *)
(* hardclock keeps and adjtime slews, and hzto, which turns a time into    *)
(* the ticks that timeout is asked for.  A long has 32 bits, an int 16.    *)
(***************************************************************************)
EXTENDS Integers

CONSTANT hz  \* ticks in a second

ASSUME ClockAssumption == hz \in 2 .. 1000

-----------------------------------------------------------------------------
(* Mutant: a correction backwards is never over.                           *)
SlewedTwice(c) ==
  CASE c.adjdelta > 0 -> [c EXCEPT !.lbolt = @ + 1, !.adjdelta = @ - 1]
    [] c.adjdelta < 0 -> [c EXCEPT !.lbolt = @ - 1]
    [] OTHER          -> c

(* One tick of the clock [sec, lbolt, adjdelta].                           *)
Slewed(c) ==
  CASE c.adjdelta > 0 -> [c EXCEPT !.lbolt = @ + 1, !.adjdelta = @ - 1]
    [] c.adjdelta < 0 -> [c EXCEPT !.lbolt = @ - 1, !.adjdelta = @ + 1]
    [] OTHER          -> c

Advanced(c) ==
  LET s == Slewed(c)
      lbolt == s.lbolt + 1
  IN  IF lbolt >= hz
      THEN [s EXCEPT !.lbolt = lbolt - hz, !.sec = @ + 1]
      ELSE [s EXCEPT !.lbolt = lbolt]

InTicks(c) == c.sec * hz + c.lbolt

-----------------------------------------------------------------------------
(* Division as in C: the quotient is cut off towards zero.                 *)
Quotient(x, y) == IF x < 0 THEN -((-x) \div y) ELSE x \div y

(* The conversion of a long to an int keeps the low 16 bits.               *)
ToInt(x) == ((x + 32768) % 65536) - 32768

MaxLong == 2147483647
MaxInt == 32767

(* Mutant: the cap to the range of an int is left out.                     *)
hztoUncapped(sec, usec) ==
  ToInt(IF sec =< MaxLong \div 1000 - 1000
        THEN Quotient(sec * 1000 + Quotient(usec, 1000), 1000 \div hz)
        ELSE IF sec =< MaxLong \div hz THEN sec * hz
        ELSE MaxLong)

hzto(sec, usec) ==
  LET ticks ==
        IF sec =< MaxLong \div 1000 - 1000
        THEN Quotient(sec * 1000 + Quotient(usec, 1000), 1000 \div hz)
        ELSE IF sec =< MaxLong \div hz THEN sec * hz
        ELSE MaxLong
  IN  ToInt(IF ticks > MaxInt THEN MaxInt ELSE ticks)
=============================================================================
