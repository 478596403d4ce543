---------------------------- MODULE MCBsdCallout ----------------------------
(* Two functions and a table of three entries, so that a function may be    *)
(* set again while it waits and while it is called.                         *)
EXTENDS BsdCallout

TwoFuns == {"f", "g"}
OneFun == {"f"}
=============================================================================
