--------------------------- MODULE MCNetBSDClock ---------------------------
(* Two processors with one clock each, two processes that may be profiled  *)
(* at once.                                                                *)
EXTENDS NetBSDClock

TwoCpus == {"cpu0", "cpu1"}
TwoProcs == {"p", "q"}
=============================================================================
