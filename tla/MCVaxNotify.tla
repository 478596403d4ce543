---------------------------- MODULE MCVaxNotify ----------------------------
(* Two pids, so that a second client takes the registration over, and pids  *)
(* that are used again.                                                     *)
EXTENDS VaxNotify

TwoPids == {1, 2}
AllFaults == {"kqueue", "kevent", "sysctl", "io", "interrupt", "kill",
              "admin", "others"}
=============================================================================
