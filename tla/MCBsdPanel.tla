----------------------------- MODULE MCBsdPanel -----------------------------
(* Two clients, who share last_seq, and enough ticks for one of them to     *)
(* miss some.                                                               *)
EXTENDS BsdPanel

TwoClients == {"p", "q"}
AllFaults == {"setup", "read", "send", "signal"}
=============================================================================
