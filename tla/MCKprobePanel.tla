--------------------------- MODULE MCKprobePanel ---------------------------
(* Two readers, so that one sleeps behind the other, and a task that calls *)
(* schedule() at any moment.                                               *)
EXTENDS KprobePanel

TwoClients == {"c", "d"}
OneOther == {"t"}
=============================================================================
