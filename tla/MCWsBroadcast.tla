--------------------------- MODULE MCWsBroadcast ---------------------------
(* Model values for WsBroadcast: connections served by one worker, where c1 *)
(* and c2 wait for each other's handlers, or by one each.                   *)
EXTENDS WsBroadcast, TLC

CONSTANTS c1, c2, w1, w2

OneWorker == [c \in Conn |-> w1]
TwoWorkers == (c1 :> w1) @@ (c2 :> w2)
Symmetry == Permutations(Conn)
=============================================================================
