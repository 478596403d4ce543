-------------------------- MODULE MCPanelPipeline --------------------------
(* Values of the constants of PanelPipeline for its run.                    *)
EXTENDS PanelPipeline

(* Any two senders, and the older client with two that share its port.      *)
Pairs == {{s, t} : s, t \in SenderKinds}
           \union {{"legacy", "linux", "tool11"}}

AllHosts    == {"proxy", "console"}

(* The sizes the proxies expect and one too many; a PDP-11 and another      *)
(* machine.                                                                 *)
AnyCount    == {8, 16, 17, 208}
AnyFlags    == {1, 3}

(* High words of an address: 10 is what is left of a state behind a header. *)
AnyBareCount == {0, 10, 16}
AnyBareFlags == {1, 2}
=============================================================================
