---------------------------- MODULE MCPanelPage -----------------------------
(* States with bits at the borders of the masks and of the two halves of a  *)
(* register, in every mode of addressing; two with the same data.           *)
EXTENDS PanelPage

PdpStates ==
  { [ps_address |-> {0, 21, 22, 31}, ps_data |-> {0, 15}, ps_psw |-> {14, 15},
     ps_mser |-> {4, 8}, ps_cpu_err |-> {}, ps_mmr0 |-> {0}, ps_mmr3 |-> {4}],
    [ps_address |-> {1, 21}, ps_data |-> {0, 15}, ps_psw |-> {14},
     ps_mser |-> {8}, ps_cpu_err |-> {6}, ps_mmr0 |-> {0}, ps_mmr3 |-> {}],
    [ps_address |-> {}, ps_data |-> {1}, ps_psw |-> {},
     ps_mser |-> {}, ps_cpu_err |-> {}, ps_mmr0 |-> {}, ps_mmr3 |-> {}] }

VaxStates ==
  { [ps_address |-> {0, 31}, ps_data |-> {31}],
    [ps_address |-> {1, 31}, ps_data |-> {31}],
    [ps_address |-> {}, ps_data |-> 0 .. 31] }

Amd64Of(rax, rip) ==
  [[r \in Registers |-> {7}] EXCEPT !["rax"] = rax, !["rip"] = rip]
Amd64States ==
  {Amd64Of({0, 31, 32, 63}, {}), Amd64Of({0, 32}, {31, 63})}

McStates == [pdproxy |-> PdpStates, netbsdvax |-> VaxStates,
             amd64proxy |-> Amd64States]
=============================================================================
