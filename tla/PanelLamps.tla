----------------------------- MODULE PanelLamps -----------------------------
(***************************************************************************)
(* From a panel state, as a proxy reads it from a packet, to the lamps of  *)
(* the page that shows it: the JSON of the three proxies and what the      *)
(* three pages do with it.                                                 *)
(*                                                                         *)
(* A number is the set of its bits.  The JSON is a record; a member it     *)
(* does not have is undefined in the page, and so false.  What the page    *)
(* keeps of the panel is a record: the two states it was sent last, the    *)
(* lamps it takes to be on, those that are on in the document, and the     *)
(* values printed there.                                                   *)
(***************************************************************************)
EXTENDS Integers

Registers == {"rax", "rbx", "rcx", "rdx", "rdi", "rsi", "rbp", "rsp", "rip",
              "rflags"}

(* The panel states there can be: every field has 16 bits but the address, *)
(* the data of a VAX and the registers of an amd64.                        *)
PdpState == [ps_address : SUBSET (0 .. 31),
             ps_data : SUBSET (0 .. 15), ps_psw : SUBSET (0 .. 15),
             ps_mser : SUBSET (0 .. 15), ps_cpu_err : SUBSET (0 .. 15),
             ps_mmr0 : SUBSET (0 .. 15), ps_mmr3 : SUBSET (0 .. 15)]
VaxState == [ps_address : SUBSET (0 .. 31), ps_data : SUBSET (0 .. 31)]
Amd64State == [Registers -> SUBSET (0 .. 63)]

PanelState(page) == CASE page = "pdproxy"    -> PdpState
                      [] page = "netbsdvax"  -> VaxState
                      [] page = "amd64proxy" -> Amd64State

AnyOf(bits, number) == bits \intersect number # {}

(* PDProxy::udp_packet_to_json: bits 15 and 14 of the processor status     *)
(* word are the mode, 2 being none.                                        *)
PdpJson(state) ==
  LET mode   == {14, 15} \intersect state.ps_psw
      addr22 == 4 \in state.ps_mmr3
      addr18 == 0 \in state.ps_mmr0 /\ ~addr22
  IN  [address       |-> state.ps_address \intersect (0 .. 21),
       data          |-> state.ps_data,
       parity_error  |-> AnyOf(4 .. 7, state.ps_mser),
       address_error |-> AnyOf({5, 6}, state.ps_cpu_err),
       user_mode     |-> mode = {14, 15},
       super_mode    |-> mode = {14},
       kernel_mode   |-> mode = {},
       addr16        |-> ~(addr18 \/ addr22),
       addr18        |-> addr18,
       addr22        |-> addr22]

VaxJson(state) == [address |-> state.ps_address, data |-> state.ps_data]

Amd64Json(state) == [r \in Registers |-> state[r]]

udp_packet_to_json(page, state) ==
  CASE page = "pdproxy"    -> PdpJson(state)
    [] page = "netbsdvax"  -> VaxJson(state)
    [] page = "amd64proxy" -> Amd64Json(state)

-----------------------------------------------------------------------------
(* The pages with lamps for an address, data and the status.               *)
HasLampTest(page) == page \in {"pdproxy", "netbsdvax"}

PdpPanel == [address |-> 0 .. 21, display |-> 0 .. 15, status |-> 0 .. 25]
VaxPanel == [address |-> 0 .. 31, display |-> 0 .. 31, status |-> 0 .. 25]
initPanel(page) == IF page = "pdproxy" THEN PdpPanel ELSE VaxPanel

(* The lamps of the rotary switches, which stay where they are, and of     *)
(* parity.                                                                 *)
AlwaysOn == {22, 14, 13, 12}

Null == [null |-> TRUE]
Truthy(json, member) == member \in DOMAIN json /\ json[member]

(* The lamps that stand for members of the JSON.                           *)
CommonStatus == { <<11, "parity_error">>, <<10, "address_error">>,
                  <<6, "user">>, <<5, "super">>, <<4, "kernel">> }
PdpStatus == CommonStatus
             \union { <<2, "addr16">>, <<1, "addr18">>, <<0, "addr22">> }
VaxStatus == CommonStatus
             \union { <<2, "addr32">>, <<1, "addr64">>, <<0, "vax">> }

StatusOf(page, panel) ==
  LET members == IF page = "pdproxy" THEN PdpStatus ELSE VaxStatus
      data_space == panel.old_state = Null
                    \/ panel.old_state.data # panel.state.data
  IN  {9, 7} \union {m[1] : m \in {n \in members : Truthy(panel.state, n[2])}}
      \union (IF data_space THEN {3} ELSE {})

(* The masks that updateLights works out.                                  *)
Lights(page, panel) ==
  CASE panel.lampTest -> initPanel(page)
    [] ~panel.lampTest /\ panel.state = Null ->
         [address |-> {}, display |-> {}, status |-> AlwaysOn]
    [] OTHER ->
         [address |-> panel.state.address \intersect initPanel(page).address,
          display |-> panel.state.data \intersect initPanel(page).display,
          status  |-> AlwaysOn \union StatusOf(page, panel)]

(* Only the lamps in which the masks differ are touched.                   *)
updatePanel(lit, old, new) ==
  LET changed == (old \ new) \union (new \ old)
  IN  (lit \ changed) \union (changed \intersect new)

(* Mutant: the masks of the lamp test are not kept.                        *)
updateLightsForgetting(page, panel) ==
  LET new == Lights(page, panel) IN
    [panel EXCEPT
       !.lights = IF panel.lampTest THEN @ ELSE new,
       !.lit = [g \in DOMAIN @ |-> updatePanel(@[g], panel.lights[g],
                                               new[g])]]

updateLights(page, panel) ==
  LET new == Lights(page, panel) IN
    [panel EXCEPT
       !.lights = new,
       !.lit = [g \in DOMAIN @ |-> updatePanel(@[g], panel.lights[g],
                                               new[g])]]

setPanelState(panel, json) ==
  [panel EXCEPT !.old_state = panel.state, !.state = json]

-----------------------------------------------------------------------------
(* The page with the registers of an amd64.  Its lamps are changed in two  *)
(* halves of 32 bits.                                                      *)
Half(offset, value) == {b \in 0 .. 31 : b + offset \in value}
LampsOf(offset, bits) == {b + offset : b \in bits}

update32Bits(lit, offset, old, new) ==
  updatePanel(lit, LampsOf(offset, Half(offset, old)),
              LampsOf(offset, Half(offset, new)))

updateRegister(panel, name, old, new) ==
  [panel EXCEPT
     !.lit[name] = update32Bits(update32Bits(@, 0, old, new), 32, old, new),
     !.text[name] = new]

(* Registers that have not changed are not touched.                        *)
updatePanelState(panel, json) ==
  LET set == setPanelState(panel, json)
      Old(r) == IF set.old_state # Null THEN set.old_state[r] ELSE {}
      Updated(r) == updateRegister(set, r, Old(r), json[r])
      changed == {r \in Registers : json[r] # Old(r)}
  IN  [set EXCEPT
         !.lit  = [r \in Registers |->
                     IF r \in changed THEN Updated(r).lit[r] ELSE @[r]],
         !.text = [r \in Registers |->
                     IF r \in changed THEN Updated(r).text[r] ELSE @[r]]]

-----------------------------------------------------------------------------
(* All lamps of the document are on until the script has run initialize.   *)
initialize(page) ==
  LET dark == [r \in Registers |-> {}]
      first == [lampTest |-> FALSE, old_state |-> Null, state |-> Null,
                lit |-> [r \in Registers |-> 0 .. 63], text |-> dark]
  IN  IF HasLampTest(page)
      THEN updateLights(page,
             [lampTest |-> FALSE, old_state |-> Null, state |-> Null,
              lights |-> initPanel(page), lit |-> initPanel(page)])
      ELSE [first EXCEPT
              !.lit = [r \in Registers |->
                         updateRegister(first, r, 0 .. 63, {}).lit[r]]]

(* What the callback given to openWebSocket does with a message.           *)
handleMessage(page, panel, json) ==
  IF HasLampTest(page) THEN updateLights(page, setPanelState(panel, json))
  ELSE updatePanelState(panel, json)

clickLampTest(page, panel) ==
  updateLights(page, [panel EXCEPT !.lampTest = ~@])
=============================================================================
