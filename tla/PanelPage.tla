----------------------------- MODULE PanelPage ------------------------------
(***************************************************************************)
(* A panel page in a browser (proxy/wwwroot): base.js, which opens the     *)
(* WebSocket, queues its messages and says in a label how things are, and  *)
(* the panel's script, which sets the lamps.  The proxy is PanelFeed: its  *)
(* n-th publication carries the JSON of the n-th panel state.              *)
(*                                                                         *)
(* A browser runs one task at a time, the events of a WebSocket in order;  *)
(* an interval that has been cleared does not fire.                        *)
(***************************************************************************)
EXTENDS PanelLamps, Sequences

CONSTANTS
  States,       \* per page: the panel states there may be
  MaxPackets,   \* bound: panel states published
  maxQueue

ASSUME PageAssumption ==
  /\ DOMAIN States \subseteq {"pdproxy", "netbsdvax", "amd64proxy"}
  /\ \A p \in DOMAIN States : States[p] \subseteq PanelState(p)
  /\ MaxPackets \in Nat /\ maxQueue \in Nat \ {0}

VARIABLES
  published, status, lost, owed, received,  \* of PanelFeed
  page,       \* which page it is
  machine,    \* the panel states published, as the proxy read them
  handled,    \* ghost: how many of the messages received have been handled
  readyState, \* "fetching" the configuration, "connecting", "open",
              \* "closed", or "failed" to find out the port
  js          \* the variables of base.js and the panel's script

feedVars == <<published, status, lost, owed, received>>
vars == <<feedVars, page, machine, handled, readyState, js>>

Feed == INSTANCE PanelFeed WITH Client <- {"page"}

-----------------------------------------------------------------------------
Label(text) == [text |-> text, fps |-> 0]

updateStatusLabel(v) ==
  [v EXCEPT !.label = IF v.lastMessageTime
                      THEN [text |-> "time since last state", fps |-> v.fps]
                      ELSE Label("waiting for panel state")]

(* The rest of processQueue's loop for one message, and for those queued.  *)
handleNext(v, json) ==
  updateStatusLabel([v EXCEPT !.frameCount = @ + 1,
                              !.panel = handleMessage(page, @, json)])

handleQueue(v) ==
  LET after[i \in 0 .. Len(v.msgQueue)] ==
        IF i = 0 THEN v ELSE handleNext(after[i - 1], v.msgQueue[i])
  IN  [after[Len(v.msgQueue)] EXCEPT !.msgQueue = <<>>]

(* Mutant: the next message finds the queue being processed.               *)
processQueueForever(v) ==
  IF v.processing THEN v ELSE handleQueue([v EXCEPT !.processing = TRUE])

processQueue(v) ==
  IF v.processing THEN v
  ELSE [handleQueue([v EXCEPT !.processing = TRUE])
          EXCEPT !.processing = FALSE]

(* A full queue loses its oldest message.                                  *)
enqueue(v, json) ==
  processQueue([v EXCEPT !.msgQueue =
    Append(IF Len(@) >= maxQueue THEN Tail(@) ELSE @, json)])

onopen(v) ==
  [v EXCEPT !.label = Label("Connected"), !.statusInterval = TRUE,
            !.fpsInterval = TRUE]

(* Mutant: the label's interval goes on.                                   *)
oncloseTicking(v) ==
  [v EXCEPT !.label = Label("Disconnected"), !.fpsInterval = FALSE]

onclose(v) ==
  [v EXCEPT !.label = Label("Disconnected"), !.statusInterval = FALSE,
            !.fpsInterval = FALSE]

onerror(v) ==
  [v EXCEPT !.label = Label("WebSocket error"), !.statusInterval = FALSE,
            !.fpsInterval = FALSE]

onmessage(v, json) == enqueue([v EXCEPT !.lastMessageTime = TRUE], json)

countFps(v) == [v EXCEPT !.fps = v.frameCount, !.frameCount = 0]

-----------------------------------------------------------------------------
Init ==
  /\ Feed!Init
  /\ page \in DOMAIN States
  /\ machine = <<>>
  /\ handled = 0
  /\ readyState = "fetching"
  /\ js = [msgQueue |-> <<>>, processing |-> FALSE, lastMessageTime |-> FALSE,
           statusInterval |-> FALSE, fpsInterval |-> FALSE,
           frameCount |-> 0, fps |-> 0, label |-> Label("Connecting..."),
           panel |-> initialize(page)]

(* The configuration names the port, or the page stays as it is.           *)
Configure ==
  /\ readyState = "fetching"
  /\ readyState' \in {"connecting", "failed"}
  /\ UNCHANGED <<feedVars, page, machine, handled, js>>

(* The proxy: a panel state is published; the page's connection is made,   *)
(* delivers, is closed by the proxy or lost.                               *)
Publish ==
  /\ Feed!Publish
  /\ \E state \in States[page] : machine' = Append(machine, state)
  /\ UNCHANGED <<page, handled, readyState, js>>

Proxy ==
  /\ readyState \in {"connecting", "open"}
  /\ \/ Feed!Join("page") \/ Feed!Deliver("page")
     \/ Feed!Lose({"page"}) \/ Feed!Leave("page")
  /\ UNCHANGED <<page, machine, handled, readyState, js>>

Open ==
  /\ readyState = "connecting"
  /\ readyState' = "open"
  /\ js' = onopen(js)
  /\ UNCHANGED <<feedVars, page, machine, handled>>

Message ==
  /\ readyState = "open" /\ handled < Len(received["page"])
  /\ handled' = handled + 1
  /\ js' = onmessage(js, udp_packet_to_json(page,
                           machine[received["page"][handled']]))
  /\ UNCHANGED <<feedVars, page, machine, readyState>>

(* A connection that could not be made, or was lost, reports an error      *)
(* first, and in the same task.                                            *)
Close ==
  /\ \/ readyState = "connecting" /\ received["page"] = <<>>
     \/ readyState = "open" /\ handled = Len(received["page"])
  /\ lost["page"]
  /\ readyState' = "closed"
  /\ \/ js' = onclose(onerror(js))
     \/ readyState = "open" /\ js' = onclose(js)
  /\ UNCHANGED <<feedVars, page, machine, handled>>

StatusTick ==
  /\ js.statusInterval
  /\ js' = updateStatusLabel(js)
  /\ UNCHANGED <<feedVars, page, machine, handled, readyState>>

FpsTick ==
  /\ js.fpsInterval
  /\ js' = countFps(js)
  /\ UNCHANGED <<feedVars, page, machine, handled, readyState>>

Click ==
  /\ HasLampTest(page)
  /\ js' = [js EXCEPT !.panel = clickLampTest(page, @)]
  /\ UNCHANGED <<feedVars, page, machine, handled, readyState>>

Next == \/ Configure \/ Publish \/ Proxy \/ Open \/ Message \/ Close
        \/ StatusTick \/ FpsTick \/ Click

(* Networks deliver, browsers run the tasks that are queued, time goes on. *)
(* Only Message adds to handled, and only Open and Close change readyState *)
(* once there is a WebSocket.                                              *)
Fairness ==
  /\ WF_owed(owed["page"] # <<>> /\ Feed!Deliver("page"))
  /\ WF_handled(/\ readyState = "open" /\ handled < Len(received["page"])
                /\ handled' = handled + 1)
  /\ WF_readyState(readyState = "connecting" /\ readyState' = "open")
  /\ WF_vars(StatusTick) /\ WF_vars(FpsTick)

Spec == Init /\ [][Next]_vars /\ Fairness

-----------------------------------------------------------------------------
(* What the lamps stand for, in terms of the machine's state and the one   *)
(* before it that the page got.  Those of the three modes are left out:    *)
(* the script asks the JSON for user, super and kernel, which it calls     *)
(* user_mode, super_mode and kernel_mode.  The JSON of a VAX has only      *)
(* address and data.                                                       *)
StatusMeant(now, before) ==
  {9, 7} \union AlwaysOn
  \union (IF before = Null \/ now.ps_data # before.ps_data THEN {3} ELSE {})
  \union (IF page = "netbsdvax" THEN {}
          ELSE (IF now.ps_mser \intersect (4 .. 7) = {} THEN {} ELSE {11})
               \union (IF now.ps_cpu_err \intersect {5, 6} = {} THEN {}
                       ELSE {10})
               \union (IF 4 \in now.ps_mmr3 THEN {0}
                       ELSE IF 0 \in now.ps_mmr0 THEN {1} ELSE {2}))

Shown(i) == IF i < 1 THEN Null ELSE machine[received["page"][i]]

LitMeant ==
  LET now == Shown(handled)
      before == Shown(handled - 1)
      dark == [address |-> {}, display |-> {}, status |-> AlwaysOn]
  IN
  CASE page = "amd64proxy" ->
         IF now = Null THEN [r \in Registers |-> {}]
         ELSE [r \in Registers |-> now[r]]
    [] page # "amd64proxy" /\ js.panel.lampTest -> initPanel(page)
    [] page # "amd64proxy" /\ ~js.panel.lampTest ->
         IF now = Null THEN dark
         ELSE [address |-> now.ps_address \intersect initPanel(page).address,
               display |-> now.ps_data,
               status  |-> StatusMeant(now, before)]

ModeLamps == 4 .. 6

(* The lamps of the document, those of the modes left out but in a test.   *)
ButModes(lit) ==
  IF js.panel.lampTest THEN lit
  ELSE [g \in DOMAIN lit |->
          IF g = "status" THEN lit[g] \ ModeLamps ELSE lit[g]]

(* Whatever came before, and whatever was clicked, the lamps are those of  *)
(* the last panel state the page was sent, although each message changes   *)
(* only the lamps that differ from what the script takes to be on; and the *)
(* numbers beside the registers are those of the lamps.                    *)
LampsFollow ==
  /\ ButModes(js.panel.lit) = ButModes(LitMeant)
  /\ page = "amd64proxy" => js.panel.text = js.panel.lit

(* The label of a page says Disconnected if its connection is closed, and  *)
(* only then: no interval that onopen started, no message and no error     *)
(* that is reported with the close writes over it.                         *)
LabelTruthful ==
  /\ readyState = "closed" <=> js.label.text = "Disconnected"
  /\ js.label.text # "WebSocket error"
  /\ readyState \in {"fetching", "connecting", "failed"}
       <=> js.label.text = "Connecting..."

(* A page whose connection stays shows the last panel state published, in  *)
(* the end, if any was sent to it.                                         *)
CatchesUp ==
  <>[](status["page"] # "member" \/ lost["page"]
       \/ (/\ owed["page"] = <<>>
           /\ js.panel.state =
                IF received["page"] = <<>> THEN Null
                ELSE udp_packet_to_json(page, machine[published])))
=============================================================================
