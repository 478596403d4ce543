--------------------------- MODULE PanelPipeline ---------------------------
(***************************************************************************)
(* A panel state on its way from a client (socket/arch/*/client.c, the     *)
(* older socket/client.c or udpsender.py) through UDP to a proxy           *)
(* (proxy/proxybase.hpp, *proxy.cpp) or to the console server              *)
(* (socket/server.c).  Client, proxy and server each have their own        *)
(* declaration of the packet, compiled for their own machine.              *)
(*                                                                         *)
(* Abstractions.  Memory is a sequence of 16-bit words, all fields being   *)
(* made of these: word k of field f (1 the least significant) of the       *)
(* sender's n-th panel state is [field |-> f, k |-> k, from |-> s, n |-> n].*)
(* The values of a header's fields are numbers, those of a state's fields  *)
(* are not looked at: masking and formatting of the lamps are left out.    *)
(* No sender's packet exceeds the buffers of 1024 and 2048 bytes.          *)
(***************************************************************************)
EXTENDS Naturals, Sequences, FiniteSets

CONSTANTS Crews,       \* bound: sets of senders that run together
          Hosts,       \* where they are told to send to: "proxy", "console"
          MaxStates,   \* bound: panel states a sender sends
          ToolCounts,  \* pp_byte_count the user of udpsender.py may set
          ToolFlags,   \* pp_byte_flags the user of udpsender.py may set
          BareCounts,  \* what stands where a state without a header, read as
          BareFlags    \* a packet, has its pp_byte_count and pp_byte_flags

(* The clients, the three packets of udpsender.py, and the older client.   *)
KernelReaders == {"pdp11", "vax", "amd64", "legacy"}
Tools == {"tool11", "toolvax", "tool64"}
SenderKinds == KernelReaders \union {"linux", "macos"} \union Tools

ASSUME PipelineAssumption ==
  /\ Crews \subseteq SUBSET SenderKinds
  /\ Hosts \subseteq {"proxy", "console"}
  /\ MaxStates \in Nat
  /\ ToolCounts \subseteq Nat /\ ToolFlags \subseteq Nat
  /\ BareCounts \subseteq Nat /\ BareFlags \subseteq Nat

VARIABLES phase,    \* per sender: "find", "connect", "send" or "ended"
          sent,     \* per sender: panel states sent so far
          net,      \* datagrams that may still arrive
          shown,    \* per proxy: the last JSON it broadcast
          serving,  \* server.c: "no", then "yes", then "ended"
          buffer,   \* handle_udp_clients: the words behind the header
          console   \* handle_udp_clients: what became of the last datagram

senders == <<phase, sent>>
server == <<serving, buffer, console>>
pipeVars == <<senders, net, shown, server>>

-----------------------------------------------------------------------------
(* The declarations of the panel states: fields and their lengths in words, *)
(* in the order of their addresses.                                         *)
PdpFields == <<"ps_data", "ps_psw", "ps_mser", "ps_cpu_err", "ps_mmr0",
               "ps_mmr3">>
Clockframe == <<"rdi", "rsi", "rdx", "rcx", "r8", "r9", "r10", "r11", "r12",
                "r13", "r14", "r15", "rbp", "rbx", "rax", "gs", "fs", "es",
                "ds", "trapno", "err", "rip", "cs", "rflags", "rsp", "ss">>
PtRegs == <<"r15", "r14", "r13", "r12", "rbp", "rbx", "r11", "r10", "r9", "r8",
            "rax", "rcx", "rdx", "rsi", "rdi", "orig_rax", "rip", "cs",
            "eflags", "rsp", "ss">>

(* The words of fields that are w words long, w-th word last.               *)
WordsOf(fields, w) ==
  [i \in 1..(w * Len(fields)) |->
     [field |-> fields[1 + ((i - 1) \div w)], k |-> 1 + ((i - 1) % w)]]

(* A long of the PDP-11 has its high word first.                            *)
HighFirst(s) == <<s[2], s[1]>>

StateWords(s) ==
  CASE s = "tool11" -> WordsOf(<<"ps_address">>, 2) \o WordsOf(PdpFields, 1)
    [] s \in {"pdp11", "legacy"} ->
         HighFirst(WordsOf(<<"ps_address">>, 2)) \o WordsOf(PdpFields, 1)
    [] s \in {"vax", "toolvax"}  -> WordsOf(<<"ps_address", "ps_data">>, 2)
    [] s \in {"amd64", "tool64"} -> WordsOf(Clockframe, 4)
    [] s = "linux" -> WordsOf(PtRegs, 4)
    [] s = "macos" -> WordsOf(<<"pc", "sp", "fp", "lr", "x0", "x1">>, 4)
                        \o WordsOf(<<"cpu_usage", "memory_usage",
                             "load_average", "thread_count", "architecture",
                             "timestamp">>, 2)

(* Only the header is packed in the packets of linuxx64_panel_packet and    *)
(* macos_panel_packet: their states, which hold 64-bit fields, are aligned. *)
PadWord == [field |-> "pad", k |-> 1]
Pad == <<PadWord>>
Padding(s) == IF s \in {"linux", "macos"} THEN Pad ELSE <<>>

PANEL_PDP1170   == 1
PANEL_VAX       == 2
PANEL_NETBSDX64 == 3
PANEL_MACOS     == 4
PANEL_LINUXX64  == 5

(* The type of a sender's machine.                                         *)
Type(s) == CASE s \in {"pdp11", "legacy", "tool11"} -> PANEL_PDP1170
             [] s \in {"vax", "toolvax"}            -> PANEL_VAX
             [] s \in {"amd64", "tool64"}           -> PANEL_NETBSDX64
             [] s = "macos"                         -> PANEL_MACOS
             [] s = "linux"                         -> PANEL_LINUXX64

(* pp_byte_flags as a little-endian machine reads it.                       *)
Flags(s) == IF s = "pdp11" THEN Type(s) * 65536 ELSE Type(s)

Port(s) == CASE s \in {"amd64", "tool64"} -> 4001
             [] s \in {"vax", "toolvax"}  -> 4002
             [] OTHER                     -> 4000

Stamp(words, s, n) ==
  [i \in 1..Len(words) |-> [field |-> words[i].field, k |-> words[i].k,
                            from |-> s, n |-> n]]

(* The three words that the older client's packet has too few.              *)
Payload(s) == IF s = "legacy" THEN SubSeq(StateWords(s), 4, 8)
              ELSE Padding(s) \o StateWords(s)

Packet(s, n, host, count, flags) ==
  [from |-> s, n |-> n, host |-> host, port |-> Port(s),
   count |-> count, flags |-> flags, words |-> Stamp(Payload(s), s, n)]

HeaderSize == 6
Size(d) == HeaderSize + 2 * Len(d.words)

-----------------------------------------------------------------------------
(* The receivers' declarations: the words they expect behind the header.    *)
Proxies == {"pdproxy", "amd64proxy", "netbsdvax"}
PortOf == [pdproxy |-> 4000, amd64proxy |-> 4001, netbsdvax |-> 4002]

Declared(p) ==
  CASE p = "pdproxy"    -> WordsOf(<<"ps_address">>, 2) \o WordsOf(PdpFields, 1)
    [] p = "amd64proxy" -> WordsOf(Clockframe, 4)
    [] p = "netbsdvax"  -> WordsOf(<<"ps_address", "ps_data">>, 2)
SizeofT(p) == 2 * Len(Declared(p))

(* server.c is built with the clients' headers, on a machine with 64-bit    *)
(* longs and alignment: that moves ps_address of the PDP-11 to offset 8 and *)
(* makes it 8 bytes long.                                                   *)
DeclaredAtServer(flags) ==
  CASE flags = PANEL_PDP1170   -> Pad \o WordsOf(<<"ps_address">>, 4)
                                      \o WordsOf(PdpFields, 1)
    [] flags = PANEL_VAX       -> StateWords("vax")
    [] flags = PANEL_NETBSDX64 -> StateWords("amd64")
    [] flags = PANEL_MACOS     -> Pad \o StateWords("macos")
    [] flags = PANEL_LINUXX64  -> Pad \o StateWords("linux")

Unset == [field |-> "unset", k |-> 0, from |-> "nobody", n |-> 0]

(* What a program that declares the words `decl' finds in `memory' for      *)
(* those of them that it reads.                                             *)
Read(memory, decl, words) ==
  [w \in words |->
     LET i == CHOOSE i \in 1..Len(decl) : decl[i] = w
     IN  IF i <= Len(memory) THEN memory[i] ELSE Unset]

WordsIn(decl) == {decl[i] : i \in 1..Len(decl)} \ {PadWord}

Nothing == <<>>

(* Where main begins: some clients read kernel memory.                      *)
Begin(s) == IF s \in KernelReaders THEN "find" ELSE "connect"

NoConsole == [from |-> "nobody", label |-> 0, panel |-> Nothing]

PipeInit ==
  /\ \E crew \in Crews :
       phase = [s \in SenderKinds |->
                  IF s \in crew THEN Begin(s) ELSE "ended"]
  /\ sent = [s \in SenderKinds |-> 0]
  /\ net = {}
  /\ shown = [p \in Proxies |-> Nothing]
  /\ serving = "no"
  /\ buffer = <<>>
  /\ console = NoConsole

(* The kernel's symbol is found and its memory opened, or main exits.       *)
FindPanel(s) ==
  /\ phase[s] = "find"
  /\ phase' = [phase EXCEPT ![s] = "connect"]
  /\ UNCHANGED <<sent, net, shown, server>>

(* A socket is made and the server's name is looked up.                     *)
CreateSocket(s) ==
  /\ phase[s] = "connect"
  /\ phase' = [phase EXCEPT ![s] = "send"]
  /\ UNCHANGED <<sent, net, shown, server>>

(* None of the steps is tried again when it fails: the client ends if it    *)
(* cannot find the panel, resolve a name, read or send.                     *)
GiveUp(s) ==
  /\ phase[s] # "ended"
  /\ phase' = [phase EXCEPT ![s] = "ended"]
  /\ UNCHANGED <<sent, net, shown, server>>

Send(s, counts, flags) ==
  /\ phase[s] = "send"
  /\ sent[s] < MaxStates
  /\ sent' = [sent EXCEPT ![s] = @ + 1]
  /\ \E host \in Hosts, c \in counts, f \in flags :
       net' = net \union {Packet(s, sent'[s], host, c, f)}
  /\ UNCHANGED <<phase, shown, server>>

(* send_frames: read the panel, fill in the packet, sendto.                 *)
SendFrame(s) ==
  /\ s \notin Tools \union {"legacy"}
  /\ Send(s, {2 * Len(StateWords(s))}, {Flags(s)})

(* The older client sends the state as it is.                               *)
SendBare(s) == s = "legacy" /\ Send(s, BareCounts, BareFlags)

(* udpsender.py: its user sets the fields of the header.                    *)
SendByHand(s) == s \in Tools /\ Send(s, ToolCounts, ToolFlags)

(* UDP: a datagram that arrives may arrive again, or behind later ones.     *)
Arrives(d) == net' = net \/ net' = net \ {d}

Lose(d) ==
  /\ net' = net \ {d}
  /\ UNCHANGED <<senders, shown, server>>

(* get_panel_state.  The type named by pp_byte_flags is not looked at, and  *)
(* the datagram may be longer than it says.                                 *)
HasStateLongEnough(p, d) ==               \* mutant: any payload long enough
  /\ Size(d) >= HeaderSize + d.count
  /\ Size(d) >= HeaderSize + SizeofT(p)
HasState(p, d) ==
  /\ Size(d) >= HeaderSize
  /\ Size(d) >= HeaderSize + d.count
  /\ d.count = SizeofT(p)

(* The words that udp_packet_to_json makes members of the JSON of.          *)
JsonRegisters == {"rax", "rbx", "rcx", "rdx", "rdi", "rsi", "rbp", "rsp",
                  "rip", "rflags"}
JsonWords(p) ==
  {w \in WordsIn(Declared(p)) :
     p = "amd64proxy" => w.field \in JsonRegisters}

(* udp_loop: receive, translate, broadcast unless the text is empty.        *)
ProxyReceive(p, d) ==
  /\ d.host = "proxy" /\ d.port = PortOf[p]
  /\ Arrives(d)
  /\ shown' = IF HasState(p, d)
              THEN [shown EXCEPT ![p] =
                      Read(d.words, Declared(p), JsonWords(p))]
              ELSE shown
  /\ UNCHANGED <<senders, server>>

(* server.c binds its port, or exits; a signal or an error of the socket    *)
(* ends it.                                                                 *)
ServerStarts ==
  /\ serving = "no"
  /\ serving' \in {"yes", "ended"}
  /\ UNCHANGED <<senders, net, shown, buffer, console>>

ServerEnds ==
  /\ serving = "yes"
  /\ serving' = "ended"
  /\ UNCHANGED <<senders, net, shown, buffer, console>>

(* recvfrom leaves what lies behind the datagram as it was.                 *)
Overwrite(words) == words \o SubSeq(buffer, Len(words) + 1, Len(buffer))

(* What display_*_panel prints: 22 address bits of the PDP-11, 16 data bits *)
(* of the VAX, the low words of the macOS fields, all of a register.        *)
LowFields == {"pc", "sp", "cpu_usage", "memory_usage", "load_average",
              "thread_count"}
Displayed(flags) ==
  LET Shows(w) ==
        CASE flags = PANEL_PDP1170 ->
               w.field \notin {"ps_mser", "ps_cpu_err"} /\ w.k <= 2
          [] flags = PANEL_VAX     -> w.field = "ps_data" => w.k = 1
          [] flags = PANEL_MACOS   -> w.field \in LowFields /\ w.k <= 2
          [] OTHER                 -> TRUE
  IN  {w \in WordsIn(DeclaredAtServer(flags)) : Shows(w)}

Announced(d) == Size(d) = HeaderSize + d.count

(* handle_udp_clients: a datagram whose length is not the one its header    *)
(* says is reported, otherwise pp_byte_flags alone selects the display.     *)
ServerReceive(d) ==
  /\ serving = "yes"
  /\ d.host = "console" /\ d.port = 4000
  /\ Arrives(d)
  /\ buffer' = Overwrite(d.words)
  /\ console' =
       [from  |-> d.from,
        label |-> d.flags,
        panel |-> IF Announced(d) /\ d.flags \in 1..5
                  THEN Read(buffer', DeclaredAtServer(d.flags),
                            Displayed(d.flags))
                  ELSE Nothing]
  /\ UNCHANGED <<senders, shown, serving>>

PipeNext ==
  \/ \E s \in SenderKinds :
       \/ FindPanel(s) \/ CreateSocket(s) \/ GiveUp(s)
       \/ SendFrame(s) \/ SendBare(s) \/ SendByHand(s)
  \/ \E d \in net : Lose(d)
  \/ \E d \in net, p \in Proxies : ProxyReceive(p, d)
  \/ ServerStarts \/ ServerEnds
  \/ \E d \in net : ServerReceive(d)

PipeSpec == PipeInit /\ [][PipeNext]_pipeVars

-----------------------------------------------------------------------------
(* pdproxy takes the words of a long to be in the order of its own machine. *)
AtProxy(s, w) == IF s = "pdp11" /\ w.field = "ps_address" THEN 3 - w.k ELSE w.k

(* `panel' shows one state of a sender of one of `kinds': every word is the *)
(* word of the same field, none of another field, sender or state.          *)
Faithful(panel, kinds) ==
  \E s \in kinds : \E n \in 1..sent[s] : \A w \in DOMAIN panel :
    panel[w] = [field |-> w.field, k |-> AtProxy(s, w), from |-> s, n |-> n]

Kinds(p) == CASE p = "pdproxy"    -> {"pdp11", "tool11"}
              [] p = "amd64proxy" -> {"amd64", "tool64"}
              [] p = "netbsdvax"  -> {"vax", "toolvax"}

(* What a proxy broadcasts is the state of one packet of its own kind of    *)
(* sender, field by field, though Linux, macOS, the tool and the older      *)
(* client share the port of the PDP-11 and the header can say anything      *)
(* (get_panel_state).  One thing is not as it was sent: the two words of a  *)
(* PDP-11's address are exchanged.                                          *)
ProxyFaithful ==
  \A p \in Proxies :
    shown[p] # Nothing => Faithful(shown[p], Kinds(p))
=============================================================================
