----------------------------- MODULE PanelFeed -----------------------------
(***************************************************************************)
(* What a proxy promises its WebSocket clients, without threads, buffers   *)
(* or connection objects: numbered panel states are published; a client    *)
(* that is a member when one is published is owed it; what is owed is      *)
(* received in order, several at a time; a client may be lost at any       *)
(* moment, and then what it is owed is abandoned.                          *)
(***************************************************************************)
EXTENDS Naturals, Sequences

CONSTANTS Client, MaxPackets

VARIABLES published,  \* number of panel states published
          status,     \* "new", then "member", then "gone"
          lost,       \* the connection has failed or is closed
          owed,       \* per client: published to it, not yet received
          received    \* per client

feedVars == <<published, status, lost, owed, received>>

Init == /\ published = 0
        /\ status = [c \in Client |-> "new"]
        /\ lost = [c \in Client |-> FALSE]
        /\ owed = [c \in Client |-> <<>>]
        /\ received = [c \in Client |-> <<>>]

(* A member may still be joined when its connection is lost: the registry   *)
(* learns of the loss later.                                                *)
Join(c) == /\ status[c] = "new"
           /\ status' = [status EXCEPT ![c] = "member"]
           /\ UNCHANGED <<published, lost, owed, received>>

Publish ==
  /\ published < MaxPackets
  /\ published' = published + 1
  /\ owed' = [c \in Client |->
                IF status[c] = "member" /\ ~lost[c]
                THEN Append(owed[c], published') ELSE owed[c]]
  /\ UNCHANGED <<status, lost, received>>

Deliver(c) ==
  /\ ~lost[c]
  /\ \E k \in 1..Len(owed[c]) :
       /\ received' = [received EXCEPT ![c] = @ \o SubSeq(owed[c], 1, k)]
       /\ owed' = [owed EXCEPT ![c] = SubSeq(@, k + 1, Len(@))]
  /\ UNCHANGED <<published, status, lost>>

Abandon(S) ==
  /\ lost' = [c \in Client |-> lost[c] \/ c \in S]
  /\ owed' = [c \in Client |-> IF c \in S THEN <<>> ELSE owed[c]]

Lose(S) == Abandon(S) /\ UNCHANGED <<published, status, received>>

Leave(c) == /\ status[c] = "member"
            /\ status' = [status EXCEPT ![c] = "gone"]
            /\ Abandon({c})
            /\ UNCHANGED <<published, received>>

Next == \/ Publish
        \/ \E c \in Client : Join(c) \/ Deliver(c) \/ Leave(c)
        \/ \E S \in SUBSET Client : Lose(S)

Spec == Init /\ [][Next]_feedVars

FairSpec == Spec /\ \A c \in Client : WF_feedVars(Deliver(c))

-----------------------------------------------------------------------------
(* What a client has received, followed by what it is owed, is a run of     *)
(* consecutive numbers, and the run of a connected member ends with the     *)
(* last panel state published.                                              *)
Run(c) == received[c] \o owed[c]
NoGaps ==
  \A c \in Client :
    /\ \A i \in 1..(Len(Run(c)) - 1) : Run(c)[i + 1] = Run(c)[i] + 1
    /\ status[c] = "member" /\ ~lost[c] /\ Run(c) # <<>>
         => Run(c)[Len(Run(c))] = published
=============================================================================
