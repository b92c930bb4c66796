------------------------------- MODULE TTLinks -------------------------------
(***************************************************************************)
(* What the wired network promises: between two nodes it is a FIFO link    *)
(* that neither duplicates nor invents a message, and loses none unless    *)
(* the block is told to (a loss probability, a switch that drops what it   *)
(* cannot store) or the sender discards it.                                *)
(***************************************************************************)
EXTENDS Naturals, Sequences, SequencesExt, TTLists

CONSTANTS
  LinkNode, LinkMessage,
  LinkSender,           \* [LinkMessage -> LinkNode]
  LinkReceivers         \* [LinkMessage -> SUBSET LinkNode]

VARIABLES
  transit,    \* [LinkNode \X LinkNode -> Seq(LinkMessage)]: sent and on the way
  arrived,    \* the same for what the receiver has not fetched yet
  lossy       \* the block may lose messages

linkVars == <<transit, arrived, lossy>>

Link == LinkNode \X LinkNode

LinksInit ==
  /\ transit = [l \in Link |-> << >>]
  /\ arrived = [l \in Link |-> << >>]
  /\ lossy \in BOOLEAN

LinkSend(m) ==
  /\ UNCHANGED <<arrived, lossy>>
  /\ LET before == transit
     IN  transit' = [l \in Link |-> IF l[1] = LinkSender[m] /\ l[2] \in LinkReceivers[m]
                                    THEN Append(before[l], m) ELSE before[l]]

\* Messages arrive on some links; only a lossy network loses one.
Carry ==
  /\ UNCHANGED lossy
  /\ LET was    == arrived
         now    == arrived'
         before == transit
         after  == transit'
         through(l) == SubSeq(now[l], Len(was[l]) + 1, Len(now[l])) \o after[l]
     IN  \A l \in Link :
           /\ IsPrefix(was[l], now[l])
           /\ through(l) = before[l] \/ (lossy /\ IsSubsequence(through(l), before[l]))

\* A node fetches the first message that has arrived from some node.
LinkGet ==
  /\ UNCHANGED <<transit, lossy>>
  /\ \E l \in Link : arrived[l] # << >> /\ arrived' = [arrived EXCEPT ![l] = Tail(@)]

\* A sender discards messages that are on the way to others.
LinkDiscard ==
  /\ UNCHANGED <<arrived, lossy>>
  /\ LET before == transit
         after  == transit'
     IN  \E s \in LinkNode : \A l \in Link :
           IF l[1] = s THEN IsSubsequence(after[l], before[l]) ELSE after[l] = before[l]

LinksNext ==
  \/ Carry
  \/ \E m \in LinkMessage : LinkSend(m)
  \/ LinkGet
  \/ LinkDiscard

LinksSpec == LinksInit /\ [][LinksNext]_linkVars
=============================================================================
