------------------------------ MODULE TTFrames ------------------------------
(***************************************************************************)
(* What the protocols of the wired network block (ttnetwork.cpp) share:    *)
(* the frames in the queues of its nodes and the way a frame goes from the *)
(* sender's preprocQ and inputQ to the receiver's outputQ.  The sort mode  *)
(* of the queues is FIFO.                                                  *)
(***************************************************************************)
EXTENDS TTQueues

CONSTANTS
  MsgPrio,             \* [Message -> Int]
  Static,              \* FlexRay: the messages for the static segment
  Bandwidth            \* FDMA: [Node -> Nat], bits per unit of time

\* A node sends in one segment, so that its messages have an order.
ASSUME StaticAssumption ==
  /\ Static \subseteq Message
  /\ \A m, n \in Message : Sender[m] = Sender[n] => (m \in Static <=> n \in Static)
ASSUME RatesAssumption ==
  /\ MsgPrio \in [Message -> Int] /\ Bandwidth \in [Node -> Nat \ {0}]
  /\ \A m \in Message : \A i \in Node : Frame(m) % Bandwidth[i] = 0

\* NWmsg: remaining is in bits; waituntil ends the wait in preprocQ or outputQ.
NWmsg == [msg : Message, remaining : Int, timestamp : Nat, waituntil : Nat]

Rate(S, i) == IF S.type = "FDMA" THEN Bandwidth[i] ELSE Datarate

\* remxtime of the first frame of inputQ[i]
RemXTime(S, i) == Head(S.inputQ[i]).remaining \div Rate(S, i)

\* When the frame that node i sends will have been sent
Finish(S, i) == S.time + RemXTime(S, i)

-----------------------------------------------------------------------------
\* The first message of q, a preprocQ, that has waited long enough, 0 if none.
FirstDue(S, q) == SelectInSeq(q, LAMBDA m : m.waituntil <= S.time)

\* The scan of q goes on behind the message that it has moved where that now is,
\* at the end of the other queue: it stops with the first message that is due,
\* and those behind it are neither moved nor waited for.
Moved(S, q) == IF FirstDue(S, q) = 0 THEN << >>
               ELSE <<[q[FirstDue(S, q)] EXCEPT !.remaining = Frame(q[FirstDue(S, q)].msg)]>>
Kept(S, q)  == IF FirstDue(S, q) = 0 THEN q ELSE RemoveAt(q, FirstDue(S, q))
Waits(S, q) == {q[k].waituntil : k \in 1 .. IF FirstDue(S, q) = 0 THEN Len(q) ELSE FirstDue(S, q) - 1}

\* Messages that have waited in preprocQ go to inputQ, and likewise in the queues
\* of FlexRay's static segment.
Preprocess(S) ==
  Hit([S EXCEPT !.preprocQ     = [i \in Node |-> Kept(S, @[i])],
                !.inputQ       = [i \in Node |-> @[i] \o Moved(S, S.preprocQ[i])],
                !.statpreprocQ = [i \in Node |-> Kept(S, @[i])],
                !.statinputQ   = [i \in Node |-> @[i] \o Moved(S, S.statpreprocQ[i])]],
      UNION {Waits(S, S.preprocQ[i]) \cup Waits(S, S.statpreprocQ[i]) : i \in Node})

-----------------------------------------------------------------------------
\* "remaining -= rate * timeElapsed" for the frames that the nodes F send
Spend(S, F, elapsed) ==
  [S EXCEPT !.inputQ = [i \in Node |->
     IF i \in F THEN <<[Head(S.inputQ[i]) EXCEPT !.remaining = @ - Rate(S, i) * elapsed]>> \o Tail(@[i])
     ELSE @[i]]]

\* The first frames of the nodes F are to be sent from the start.
Restore(S, F) ==
  [S EXCEPT !.inputQ = [i \in Node |->
     IF i \in F THEN <<[Head(@[i]) EXCEPT !.remaining = Frame(Head(S.inputQ[i]).msg)]>> \o Tail(@[i])
     ELSE @[i]]]

Sent(S, i) == Head(S.inputQ[i]).remaining <= 0

\* "for (i = 0; i < nbrOfNodes; i++) if (...)"
ForNodes(I) == Among([k \in 1 .. NbrOfNodes |-> k - 1], I)

\* Mutant: a frame reaches every node but its sender, as on a bus.
ArrivalsEverywhere(S, F, r) ==
  LET from == ForNodes(F \ {r})
  IN  [k \in 1 .. Len(from) |->
         [Head(S.inputQ[from[k]]) EXCEPT !.waituntil = S.time + Postdelay[r]]]

\* The frames that the nodes F have sent, as they reach r: lower nodes first.
Arrivals(S, F, r) ==
  LET from == ForNodes({i \in F : r \in Receivers(Head(S.inputQ[i]).msg)})
  IN  [k \in 1 .. Len(from) |->
         [Head(S.inputQ[from[k]]) EXCEPT !.waituntil = S.time + Postdelay[r]]]

\* Mutant: what arrives is put in front of what arrived before.
DeliverFirst(S, F) ==
  [S EXCEPT !.inputQ = [i \in Node |-> IF i \in F THEN Tail(@[i]) ELSE @[i]],
            !.outputQ = [r \in Node |-> Arrivals(S, F, r) \o @[r]]]

\* The frames that the nodes F have sent go from inputQ to the receivers'
\* outputQ; broadcast makes a copy for every other node.
Deliver(S, F) ==
  Hit([S EXCEPT !.inputQ = [i \in Node |-> IF i \in F THEN Tail(@[i]) ELSE @[i]],
                !.outputQ = [r \in Node |-> @[r] \o Arrivals(S, F, r)]],
      {S.time + Postdelay[r] :
         r \in {n \in Node : Postdelay[n] # 0 /\ \E i \in F : n \in Receivers(Head(S.inputQ[i]).msg)}})

\* The protocols of a medium that one node at a time sends on count its frame
\* down and deliver it when it has been sent.
Transmit(S, elapsed) ==
  LET i == S.sending
      s == Spend(S, {i}, elapsed)
  IN  IF i = -1 THEN S
      ELSE IF Sent(s, i) THEN [Deliver(s, {i}) EXCEPT !.state[i] = 0, !.sending = -1]
      ELSE Hit(s, {Finish(s, i)})

\* Nodes that are idle start to send their first frame.
StartAll(S) ==
  LET starts == {i \in Node : S.state[i] = 0 /\ S.inputQ[i] # << >>}
  IN  Hit([S EXCEPT !.state = [i \in Node |-> IF i \in starts THEN 1 ELSE @[i]]],
          {Finish(S, i) : i \in starts})

\* The message as it waits for the sender's pre-processing
NewFrame(S, m) == [msg |-> m, remaining |-> 0, timestamp |-> S.time,
                   waituntil |-> S.time + Predelay[Sender[m]]]

\* nwSendMsg of a kernel, which knows one queue only
EnqueueMsg(S, m) == [S EXCEPT !.preprocQ[Sender[m]] = Append(@, NewFrame(S, m))]

\* The ttsend block of a node that sends in FlexRay's static segment; one that
\* sends in the dynamic segment does as nwSendMsg.
EnqueueStatic(S, m) == [S EXCEPT !.statpreprocQ[Sender[m]] = Append(@, NewFrame(S, m))]

Enqueue(S, m) ==
  IF S.type = "FLEXRAY" /\ m \in Static THEN EnqueueStatic(S, m) ELSE EnqueueMsg(S, m)
=============================================================================
