---------------------------- MODULE TTContention ----------------------------
(***************************************************************************)
(* The protocols of ttnetwork.cpp in which the nodes contend for the       *)
(* medium: CSMA/CD, where colliding nodes back off, and CSMA/AMP, where    *)
(* the message with the smallest prio wins.  In the first CollisionWindow  *)
(* of a transmission the others do not hear it yet.                        *)
(***************************************************************************)
EXTENDS TTFrames

CONSTANTS
  CollisionWindow,      \* COLLISION_WINDOW
  MaxDraw               \* bound on what a node that has collided draws

ASSUME WindowAssumption == CollisionWindow \in Nat \ {0} /\ MaxDraw \in Nat

SendWindow == 2 * CollisionWindow

\* Nodes that want to send and do not know that they may not
Ready(S) == {i \in Node : S.state[i] = 0 /\ S.inputQ[i] # << >>}

AppearsIdle(S) == S.sending = -1 \/ S.time < S.lasttime + CollisionWindow

LowestNode(I) == CHOOSE i \in I : \A j \in I : i <= j

\* Node i starts to send on the idle medium.
Start(S, i) ==
  Hit([S EXCEPT !.lasttime = S.time, !.state[i] = 1, !.sending = i], {Finish(S, i)})

\* CSMA/CD: nodes (state 3) whose back-off has ended are idle again.
EndBackoff(S) ==
  LET ends == {i \in Node : S.state[i] = 3 /\ S.until[i] <= S.time}
      waits == {i \in Node : S.state[i] = 3 /\ S.until[i] > S.time}
  IN  Hit([S EXCEPT !.state = [i \in Node |-> IF i \in ends THEN 0 ELSE @[i]]],
          {S.until[i] : i \in waits})

\* Mutant: the frame of the node that was sending goes on where it stopped.
CollideKeeping(S) ==
  LET s == IF S.sending = -1 /\ Ready(S) # {} THEN Start(S, LowestNode(Ready(S))) ELSE S
      late == Ready(s)
  IN  IF ~AppearsIdle(S) \/ late = {} THEN s
      ELSE [s EXCEPT !.state = [i \in Node |-> IF i \in late \cup {s.sending} THEN 2 ELSE @[i]]]

\* CSMA/CD: the first node that is ready sends; every other one that is ready
\* in the window collides with it.
Collide(S) ==
  LET s == IF S.sending = -1 /\ Ready(S) # {} THEN Start(S, LowestNode(Ready(S))) ELSE S
      late == Ready(s)
  IN  IF ~AppearsIdle(S) \/ late = {} THEN s
      ELSE Restore([s EXCEPT !.state = [i \in Node |-> IF i \in late \cup {s.sending} THEN 2 ELSE @[i]]],
                   {s.sending})

Colliding(S) == {i \in Node : S.state[i] = 2}

\* nbrcollisions, which stops at 10
Collisions(S, i) == IF S.collisions[i] < 10 THEN S.collisions[i] + 1 ELSE 10

Draws(S) ==
  {draw \in [Colliding(S) -> 0 .. MaxDraw] : \A i \in Colliding(S) : draw[i] < 2 ^ Collisions(S, i)}

\* CSMA/CD: the nodes that have collided wait for draw[i] minimum frames, and
\* at least for two windows.
Backoff(S, draw) ==
  LET C == Colliding(S)
      wait(i) == IF draw[i] * (Minsize \div Datarate) > SendWindow
                 THEN draw[i] * (Minsize \div Datarate) ELSE SendWindow
  IN  IF C = {} THEN S
      ELSE Hit([S EXCEPT !.sending = -1,
                         !.state = [i \in Node |-> IF i \in C THEN 3 ELSE @[i]],
                         !.collisions = [i \in Node |-> IF i \in C THEN Collisions(S, i) ELSE @[i]],
                         !.until = [i \in Node |-> IF i \in C THEN S.time + wait(i) ELSE @[i]]],
               {S.time + wait(i) : i \in C})

CSMACD(S, elapsed) ==
  LET s == Transmit(S, elapsed)
      reset == IF S.sending # -1 /\ s.sending = -1
               THEN [s EXCEPT !.collisions[S.sending] = 0] ELSE s
  IN  Collide(EndBackoff(reset))
-----------------------------------------------------------------------------
HeadPrio(S, i) == MsgPrio[Head(S.inputQ[i]).msg]

\* Mutant: the message with the largest prio wins.
ArbitrateHigh(S) ==
  LET R == Ready(S) \cup ({S.sending} \ {-1})
      winner == CHOOSE i \in R : \A j \in R : \/ HeadPrio(S, i) > HeadPrio(S, j)
                                              \/ HeadPrio(S, i) = HeadPrio(S, j) /\ i >= j
  IN  IF ~AppearsIdle(S) \/ Ready(S) = {} THEN S
      ELSE Hit(Restore([S EXCEPT !.lasttime = IF S.sending = -1 THEN S.time ELSE @,
                                 !.state = [i \in Node |-> IF i = winner THEN 1 ELSE 0],
                                 !.sending = winner], {winner}),
               {S.time + Frame(Head(S.inputQ[i]).msg) \div Datarate : i \in R})

\* CSMA/AMP: in the order of the nodes, every node that is ready in the window
\* wins over the one that sends unless it has the larger prio.  lead is the
\* set of those that send for a while; the last of them goes on.  A node that
\* was sending and has lost sends its frame from the start.
Arbitrate(S) ==
  LET R == Ready(S)
      old == S.sending
      lost == old # -1 /\ \E i \in R : HeadPrio(S, i) <= HeadPrio(S, old)
      lead == {i \in R : /\ \A j \in R : j < i => HeadPrio(S, i) <= HeadPrio(S, j)
                         /\ old # -1 => HeadPrio(S, i) <= HeadPrio(S, old)}
      best == CHOOSE i \in lead : \A j \in lead : j <= i
      back == lost /\ old > best /\ HeadPrio(S, old) = HeadPrio(S, best)
      winner == IF lead = {} THEN old ELSE IF back THEN old ELSE best
      s == IF lost THEN Restore(S, {old}) ELSE S
  IN  IF ~AppearsIdle(S) \/ R = {} THEN S
      ELSE Hit([s EXCEPT !.lasttime = IF old = -1 THEN S.time ELSE @,
                         !.state = [i \in Node |-> IF i = winner THEN 1 ELSE 0],
                         !.sending = winner],
               {Finish(s, i) : i \in lead \cup ({winner} \ {-1})})

CSMAAMP(S, elapsed) == Arbitrate(Transmit(S, elapsed))
=============================================================================
