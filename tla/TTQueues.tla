----------------------------- MODULE TTQueues -----------------------------
(***************************************************************************)
(* What the wired and the wireless network block share: messages, the time *)
(* of the next call of the block, and the queues at the receiver.  A node  *)
(* is known by its index, -1 is the receiver of a broadcast, and S is the  *)
(* block's RTnetwork structure.  Times are integers in units in which      *)
(* TT_TIME_RESOLUTION is negligible.                                       *)
(***************************************************************************)
EXTENDS Integers, Sequences, FiniteSets, SequencesExt, TTLists

CONSTANTS
  NbrOfNodes,
  Message,             \* what code may send, each message at most once
  Sender, Receiver,    \* [Message -> Node], [Message -> Node \cup {-1}]
  Length,              \* [Message -> Nat], in bits
  Minsize,             \* minimum frame size, in bits
  Datarate,            \* bits per unit of time
  Predelay, Postdelay, \* [Node -> Nat]
  MaxTimestep          \* TT_MAX_TIMESTEP

Node     == 0 .. NbrOfNodes - 1
Frame(m) == IF Length[m] > Minsize THEN Length[m] ELSE Minsize    \* bits sent for m

ASSUME MessagesAssumption ==
  /\ NbrOfNodes \in Nat \ {0}
  /\ Sender \in [Message -> Node] /\ Receiver \in [Message -> Node \cup {-1}]
  /\ Length \in [Message -> Nat]
  /\ Predelay \in [Node -> Nat] /\ Postdelay \in [Node -> Nat]
  /\ MaxTimestep \in Nat \ {0}
\* Frames take a whole number of units of time.
ASSUME DatarateAssumption ==
  /\ Minsize \in Nat \ {0} /\ Datarate \in Nat \ {0} /\ Minsize % Datarate = 0
  /\ \A m \in Message : Frame(m) % Datarate = 0

Receivers(m) == IF Receiver[m] = -1 THEN Node \ {Sender[m]} ELSE {Receiver[m]}

\* "if (t < nextHit) nextHit = t", for every t in times
Hit(S, times) ==
  [S EXCEPT !.nextHit = CHOOSE t \in {@} \cup times : \A u \in {@} \cup times : t <= u]

-----------------------------------------------------------------------------
OutputDue(S, r) == Among(S.outputQ[r], {m \in ToSet(S.outputQ[r]) : m.waituntil <= S.time})

\* Frames that may be lost in this run, each known by its receiver and message
MayLose(S) == {x \in Node \X Message : \E k \in 1 .. Len(OutputDue(S, x[1])) :
                                          OutputDue(S, x[1])[k].msg = x[2]}

\* Messages that have waited in outputQ go to postprocQ or are lost; each one
\* that arrives toggles the trigger output of its receiver.
Postprocess(S, lost) ==
  LET kept(r) == Among(OutputDue(S, r), {m \in ToSet(S.outputQ[r]) : <<r, m.msg>> \notin lost})
      later(r) == Among(S.outputQ[r], {m \in ToSet(S.outputQ[r]) : m.waituntil > S.time})
      moved == [S EXCEPT !.outputQ = [r \in Node |-> later(r)],
                         !.postprocQ = [r \in Node |-> @[r] \o kept(r)],
                         !.outputs = [r \in Node |-> (@[r] + Len(kept(r))) % 2]]
  IN  Hit(moved, UNION {{later(r)[k].waituntil : k \in 1 .. Len(later(r))} : r \in Node})

\* nwGetMsg
Dequeue(S, r) ==
  IF S.postprocQ[r] = << >> THEN S ELSE [S EXCEPT !.postprocQ[r] = Tail(@)]

\* The messages of a queue that come from s, and those that go to r
Msgs(q)    == [k \in 1 .. Len(q) |-> q[k].msg]
From(s, q) == Among(Msgs(q), {m \in Message : Sender[m] = s})
To(r, q)   == Among(Msgs(q), {m \in Message : r \in Receivers(m)})
=============================================================================
