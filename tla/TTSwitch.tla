------------------------------ MODULE TTSwitch ------------------------------
(***************************************************************************)
(* Switched Ethernet (SFDSE of ttnetwork.cpp): every node has a link of    *)
(* its own to a store-and-forward switch and one from it.  The switch has  *)
(* one buffer for all its outputs (COMMONBUF) or one for each (OUTPUTBUF); *)
(* a frame for which it has no memory is sent again or dropped.            *)
(***************************************************************************)
EXTENDS TTFrames

CONSTANT SwitchMem                             \* switchmem of the block, in bits

ASSUME SwitchMemAssumption == SwitchMem \in Nat

\* The memory that the frames of a queue of the switch take
Bits(q) == FoldLeft(LAMBDA n, m : n + Length[m.msg], 0, q)

\* switchmalloc: is there memory for message m, and take it
HasMemory(S, m) ==
  IF S.buftype = "OUTPUTBUF" THEN \A r \in Receivers(m) : S.nodemem[r] >= Length[m]
  ELSE S.switchmem >= Cardinality(Receivers(m)) * Length[m]

\* Mutant: a broadcast takes the memory of one frame from the common buffer.
TakeMemoryOnce(S, m) ==
  IF S.buftype = "OUTPUTBUF"
  THEN [S EXCEPT !.nodemem = [r \in Node |-> IF r \in Receivers(m) THEN @[r] - Length[m] ELSE @[r]]]
  ELSE [S EXCEPT !.switchmem = @ - Length[m]]

TakeMemory(S, m) ==
  IF S.buftype = "OUTPUTBUF"
  THEN [S EXCEPT !.nodemem = [r \in Node |-> IF r \in Receivers(m) THEN @[r] - Length[m] ELSE @[r]]]
  ELSE [S EXCEPT !.switchmem = @ - Cardinality(Receivers(m)) * Length[m]]

\* switchfree
FreeMemory(S, r, m) ==
  IF S.buftype = "OUTPUTBUF" THEN [S EXCEPT !.nodemem[r] = @ + Length[m]]
  ELSE [S EXCEPT !.switchmem = @ + Length[m]]

\* The frame that node i was sending goes to the switch if it has been sent.
\* The copies of a broadcast will wait in outputQ, a frame for one node will not.
ToSwitch(S, i) ==
  LET m == Head(S.inputQ[i]).msg
      whole == [Head(S.inputQ[i]) EXCEPT !.remaining = Frame(m)]
      copy(r) == IF Receiver[m] = -1 THEN [whole EXCEPT !.waituntil = S.time + Postdelay[r]]
                 ELSE whole
      idle == [S EXCEPT !.state[i] = 0, !.inputQ[i] = Tail(@)]
  IN  IF ~Sent(S, i) THEN Hit(S, {Finish(S, i)})
      ELSE IF HasMemory(S, m)
           THEN [TakeMemory(idle, m) EXCEPT !.switchQ = [r \in Node |->
                   IF r \in Receivers(m) THEN Append(@[r], copy(r)) ELSE @[r]]]
      ELSE IF S.overflow = "BUFFULLRETRY"
           THEN [idle EXCEPT !.inputQ[i] = <<whole>> \o Tail(S.inputQ[i])]
           ELSE idle

SwitchFinish(S, r) == S.time + Head(S.switchQ[r]).remaining \div Datarate

\* The frame that output r of the switch was sending goes to outputQ if it has
\* been sent.
ToReceiver(S, r) ==
  LET m == Head(S.switchQ[r])
      done == [S EXCEPT !.swstate[r] = 0, !.switchQ[r] = Tail(@),
                        !.outputQ[r] = Append(@, [m EXCEPT !.remaining = Frame(m.msg)])]
  IN  IF m.remaining > 0 THEN Hit(S, {SwitchFinish(S, r)}) ELSE FreeMemory(done, r, m.msg)

StartToReceivers(S) ==
  LET starts == {r \in Node : S.swstate[r] = 0 /\ S.switchQ[r] # << >>}
  IN  Hit([S EXCEPT !.swstate = [r \in Node |-> IF r \in starts THEN 1 ELSE @[r]]],
          {SwitchFinish(S, r) : r \in starts})

\* First the frames to the switch, then those from it.
SFDSE(S, elapsed) ==
  LET busy  == {i \in Node : S.state[i] = 1}
      swbusy == {r \in Node : S.swstate[r] = 1}
      toSwitch == StartAll(FoldLeft(ToSwitch, Spend(S, busy, elapsed), ForNodes(busy)))
      spent == [toSwitch EXCEPT !.switchQ = [r \in Node |-> IF r \in swbusy
                  THEN <<[Head(toSwitch.switchQ[r]) EXCEPT !.remaining = @ - Datarate * elapsed]>> \o Tail(@[r])
                  ELSE @[r]]]
  IN  StartToReceivers(FoldLeft(ToReceiver, spent, ForNodes(swbusy)))
=============================================================================
