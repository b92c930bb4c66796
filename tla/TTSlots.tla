------------------------------ MODULE TTSlots ------------------------------
(***************************************************************************)
(* The protocols of ttnetwork.cpp in which the nodes take turns or have a  *)
(* medium each: the token bus (RR), the network code machine (NCM), FDMA   *)
(* and TDMA.                                                               *)
(***************************************************************************)
EXTENDS TTFrames

CONSTANT SlotTime     \* slottime

ASSUME SlotAssumption == SlotTime \in Nat \ {0}

TokenTime == Minsize \div Datarate

\* RR and NCM: a node with the token sends one frame or idles; passing the
\* token on takes as long as a minimum frame.
TokenBus(S, elapsed) ==
  LET turn == IF S.type = "NCM" THEN S.nextNode ELSE (S.rrturn + 1) % NbrOfNodes
      passed == [S EXCEPT !.rrturn = turn]
      s == Transmit(S, elapsed)
  IN  CASE S.sending = -1 /\ S.time >= S.waituntil /\ S.inputQ[turn] # << >> ->
             Hit([passed EXCEPT !.sending = turn, !.state[turn] = 1], {Finish(S, turn)})
        [] S.sending = -1 /\ S.time >= S.waituntil /\ S.inputQ[turn] = << >> ->
             Hit([passed EXCEPT !.waituntil = S.time + TokenTime], {S.time + TokenTime})
        [] S.sending = -1 /\ S.time < S.waituntil -> Hit(S, {S.waituntil})
        [] S.sending # -1 /\ s.sending # -1 -> s
        [] S.sending # -1 /\ s.sending = -1 ->
             Hit([s EXCEPT !.waituntil = S.time + TokenTime], {S.time + TokenTime})
-----------------------------------------------------------------------------
\* FDMA: every node sends on a medium of its own.
FDMA(S, elapsed) ==
  LET busy == {i \in Node : S.state[i] = 1}
      s == Spend(S, busy, elapsed)
      done == {i \in busy : Sent(s, i)}
      rest == Hit(s, {Finish(s, i) : i \in busy \ done})
  IN  StartAll([Deliver(rest, done) EXCEPT !.state = [i \in Node |-> IF i \in done THEN 0 ELSE @[i]]])
-----------------------------------------------------------------------------
\* The schedule names the owners of the slots of a cycle, -1 is nobody.
SlotEnd(S) == S.currslottime + SlotTime
Owner(S)   == S.schedule[S.slotcount + 1]

\* The node that sends has sent its frame or has not; it goes on with the next
\* frame while the slot lasts.
SendInSlot(S, elapsed) ==
  LET i == S.sending
      s == Spend(S, {i}, elapsed)
      sent == Deliver(s, {i})
      next == S.time < SlotEnd(S) /\ sent.inputQ[i] # << >>
  IN  IF i = -1 THEN S
      ELSE IF ~Sent(s, i) THEN Hit(s, {Finish(s, i)})
      ELSE IF next THEN Hit(sent, {Finish(sent, i)})
      ELSE [sent EXCEPT !.state[i] = 0, !.sending = -1]

\* A new slot interrupts the transmission of a node that does not own it.
NewSlot(S) ==
  LET s == [S EXCEPT !.slotcount = (@ + 1) % Len(S.schedule), !.currslottime = SlotEnd(S)]
  IN  IF S.time < SlotEnd(S) THEN S
      ELSE IF s.sending # -1 /\ Owner(s) # s.sending
           THEN [s EXCEPT !.state[s.sending] = 2, !.sending = -1] ELSE s

\* The owner of the slot resumes its frame or starts a new one.
StartInSlot(S) ==
  LET i == Owner(S)
  IN  IF i = S.sending \/ (S.state[i] # 2 /\ S.inputQ[i] = << >>) THEN S
      ELSE Hit([S EXCEPT !.state[i] = 1, !.sending = i], {Finish(S, i)})

\* Mutant: the wake-up at the end of the slot is forgotten.
TDMANoSlotEnd(S, elapsed) == StartInSlot(NewSlot(SendInSlot(S, elapsed)))

TDMA(S, elapsed) ==
  LET r == StartInSlot(NewSlot(SendInSlot(S, elapsed)))
  IN  Hit(r, {SlotEnd(r)})
=============================================================================
