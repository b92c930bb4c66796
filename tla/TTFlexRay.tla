----------------------------- MODULE TTFlexRay -----------------------------
(***************************************************************************)
(* FlexRay (ttnetwork.cpp): a cycle has a static segment of slots, like    *)
(* TDMA, with queues of its own; a dynamic segment of minislots, in which  *)
(* a message may take several; and an idle segment.                        *)
(*                                                                         *)
(* The code does not keep to its cycle.  Nothing but the end of a          *)
(* transmission measures a minislot: whatever calls the block ends it.     *)
(* idleUntil is that of the last cycle until the next idle segment, so     *)
(* that the first minislot without a message ends the second cycle, in the *)
(* middle of the slot before the first.  And nothing calls the block again *)
(* for the end of that slot, of one that nobody owns, or of the idle       *)
(* segment once something else has called it there.                        *)
(***************************************************************************)
EXTENDS TTSlots

CONSTANTS
  DynSchedule,      \* the nodes that own the minislots
  MiniSlotSize,     \* in bits
  NIT               \* network idle time, in bits

ASSUME FlexRayAssumption ==
  /\ DynSchedule \in Seq(Node)
  /\ MiniSlotSize \in Nat \ {0} /\ MiniSlotSize % Datarate = 0
  /\ NIT \in Nat /\ NIT % Datarate = 0

MiniSlot == MiniSlotSize \div Datarate

InStatic(S)  == S.slotcount < Len(S.schedule)
InDynamic(S) == ~InStatic(S) /\ 0 <= S.miniSlotCount /\ S.miniSlotCount < Len(DynSchedule)

\* What is done to statinputQ in the static segment is done to inputQ elsewhere.
Swapped(S) == [S EXCEPT !.inputQ = S.statinputQ, !.statinputQ = S.inputQ]

\* The node that sends in a slot goes on, or ends and waits if there is more.
SendStatic(S, elapsed) ==
  LET i == S.sending
      s == Swapped(Transmit(Swapped(S), elapsed))
  IN  IF s.sending # -1 THEN s
      ELSE Hit([s EXCEPT !.state[i] = IF s.statinputQ[i] = << >> THEN 0 ELSE 2],
               IF S.time < SlotEnd(S) THEN {SlotEnd(S)} ELSE {})

\* The node that sends in minislots goes on or has used them up.
SendDynamic(S, elapsed) ==
  LET s == Transmit(S, elapsed)
  IN  IF s.sending # -1 THEN s
      ELSE [s EXCEPT !.miniSlotCount = @ + S.msgMiniSlots, !.msgMiniSlots = 0]

EndIdle(S) ==
  IF S.slotcount = Len(S.schedule) /\ S.time >= S.idleUntil
  THEN [S EXCEPT !.slotcount = -1] ELSE S

Send(S, elapsed) ==
  CASE S.sending = -1 -> EndIdle(S)
    [] S.sending # -1 /\ InStatic(S) -> SendStatic(S, elapsed)
    [] S.sending # -1 /\ InDynamic(S) -> SendDynamic(S, elapsed)

\* Behind the last slot comes the first minislot.
NextSlot(S) ==
  LET s == [S EXCEPT !.currslottime = IF @ < 0 THEN S.time - SlotTime ELSE @]
      n == s.slotcount + 1
      next == [s EXCEPT !.slotcount = n, !.currslottime = SlotEnd(s),
                        !.miniSlotCount = IF n = Len(S.schedule) THEN 0 ELSE @]
  IN  IF S.time < SlotEnd(s) THEN s
      ELSE IF S.sending # -1 /\ Owner(next) # S.sending
           THEN [next EXCEPT !.state[S.sending] = 2, !.sending = -1] ELSE next

\* The owner of the slot starts to send what it can send in time.
StartStatic(S) ==
  LET i == Owner(S)
      end == Finish(Swapped(S), i)
  IN  IF ~InStatic(S) \/ S.slotcount = -1 \/ i = S.sending THEN S
      ELSE IF S.statinputQ[i] = << >> THEN Hit(S, {SlotEnd(S)})
      ELSE IF end <= SlotEnd(S) THEN Hit([S EXCEPT !.state[i] = 1, !.sending = i], {end})
      ELSE Hit([S EXCEPT !.state[i] = IF SlotEnd(S) < S.nextHit THEN 2 ELSE @], {SlotEnd(S)})

\* The owner of the minislot starts to send if the segment is long enough.
StartDynamic(S) ==
  LET i == DynSchedule[S.miniSlotCount + 1]
      bits == Head(S.inputQ[i]).remaining
      slots == (bits + MiniSlotSize - 1) \div MiniSlotSize
      skips(st) == Hit([S EXCEPT !.state[i] = st, !.miniSlotCount = @ + 1], {S.time + MiniSlot})
  IN  IF S.sending # -1 THEN Hit(S, {Finish(S, S.sending)})
      ELSE IF S.inputQ[i] = << >> THEN skips(0)
      ELSE IF bits > (Len(DynSchedule) - S.miniSlotCount) * MiniSlotSize THEN skips(2)
      ELSE Hit([S EXCEPT !.state[i] = 1, !.sending = i, !.msgMiniSlots = slots],
               {S.time + slots * MiniSlot})

StartIdle(S) ==
  LET until == S.time + NIT \div Datarate
  IN  IF S.miniSlotCount < Len(DynSchedule) THEN S
      ELSE Hit([S EXCEPT !.miniSlotCount = -1, !.idleUntil = until, !.currslottime = -SlotTime],
               {until})

FlexRay(S, elapsed) ==
  LET sent == Send(S, elapsed)
      slot == IF InStatic(sent) THEN StartStatic(NextSlot(sent)) ELSE sent
  IN  StartIdle(IF InDynamic(slot) THEN StartDynamic(slot) ELSE slot)
=============================================================================
