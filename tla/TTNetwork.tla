----------------------------- MODULE TTNetwork -----------------------------
(***************************************************************************)
(* The wired network block of TrueTime (ttnetwork.cpp) with the kernels    *)
(* that send and fetch messages (sendmsg.cpp, getmsg.cpp,                  *)
(* discardunsent.cpp).  Simulink calls the block when a kernel has sent    *)
(* (ttSendMsg toggles an input of the block) and at nextHit.  The protocol *)
(* and the parameters of the block are chosen in the initial state.        *)
(***************************************************************************)
EXTENDS TTContention, TTFlexRay, TTSwitch

CONSTANTS
  Scenario,         \* parameters of the block and what the code of the nodes does
  LastCall,         \* bound on the time of the calls of ttSendMsg and ttNCM
  MaxTime           \* bound on the time of the simulation

ASSUME ScenarioAssumption ==
  \A b \in Scenario :
    /\ b.type \in {"CSMACD", "CSMAAMP", "RR", "NCM", "FDMA", "TDMA", "SFDSE",
                  "FLEXRAY"}
    /\ b.schedule \in Seq(Node \cup {-1}) /\ b.schedule # << >>   \* of the slots, if any
    /\ b.buftype \in {"COMMONBUF", "OUTPUTBUF"}
    /\ b.overflow \in {"BUFFULLDROP", "BUFFULLRETRY"}
    /\ b.lossprob \in {0, 1}                         \* 1 is any positive one
    /\ b.sends \subseteq Message                     \* what the code may send
    /\ b.discards \in BOOLEAN                        \* it calls ttDiscardUnsentMessages

VARIABLES
  nwsys,    \* RTnetwork
  unsent,   \* messages that the code may still send
  discards, \* the code calls ttDiscardUnsentMessages
  inputs    \* an input of the block has been toggled: mdlZeroCrossings sets nextHit

vars == <<nwsys, unsent, discards, inputs>>

\* mdlStart.  It leaves nextHit uninitialised: the block may run at once or not
\* before the first message.
Init ==
  /\ inputs = FALSE
  /\ \E b \in Scenario, hit \in {0, MaxTimestep} :
       /\ unsent = b.sends /\ discards = b.discards
       /\ nwsys = [type |-> b.type, buftype |-> b.buftype, overflow |-> b.overflow,
                lossprob |-> b.lossprob, schedule |-> b.schedule,
                time |-> 0, prevHit |-> 0, nextHit |-> hit,
                preprocQ  |-> [i \in Node |-> << >>], inputQ |-> [i \in Node |-> << >>],
                statpreprocQ |-> [i \in Node |-> << >>], statinputQ |-> [i \in Node |-> << >>],
                outputQ   |-> [i \in Node |-> << >>], switchQ |-> [i \in Node |-> << >>],
                postprocQ |-> [i \in Node |-> << >>], outputs |-> [i \in Node |-> 0],
                state |-> [i \in Node |-> 0], swstate |-> [i \in Node |-> 0],
                collisions |-> [i \in Node |-> 0], until |-> [i \in Node |-> 0],
                switchmem |-> SwitchMem, nodemem |-> [i \in Node |-> SwitchMem \div NbrOfNodes],
                sending |-> -1, waituntil |-> 0, lasttime |-> -1,
                rrturn |-> NbrOfNodes - 1, nextNode |-> 0,
                slotcount |-> -1, currslottime |-> -SlotTime,
                miniSlotCount |-> -1, msgMiniSlots |-> 0, idleUntil |-> MaxTimestep]

-----------------------------------------------------------------------------
\* The switch on the type of the network, up to the back-off of CSMA/CD
Protocol(S, elapsed) ==
  CASE S.type = "CSMACD"  -> CSMACD(S, elapsed)
    [] S.type = "CSMAAMP" -> CSMAAMP(S, elapsed)
    [] S.type \in {"RR", "NCM"} -> TokenBus(S, elapsed)
    [] S.type = "FDMA"    -> FDMA(S, elapsed)
    [] S.type = "TDMA"    -> TDMA(S, elapsed)
    [] S.type = "SFDSE"   -> SFDSE(S, elapsed)
    [] S.type = "FLEXRAY" -> FlexRay(S, elapsed)

\* Only CSMA/CD draws a back-off (state 2 is another thing in TDMA).
Drawn(S) == IF S.type = "CSMACD" THEN {Backoff(S, draw) : draw \in Draws(S)} ELSE {S}

\* Frames that unirand loses
Losses(S) == IF S.lossprob = 1 THEN SUBSET MayLose(S) ELSE {{}}

MustRun == inputs \/ nwsys.time >= nwsys.nextHit

\* runNetwork
RunNetwork ==
  /\ MustRun
  /\ LET S == [nwsys EXCEPT !.prevHit = nwsys.time, !.nextHit = nwsys.time + MaxTimestep]
         P == Protocol(Preprocess(S), nwsys.time - nwsys.prevHit)
     IN  \E s \in Drawn(P) : \E lost \in Losses(s) : nwsys' = Postprocess(s, lost)
  /\ inputs' = FALSE
  /\ UNCHANGED <<unsent, discards>>

\* Simulink lets time go by to the next hit of some block.
Advance ==
  /\ ~MustRun /\ nwsys.time < MaxTime
  /\ nwsys' = [nwsys EXCEPT !.time = @ + 1]
  /\ UNCHANGED <<unsent, discards, inputs>>

\* ttSendMsg: nwSendMsg enqueues the message, and the kernel toggles its output.
SendMsg(m) ==
  /\ m \in unsent /\ nwsys.time <= LastCall
  /\ nwsys' = Enqueue(nwsys, m)
  /\ unsent' = unsent \ {m} /\ inputs' = TRUE
  /\ UNCHANGED discards

\* ttGetMsg
GetMsg(r) ==
  /\ nwsys.postprocQ[r] # << >>
  /\ nwsys' = Dequeue(nwsys, r)
  /\ UNCHANGED <<unsent, discards, inputs>>

\* ttDiscardUnsentMessages: NCM and FlexRay keep what is in inputQ, the others
\* a frame that is being sent.
DiscardUnsent(i) ==
  /\ discards
  /\ nwsys' = [nwsys EXCEPT !.preprocQ[i] = << >>,
                            !.inputQ[i] = IF nwsys.type \in {"NCM", "FLEXRAY"} THEN @
                                          ELSE IF nwsys.sending = i THEN <<Head(@)>> ELSE << >>]
  /\ UNCHANGED <<unsent, discards, inputs>>

\* ttNCM: the network code names the next node.
SetNextNode(i) ==
  /\ nwsys.type = "NCM" /\ nwsys.time <= LastCall
  /\ nwsys' = [nwsys EXCEPT !.nextNode = i]
  /\ UNCHANGED <<unsent, discards, inputs>>

Next ==
  \/ RunNetwork
  \/ Advance
  \/ \E m \in Message : SendMsg(m)
  \/ \E i \in Node : GetMsg(i) \/ DiscardUnsent(i) \/ SetNextNode(i)

Spec == Init /\ [][Next]_vars

-----------------------------------------------------------------------------
\* Properties

\* The queues hold messages of their node and the counters keep their ranges.
NetworkTypeOK ==
  /\ \A i \in Node :
       /\ nwsys.preprocQ[i] \in Seq(NWmsg) /\ nwsys.inputQ[i] \in Seq(NWmsg)
       /\ nwsys.outputQ[i] \in Seq(NWmsg) /\ nwsys.switchQ[i] \in Seq(NWmsg)
       /\ nwsys.postprocQ[i] \in Seq(NWmsg)
       /\ nwsys.statpreprocQ[i] \in Seq(NWmsg) /\ nwsys.statinputQ[i] \in Seq(NWmsg)
       /\ \A k \in 1 .. Len(nwsys.inputQ[i] \o nwsys.statinputQ[i]) :
            Sender[(nwsys.inputQ[i] \o nwsys.statinputQ[i])[k].msg] = i
       /\ \A k \in 1 .. Len(nwsys.postprocQ[i]) : i \in Receivers(nwsys.postprocQ[i][k].msg)
       /\ nwsys.state[i] \in {0, 1, 2, 3} /\ nwsys.swstate[i] \in {0, 1}
       /\ nwsys.collisions[i] \in 0 .. 10
  /\ nwsys.sending \in Node \cup {-1} /\ nwsys.rrturn \in Node
  /\ nwsys.slotcount \in -1 .. Len(nwsys.schedule) - (IF nwsys.type = "FLEXRAY" THEN 0 ELSE 1)
  /\ nwsys.miniSlotCount \in -1 .. Len(DynSchedule) - 1
  /\ nwsys.prevHit <= nwsys.time

SharedMedium == nwsys.type \in {"CSMACD", "CSMAAMP", "RR", "NCM", "TDMA", "FLEXRAY"}

\* The network as the segment that FlexRay is in sees it
Segment == IF nwsys.type = "FLEXRAY" /\ InStatic(nwsys) THEN Swapped(nwsys) ELSE nwsys

\* Frames that are on the medium or, in TDMA, interrupted there
Started(i) == nwsys.state[i] = 1 \/ (nwsys.type = "TDMA" /\ nwsys.state[i] = 2)

\* At most one node sends on a shared medium, and that node is "sending"; a
\* node that sends has a frame to send, a switch output that sends too; every
\* other frame is whole, also after a collision or a lost arbitration; and
\* under TDMA and in the static segment of FlexRay nobody but the owner of the
\* slot sends.
TransmissionsAreSound ==
  /\ SharedMedium => \A i \in Node : nwsys.state[i] = 1 <=> nwsys.sending = i
  /\ \A i \in Node :
       /\ Started(i) => Segment.inputQ[i] # << >> /\ ~Sent(Segment, i)
       /\ nwsys.swstate[i] = 1 => nwsys.switchQ[i] # << >>
       /\ \A k \in 1 .. Len(Segment.inputQ[i]) :
            k > 1 \/ ~Started(i) => Segment.inputQ[i][k].remaining = Frame(Segment.inputQ[i][k].msg)
       /\ \A k \in 1 .. Len(Segment.statinputQ[i]) :
            Segment.statinputQ[i][k].remaining = Frame(Segment.statinputQ[i][k].msg)
       /\ \A k \in 1 .. Len(nwsys.switchQ[i]) :
            k > 1 \/ nwsys.swstate[i] = 0
              => nwsys.switchQ[i][k].remaining = Frame(nwsys.switchQ[i][k].msg)
  /\ nwsys.sending # -1 /\ (nwsys.type = "TDMA" \/ (nwsys.type = "FLEXRAY" /\ InStatic(nwsys)))
       => Owner(nwsys) = nwsys.sending

\* What the frame of node i still needs: whole minislots in FlexRay's dynamic segment
SendingTime(i) ==
  LET t == RemXTime(Segment, i)
  IN  IF nwsys.type = "FLEXRAY" /\ InDynamic(nwsys)
      THEN ((t + MiniSlot - 1) \div MiniSlot) * MiniSlot ELSE t

\* The times at which the block has something to do
Due ==
  {nwsys.prevHit + SendingTime(i) : i \in {j \in Node : nwsys.state[j] = 1}}
  \cup {nwsys.prevHit + Head(nwsys.switchQ[r]).remaining \div Datarate :
          r \in {n \in Node : nwsys.swstate[n] = 1}}
  \cup {nwsys.until[i] : i \in {j \in Node : nwsys.type = "CSMACD" /\ nwsys.state[j] = 3}}
  \cup (UNION {{nwsys.outputQ[r][k].waituntil : k \in 1 .. Len(nwsys.outputQ[r])} : r \in Node})
  \cup {Head(nwsys.preprocQ[i]).waituntil :
          i \in {j \in Node : nwsys.preprocQ[j] # << >> /\ nwsys.inputQ[j] = << >>}}
  \cup {Head(nwsys.statpreprocQ[i]).waituntil :
          i \in {j \in Node : nwsys.statpreprocQ[j] # << >> /\ nwsys.statinputQ[j] = << >>}}
  \cup (IF nwsys.type \in {"RR", "NCM"} /\ nwsys.sending = -1 THEN {nwsys.waituntil} ELSE {})
  \cup (IF nwsys.type = "TDMA" THEN {SlotEnd(nwsys)} ELSE {})

\* A node that is not sending has to wait with its frame: for the node that
\* sends, for the token, for its slot; in FDMA and SFDSE for nothing.
MayWait(i) ==
  CASE nwsys.type \in {"CSMACD", "CSMAAMP"} -> nwsys.sending # -1
    [] nwsys.type \in {"RR", "NCM", "FLEXRAY"} -> TRUE
    [] nwsys.type = "TDMA" -> Owner(nwsys) # i
    [] OTHER -> FALSE

HasRun == nwsys.prevHit = 0 => nwsys.nextHit # MaxTimestep

\* The block is called again in time for the end of every transmission,
\* back-off, slot, token and wait, and a node keeps a frame only while
\* something holds it up: no frame is forgotten.  (In FlexRay it may be held up
\* for ever, see TTFlexRay.)
NetworkWakesUp ==
  HasRun /\ ~MustRun =>
    /\ \A t \in Due : nwsys.nextHit <= t
    /\ \A i \in Node : nwsys.state[i] = 0 /\ nwsys.inputQ[i] # << >> => MayWait(i)

\* The switch has given out exactly the memory of the frames that are in it.
SwitchMemoryIsAccounted ==
  IF nwsys.buftype = "OUTPUTBUF"
  THEN \A r \in Node : /\ nwsys.nodemem[r] + Bits(nwsys.switchQ[r]) = SwitchMem \div NbrOfNodes
                       /\ nwsys.nodemem[r] >= 0
  ELSE /\ nwsys.switchmem + SumFunction([r \in Node |-> Bits(nwsys.switchQ[r])]) = SwitchMem
       /\ nwsys.switchmem >= 0

\* How long a message of node i may take from ttSendMsg until it has been sent,
\* if every message that the code sends is sent only once.
OwnTime(i) == SumFunctionOnSet([m \in Message |-> Frame(m) \div Rate(nwsys, i)],
                               {m \in Message : Sender[m] = i})
LongestFrame(M) == CHOOSE t \in 0 .. MaxTime : /\ \A m \in M : Frame(m) \div Datarate <= t
                                               /\ t = 0 \/ \E m \in M : Frame(m) \div Datarate = t
Own(i) == {m \in Message : Sender[m] = i}

SendingBound(i) ==
  CASE nwsys.type = "FDMA" -> OwnTime(i)
    [] nwsys.type = "CSMAAMP" -> OwnTime(i) + Cardinality(Own(i)) * LongestFrame(Message \ Own(i))
    [] nwsys.type = "RR" -> SumFunction([m \in Message |-> Frame(m) \div Datarate])
                            + NbrOfNodes * Cardinality(Own(i)) * TokenTime
    [] nwsys.type = "TDMA" -> LET slots == Cardinality({k \in DOMAIN nwsys.schedule : nwsys.schedule[k] = i})
                              IN  (1 + OwnTime(i) \div (slots * SlotTime)) * Len(nwsys.schedule) * SlotTime
                                  + OwnTime(i)

\* Under FDMA, under the token bus, under TDMA for a node that has a slot, and
\* under CSMA/AMP for a node whose messages go before all others, a message
\* has been sent after a time that is known beforehand.
SentInTime ==
  \A i \in Node :
    /\ \/ nwsys.type \in {"FDMA", "RR"}
       \/ nwsys.type = "TDMA" /\ \E k \in DOMAIN nwsys.schedule : nwsys.schedule[k] = i
       \/ nwsys.type = "CSMAAMP" /\ \A m \in Own(i), x \in Message \ Own(i) : MsgPrio[m] < MsgPrio[x]
    => \A k \in 1 .. Len(nwsys.preprocQ[i] \o nwsys.inputQ[i]) :
         nwsys.time <= (nwsys.preprocQ[i] \o nwsys.inputQ[i])[k].timestamp + Predelay[i] + SendingBound(i)

\* The messages of every link, in the order in which they will come
Transit == [l \in Node \X Node |->
              From(l[1], nwsys.outputQ[l[2]]) \o From(l[1], nwsys.switchQ[l[2]])
              \o To(l[2], nwsys.inputQ[l[1]]) \o To(l[2], nwsys.preprocQ[l[1]])
              \o To(l[2], nwsys.statinputQ[l[1]]) \o To(l[2], nwsys.statpreprocQ[l[1]])]
Arrived == [l \in Node \X Node |-> From(l[1], nwsys.postprocQ[l[2]])]

Links == INSTANCE TTLinks WITH
  LinkNode <- Node, LinkMessage <- Message, LinkSender <- Sender,
  LinkReceivers <- [m \in Message |-> Receivers(m)], transit <- Transit, arrived <- Arrived,
  lossy <- nwsys.lossprob = 1 \/ (nwsys.type = "SFDSE" /\ nwsys.overflow = "BUFFULLDROP")

\* Whatever the protocol, the network is a FIFO link between any two nodes.
LinksSpec == Links!LinksSpec

\* "The task/handler will be invoked every time a message arrives over the
\* network": the kernel of the receiver sees an edge of its network input.
MessageArrives(r) == Len(nwsys'.postprocQ[r]) > Len(nwsys.postprocQ[r])
ArrivalsTrigger ==
  [][\A r \in Node : MessageArrives(r) => nwsys'.outputs[r] # nwsys.outputs[r]]_vars
=============================================================================
