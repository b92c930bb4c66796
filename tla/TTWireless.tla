----------------------------- MODULE TTWireless -----------------------------
(***************************************************************************)
(* The wireless network block of TrueTime (ttwnetwork.cpp): 802.11b/g, the *)
(* same with its turn named by the network code (NCM), and 802.15.4.  A    *)
(* frame is in the inputQ of its receiver while it is on the air; nodes    *)
(* hear each other at a level that follows from their powers and places,   *)
(* which do not change here.  There are no ACK messages: a sender learns   *)
(* at the end of the frame whether it is to be sent again.                 *)
(***************************************************************************)
EXTENDS TTQueues

CONSTANTS
  Level,               \* [Node -> [Node -> Nat]]: Level[r][s], how r hears s
  Threshold,           \* receiverThreshold
  AckTimeout, RetryLimit,
  SlotTime, DIFS, CWMin, CWMax,                      \* 802.11
  UnitBackoff, IFS, MinBE, MaxBE, MaxCSMABackoffs,   \* 802.15.4
  Scenario,            \* parameters of the block and what the code of the nodes does
  LastCall,            \* bound on the time of the calls of ttSendMsg and ttNCM
  MaxTime              \* bound on the time of the simulation

\* A node hears itself best and over the threshold: transmitters do not differ
\* so much that another node drowns its own signal.
ASSUME LevelAssumption ==
  /\ Level \in [Node -> [Node -> Nat]] /\ Threshold \in Nat \ {0}
  /\ \A r, s \in Node : Level[r][r] >= Level[r][s] /\ Level[r][r] >= Threshold
ASSUME ProtocolsAssumption ==
  /\ AckTimeout \in Nat /\ RetryLimit \in Nat
  /\ {SlotTime, DIFS, CWMin, CWMax, UnitBackoff, IFS} \subseteq Nat \ {0}
  /\ {MinBE, MaxBE, MaxCSMABackoffs} \subseteq Nat

ASSUME ScenarioAssumption ==
  \A b \in Scenario :
    /\ b.type \in {"802.11", "NCM", "802.15.4"}
    /\ b.lossprob \in {0, 1}                     \* 1 is any positive one
    /\ b.errors \in BOOLEAN                      \* noise makes frames undecodable
    /\ b.sends \subseteq Message                 \* what the code may send
    /\ b.discards \in BOOLEAN                    \* it calls ttDiscardUnsentMessages

VARIABLES
  nwsys,    \* RTnetwork; tries is a history: how often a message has been sent
  unsent,   \* messages that the code may still send
  inputs    \* an input of the block has been toggled: mdlZeroCrossings sets nextHit

vars == <<nwsys, unsent, inputs>>

\* mdlInitializeSizes.  It leaves nextHit uninitialised: the block may run at
\* once or not before the first message.
Init ==
  /\ inputs = FALSE
  /\ \E b \in Scenario, hit \in {0, MaxTimestep} :
       /\ unsent = b.sends
       /\ nwsys = [type |-> b.type, lossprob |-> b.lossprob, errors |-> b.errors,
                   discards |-> b.discards, time |-> 0, prevHit |-> 0, nextHit |-> hit,
                   preprocQ  |-> [i \in Node |-> << >>], inputQ |-> [i \in Node |-> << >>],
                   outputQ   |-> [i \in Node |-> << >>], postprocQ |-> [i \in Node |-> << >>],
                   outputs   |-> [i \in Node |-> 0], state |-> [i \in Node |-> "idle"],
                   nbrcollisions |-> [i \in Node |-> 0], backoff |-> [i \in Node |-> 0],
                   lastused  |-> [i \in Node |-> 0], lastbackoffcount |-> [i \in Node |-> 0],
                   signallevels |-> [r \in Node |-> [s \in Node |-> 0]],
                   rrturn |-> NbrOfNodes - 1, nextNode |-> 0,
                   tries |-> [m \in Message |-> 0]]

Bounded(n, max) == IF n > max THEN max ELSE n

\* The draws of backoff_802_11
Window(nbr) == 0 .. Bounded(2 ^ (nbr + CWMin - 1) - 1, CWMax)

\* Some nodes hear something.
Busy(S) == {r \in Node : \E s \in Node : S.signallevels[r][s] >= Threshold}

\* Code whose outcome is not determined maps a state to a set of states: "for
\* each x of xs, op(S, x)"
ForEach(states, xs, op(_, _)) ==
  FoldLeft(LAMBDA T, x : UNION {op(S, x) : S \in T}, states, xs)
Nodes == [k \in 1 .. NbrOfNodes |-> k - 1]

-----------------------------------------------------------------------------
\* What a node's signal may be at every node; a positive lossprob silences it
\* at some, perhaps at the sender itself.
Signals(S, s) ==
  {[r \in Node |-> [S.signallevels[r] EXCEPT ![s] = IF r \in lost THEN 0 ELSE Level[r][s]]] :
     lost \in IF S.lossprob = 1 THEN SUBSET Node ELSE {{}}}

\* Mutant: a frame is disturbed only where the new one is received.
DisturbLocally(S, s, L) ==
  [r \in Node |-> [k \in DOMAIN S.inputQ[r] |->
     LET m == S.inputQ[r][k]
     IN  [m EXCEPT !.collided = @ \/ (/\ r \in Receivers(Head(S.preprocQ[s]).msg)
                                      /\ Sender[m.msg] # s /\ L[r][Sender[m.msg]] <= L[r][s])]]]

\* Frames of others have collided wherever s, at the levels L, is not weaker.
Disturb(S, s, L) ==
  [r \in Node |-> [k \in DOMAIN S.inputQ[r] |->
     LET m == S.inputQ[r][k]
     IN  [m EXCEPT !.collided = @ \/ (Sender[m.msg] # s /\ L[r][Sender[m.msg]] <= L[r][s])]]]

\* send_message and broadcast: the first frame of s goes on the air, to every
\* receiver.  It has collided where the receiver is sending or hears somebody
\* else as well.
Transmit(S, s) ==
  LET m == Head(S.preprocQ[s])
      drowned(L, r) == S.state[r] = "sending" \/ \E j \in Node \ {s} : L[r][j] >= L[r][s]
      on(L, r) == IF r \in Receivers(m.msg)
                  THEN <<[m EXCEPT !.remaining = Frame(m.msg), !.collided = drowned(L, r)]>>
                  ELSE << >>
  IN  {Hit([S EXCEPT !.signallevels = L, !.state[s] = "sending",
                     !.preprocQ[s] = Tail(@), !.tries[m.msg] = @ + 1,
                     !.inputQ = [r \in Node |-> Disturb(S, s, L)[r] \o on(L, r)]],
           {S.time + Frame(m.msg) \div Datarate}) : L \in Signals(S, s)}

\* The back-offs before a message is sent again
ResendDelays(S, n) == IF S.type = "802.15.4" THEN {0} ELSE {SlotTime * d : d \in Window(n)}

\* Mutant: the message goes behind those that wait.
RequeueLast(q, m) == Append(q, m)

Requeue(q, m) == <<m>> \o q

\* Mutant: the count goes on with the next message.
GiveUpCounting(S, s) ==
  LET dropped == [S EXCEPT !.nbrcollisions[s] = @ + 1, !.state[s] = "idle"]
  IN  {dropped, Hit(dropped, {S.time}), Hit(dropped, {S.time + 1})}

\* A message of s is dropped.  That leaves waituntil of runNetwork uninitialised
\* or as an earlier frame left it: the block may run again at once, or later.
GiveUp(S, s) ==
  LET dropped == [S EXCEPT !.nbrcollisions[s] = 0, !.state[s] = "idle"]
  IN  {dropped, Hit(dropped, {S.time}), Hit(dropped, {S.time + 1})}

\* resend_message: back to the head of preprocQ, or given up
Resend(S, m) ==
  LET s == Sender[m.msg]
      n == S.nbrcollisions[s] + 1
      again == [m EXCEPT !.remaining = Frame(m.msg), !.waituntil = S.time + AckTimeout]
  IN  IF Receiver[m.msg] # -1 /\ n <= RetryLimit
      THEN {Hit([S EXCEPT !.nbrcollisions[s] = n, !.state[s] = "waiting", !.backoff[s] = d,
                          !.preprocQ[s] = Requeue(@, again)], {S.time + d}) : d \in ResendDelays(S, n)}
      ELSE GiveUp(S, s)

\* The frame m has been received by r.
Receive(S, r, m) ==
  Hit([S EXCEPT !.outputQ[r] = Append(@, [m EXCEPT !.waituntil = S.time + Postdelay[r]]),
                !.state[Sender[m.msg]] = "idle", !.nbrcollisions[Sender[m.msg]] = 0],
      {S.time + Postdelay[r]})

\* The last copy of a broadcast: the others' receivers come before it.
LastCopy(m, r) ==
  \/ Receiver[m.msg] # -1
  \/ r = NbrOfNodes - 1
  \/ Sender[m.msg] = NbrOfNodes - 1 /\ r = NbrOfNodes - 2

\* updateSignalLevels(nwsys, s, 0)
Silence(S, s) == [S EXCEPT !.signallevels = [r \in Node |-> [@[r] EXCEPT ![s] = 0]]]

\* Mutant: nobody is called to sense the medium when it has become idle.
SenseNot(S) == S

\* In 802.11 a node that waits may send DIFS after the end of a frame.
Sense(S) == IF S.type = "802.15.4" THEN S ELSE Hit(S, {S.time + DIFS})

\* The frame m to r has been sent.
Finish(S, r, m) ==
  LET heard == ~m.collided /\ S.signallevels[r][Sender[m.msg]] >= Threshold
      ended == (IF heard THEN {Receive(S, r, m)} ELSE {})
               \cup (IF ~heard \/ S.errors THEN Resend(S, m) ELSE {})
  IN  {Sense(IF LastCopy(m, r) THEN Silence(s, Sender[m.msg]) ELSE s) : s \in ended}

\* Transmissions to r are in parallel; those that have been sent are finished.
Listen(S, r) ==
  LET done == Among(S.inputQ[r], {m \in ToSet(S.inputQ[r]) : m.remaining <= 0})
      left == Among(S.inputQ[r], {m \in ToSet(S.inputQ[r]) : m.remaining > 0})
      hits == {S.time + left[k].remaining \div Datarate : k \in DOMAIN left}
  IN  ForEach({Hit([S EXCEPT !.inputQ[r] = left], hits)}, done,
              LAMBDA s, m : Finish(s, r, m))

-----------------------------------------------------------------------------
\* MAC_802_11 for node i; busy are the nodes that heard something in this run.
\* Its back-off is counted down only while it hears nothing for DIFS, and drawn
\* when it wants to send and hears somebody.
Access_802_11(S, busy, i) ==
  LET m     == Head(S.preprocQ[i])
      free  == S.lastused[i] + DIFS
      since == IF S.lastbackoffcount[i] > S.lastused[i] THEN S.lastbackoffcount[i] ELSE free
      wants == [S EXCEPT !.state[i] = IF @ = "sending" THEN @ ELSE "waiting"]
      counted == IF S.backoff[i] > 0
                 THEN [wants EXCEPT !.backoff[i] = @ - (S.time - since), !.lastbackoffcount[i] = S.time]
                 ELSE wants
  IN  CASE S.preprocQ[i] = << >>  -> {S}
        [] S.preprocQ[i] # << >> /\ m.waituntil > S.time -> {Hit(S, {m.waituntil})}
        [] S.preprocQ[i] # << >> /\ m.waituntil <= S.time ->
             CASE free <= S.time ->
                    IF counted.backoff[i] <= 0 THEN Transmit(counted, i)
                    ELSE {Hit(counted, {S.time + counted.backoff[i]})}
               [] free > S.time /\ i \notin busy -> {Hit(wants, {free})}
               [] free > S.time /\ i \in busy ->
                    IF S.backoff[i] > 0 THEN {wants}
                    ELSE {[wants EXCEPT !.backoff[i] = SlotTime * d] : d \in Window(1)}

\* MAC_802_11_NCM: the turn is recorded, but nobody waits for it.
Access_NCM(S, busy, i) == Access_802_11([S EXCEPT !.rrturn = S.nextNode], busy, i)

\* MAC_802_15_4 for node i, whose back-off is a time.  A message whose medium
\* has been found busy too often is dropped.
Access_802_15_4(S, i) ==
  LET m      == Head(S.preprocQ[i])
      n      == m.nbrOfBackoffs + 1
      wants  == [S EXCEPT !.state[i] = "waiting"]
      delay(nb, max) == {Hit([wants EXCEPT !.preprocQ[i][1].nbrOfBackoffs = nb,
                                           !.backoff[i] = S.time + d * UnitBackoff],
                             {S.time + d * UnitBackoff}) : d \in 0 .. max}
  IN  CASE S.state[i] = "sending" \/ S.preprocQ[i] = << >> -> {S}
        [] S.state[i] # "sending" /\ S.preprocQ[i] # << >> ->
             CASE m.waituntil > S.time -> {Hit(S, {m.waituntil})}
               [] m.waituntil <= S.time /\ S.backoff[i] > S.time -> {Hit(S, {S.backoff[i]})}
               [] m.waituntil <= S.time /\ S.backoff[i] <= S.time ->
                    IF n = 0 THEN delay(0, 2 ^ MinBE - 1)
                    ELSE IF S.lastused[i] + IFS <= S.time
                         THEN Transmit([wants EXCEPT !.preprocQ[i][1].nbrOfBackoffs = 0], i)
                    ELSE IF n <= MaxCSMABackoffs THEN delay(n, 2 ^ Bounded(MinBE + n, MaxBE))
                    ELSE {[S EXCEPT !.state[i] = "idle", !.nbrcollisions[i] = 0,
                                    !.preprocQ[i] = Tail(@)]}

Access(S, busy, i) ==
  CASE S.type = "802.11"   -> Access_802_11(S, busy, i)
    [] S.type = "NCM"      -> Access_NCM(S, busy, i)
    [] S.type = "802.15.4" -> Access_802_15_4(S, i)

MustRun == inputs \/ nwsys.time >= nwsys.nextHit

\* runNetwork.  Two runs are never at the same time, only less than a unit
\* apart: a node has lastused = time only if it heard something in this run.
RunNetwork ==
  /\ MustRun
  /\ LET S       == nwsys
         busy    == Busy(S)
         elapsed == S.time - S.prevHit
         sensed  == [S EXCEPT !.prevHit = S.time, !.nextHit = S.time + MaxTimestep,
                       !.lastused = [i \in Node |-> IF i \in busy THEN S.time ELSE @[i]],
                       !.inputQ = [r \in Node |-> [k \in DOMAIN @[r] |->
                                    [@[r][k] EXCEPT !.remaining = @ - Datarate * elapsed]]]]
     IN  \E s \in ForEach(ForEach({sensed}, Nodes, Listen), Nodes, LAMBDA T, i : Access(T, busy, i)) :
           nwsys' = Postprocess(s, {})
  /\ inputs' = FALSE
  /\ UNCHANGED unsent

\* Simulink lets time go by to the next hit of some block.
Advance ==
  /\ ~MustRun /\ nwsys.time < MaxTime
  /\ nwsys' = [nwsys EXCEPT !.time = @ + 1]
  /\ UNCHANGED <<unsent, inputs>>

\* ttSendMsg: nwSendMsg enqueues the message, and the kernel toggles its output.
SendMsg(m) ==
  /\ m \in unsent /\ nwsys.time <= LastCall
  /\ nwsys' = [nwsys EXCEPT !.preprocQ[Sender[m]] =
       Append(@, [msg |-> m, remaining |-> 0, waituntil |-> nwsys.time + Predelay[Sender[m]],
                  nbrOfBackoffs |-> -1, collided |-> FALSE])]
  /\ unsent' = unsent \ {m} /\ inputs' = TRUE

\* ttGetMsg
GetMsg(r) ==
  /\ nwsys.postprocQ[r] # << >>
  /\ nwsys' = Dequeue(nwsys, r)
  /\ UNCHANGED <<unsent, inputs>>

\* ttDiscardUnsentMessages: what is on the air stays, and so do the back-off
\* and the number of collisions of the message that is discarded.
DiscardUnsent(i) ==
  /\ nwsys.discards
  /\ nwsys' = [nwsys EXCEPT !.preprocQ[i] = << >>]
  /\ UNCHANGED <<unsent, inputs>>

\* ttNCM: the network code names the next node.
SetNextNode(i) ==
  /\ nwsys.type = "NCM" /\ nwsys.time <= LastCall
  /\ nwsys' = [nwsys EXCEPT !.nextNode = i]
  /\ UNCHANGED <<unsent, inputs>>

Next ==
  \/ RunNetwork
  \/ Advance
  \/ \E m \in Message : SendMsg(m)
  \/ \E i \in Node : GetMsg(i) \/ DiscardUnsent(i) \/ SetNextNode(i)

Spec == Init /\ [][Next]_vars

-----------------------------------------------------------------------------
\* Properties

OnAir(s) == {r \in Node : \E k \in DOMAIN nwsys.inputQ[r] : Sender[nwsys.inputQ[r][k].msg] = s}

\* What the nodes hear is what is on the air: a node is sending exactly while
\* a frame of its is, one at a time, and everybody hears it so long.  A frame
\* that has not collided is the strongest signal at its receiver, which is not
\* sending itself, however the transmissions overlap.  (With losses a node may
\* hear less than there is, perhaps not even itself.)
AirIsSound ==
  /\ \A s \in Node :
       /\ nwsys.state[s] = "sending" <=> OnAir(s) # {}
       /\ \A r \in Node :
            /\ nwsys.signallevels[r][s] \in
                 IF OnAir(s) = {} THEN {0} ELSE {Level[r][s]} \cup (IF nwsys.lossprob = 1 THEN {0} ELSE {})
            /\ Len(From(s, nwsys.inputQ[r])) <= 1
  /\ \A r \in Node : \A k \in DOMAIN nwsys.inputQ[r] :
       LET m == nwsys.inputQ[r][k]
       IN  ~m.collided =>
             /\ nwsys.lossprob = 0 => nwsys.state[r] # "sending"
             /\ \A j \in Node \ {Sender[m.msg]} :
                  nwsys.signallevels[r][j] < nwsys.signallevels[r][Sender[m.msg]]

\* When node i, which has messages to send, is to be looked at again.  802.11
\* waits for a medium that it hears to become idle, which the end of a frame
\* brings about, for DIFS and for the back-off; 802.15.4 does not look behind
\* a message that it drops.
NextLook(i) ==
  LET m == Head(nwsys.preprocQ[i])
  IN  IF nwsys.type = "802.15.4"
      THEN CASE nwsys.state[i] = "sending" -> {}
             [] nwsys.state[i] # "sending" /\ m.waituntil > nwsys.prevHit -> {m.waituntil}
             [] nwsys.state[i] = "waiting" /\ m.waituntil <= nwsys.prevHit -> {nwsys.backoff[i]}
             [] nwsys.state[i] = "idle" /\ m.waituntil <= nwsys.prevHit -> {}
      ELSE CASE m.waituntil > nwsys.prevHit -> {m.waituntil}
             [] m.waituntil <= nwsys.prevHit /\ i \in Busy(nwsys) -> {}
             [] m.waituntil <= nwsys.prevHit /\ i \notin Busy(nwsys) ->
                  IF nwsys.lastused[i] + DIFS > nwsys.prevHit THEN {nwsys.lastused[i] + DIFS}
                  ELSE {nwsys.prevHit + nwsys.backoff[i]}

HasRun == nwsys.prevHit = 0 => nwsys.nextHit # MaxTimestep

\* The block is called again in time for the end of every frame and of every
\* wait: no message is forgotten.
WirelessWakesUp ==
  HasRun /\ ~MustRun =>
    \A r \in Node :
      /\ \A k \in DOMAIN nwsys.inputQ[r] :
           nwsys.nextHit <= nwsys.prevHit + nwsys.inputQ[r][k].remaining \div Datarate
      /\ \A k \in DOMAIN nwsys.outputQ[r] : nwsys.nextHit <= nwsys.outputQ[r][k].waituntil
      /\ nwsys.preprocQ[r] # << >> => \A t \in NextLook(r) : nwsys.nextHit <= t

OnTheWay(S, m) ==
  \E i \in Node : \/ \E k \in DOMAIN S.preprocQ[i] : S.preprocQ[i][k].msg = m
                  \/ \E k \in DOMAIN S.inputQ[i] : S.inputQ[i][k].msg = m
HasArrived(S, m) ==
  \E r \in Node : \E k \in DOMAIN (S.outputQ[r] \o S.postprocQ[r]) :
                    (S.outputQ[r] \o S.postprocQ[r])[k].msg = m

\* "There are only Retry limit number of retransmissions before the sender gives
\* up on the message", and no fewer: it gives up a message that has been sent
\* so often or, in 802.15.4, has found the medium busy too often.  A broadcast
\* is sent once.
GivesUp(m) ==
  \/ Receiver[m] = -1
  \/ nwsys.tries[m] = RetryLimit + 1
  \/ /\ nwsys.type = "802.15.4"
     /\ \E i \in Node : LET q == nwsys.preprocQ[i]
                        IN  q # << >> /\ q[1].msg = m /\ q[1].nbrOfBackoffs = MaxCSMABackoffs
RetriesAreCounted ==
  [][\A m \in Message :
       /\ nwsys'.tries[m] <= IF Receiver[m] = -1 THEN 1 ELSE RetryLimit + 1
       /\ (~nwsys.discards /\ OnTheWay(nwsys, m) /\ ~OnTheWay(nwsys', m) /\ ~HasArrived(nwsys', m))
            => GivesUp(m)]_vars

\* The messages of every link, in the order in which they will come
Transit == [l \in Node \X Node |->
              From(l[1], nwsys.outputQ[l[2]]) \o From(l[1], nwsys.inputQ[l[2]])
              \o To(l[2], nwsys.preprocQ[l[1]])]
Arrived == [l \in Node \X Node |-> From(l[1], nwsys.postprocQ[l[2]])]

Links == INSTANCE TTLinks WITH
  LinkNode <- Node, LinkMessage <- Message, LinkSender <- Sender,
  LinkReceivers <- [m \in Message |-> Receivers(m)], transit <- Transit, arrived <- Arrived,
  lossy <- TRUE

\* Retries neither duplicate nor reorder what a node sends to another; a message
\* that is given up is missing.
WirelessLinksSpec == Links!LinksSpec
=============================================================================
