-------------------------- MODULE TTNetwork_proofs --------------------------
(***************************************************************************)
(* Theorems about the wired network block: its types, what is on the       *)
(* medium, that it is called again in time for everything that it has to   *)
(* do, the memory of its switch, and that it is a FIFO link between any    *)
(* two nodes, for every protocol, schedule and set of messages.            *)
(***************************************************************************)
EXTENDS TTNetwork, TTProtocols_proofs

-----------------------------------------------------------------------------
(***************************************************************************)
(* What holds of the network when the block is called and between the      *)
(* parts of a run.                                                         *)
(***************************************************************************)
OneMedium == {"CSMACD", "CSMAAMP", "RR", "NCM", "TDMA"}
NoneStatic(S) == \A i \in Node : S.statpreprocQ[i] = << >> /\ S.statinputQ[i] = << >>

\* The frames that are sent have been counted down up to the time last.
Sound(S, last) ==
  /\ Net(S) /\ Outputs(S)
  /\ S.type = "FLEXRAY" => Flex(S, last) /\ S.miniSlotCount < Len(DynSchedule)
  /\ S.type # "FLEXRAY" => Lines(S) /\ NoneStatic(S) /\ S.miniSlotCount = -1
  /\ S.type \in OneMedium => OneSends(S)
  /\ S.type = "CSMACD" => Apart(S)
  /\ S.type = "TDMA" => Slots(S)
  /\ S.type \notin {"TDMA", "FLEXRAY"} => S.slotcount = -1
  /\ S.type # "SFDSE" => \A r \in Node : S.swstate[r] = 0

LEMMA SoundFacts ==
  ASSUME NEW S, NEW last, Sound(S, last)
  PROVE  /\ Net(S) /\ IsNet(S) /\ Queues(S) /\ Scalars(S) /\ Outputs(S)
         /\ S.time \in Nat /\ S.nextHit \in Nat /\ S.prevHit \in Nat /\ S.type \in Kinds
  BY NetFacts DEF Sound

\* A line gets longer.
LEMMA BusyLonger ==
  ASSUME NEW A, NEW q, NEW p, NEW r \in Seq(Whole(A)), A \subseteq NWmsg, Busy(A, q), p = q \o r
  PROVE  Head(p) = Head(q)
<1>1. q \in Seq(A) /\ q # << >> /\ r \in Seq(A)
  BY LineFacts, SeqMonotonic, MsgFacts DEF Busy, Whole
<1>2. Len(q) \in Nat \ {0} /\ Head(q) = q[1]
  BY <1>1, HeadAndTail
<1>3. p \in Seq(A) /\ p[1] = q[1] /\ p # << >>
  BY <1>1, <1>2, ConcatProperties
<1>4. Head(p) = p[1]
  BY <1>3, HeadAndTail
<1> QED BY <1>2, <1>3, <1>4

\* What the two queues of a node may become when messages are moved
Grows(A, q, p) == \E r \in Seq(Whole(A)) : p = q \o r

LEMMA GrowsFacts ==
  ASSUME NEW A, A \subseteq NWmsg, NEW q, NEW p, Grows(A, q, p)
  PROVE  /\ Idle(A, q) => Idle(A, p)
         /\ Busy(A, q) => Busy(A, p) /\ Head(p) = Head(q)
<1>1. PICK r \in Seq(Whole(A)) : p = q \o r
  BY DEF Grows
<1>2. Idle(A, q) => Idle(A, p)
  BY <1>1, LineMore
<1>3. Busy(A, q) => Busy(A, p)
  BY <1>1, LineMore
<1>4. Busy(A, q) => Head(p) = Head(q)
  BY <1>1, BusyLonger
<1> QED BY <1>2, <1>3, <1>4

\* Preprocess scans queues of frames of A.
MayScan(S, hit, A, p, q, p2, q2) ==
  Frames(A) /\ p \in Seq(A) /\ q \in Seq(A) /\ Scanned(S, hit, p, q, p2, q2)

LEMMA ScanGrows ==
  ASSUME NEW S, NEW hit, NEW A, NEW p, NEW q, NEW p2, NEW q2, MayScan(S, hit, A, p, q, p2, q2)
  PROVE  p2 \in Seq(A) /\ q2 \in Seq(A) /\ Grows(A, q, q2)
<1>3. A \subseteq NWmsg /\ Frames(A) /\ p \in Seq(A) /\ q \in Seq(A) /\ Scanned(S, hit, p, q, p2, q2)
  BY DEF MayScan, Frames
<1>1. CASE p2 = p /\ q2 = q
  <2>1. << >> \in Seq(Whole(A)) /\ q2 = q \o << >>
    BY <1>1, <1>3, ConcatEmptySeq
  <2> QED BY <1>1, <1>3, <2>1 DEF Grows
<1>2. CASE \E k \in 1 .. Len(p) :
             p2 = RemoveAt(p, k) /\ q2 = q \o <<[p[k] EXCEPT !.remaining = Frame(p[k].msg)]>>
  <2>1. PICK k \in 1 .. Len(p) :
          p2 = RemoveAt(p, k) /\ q2 = q \o <<[p[k] EXCEPT !.remaining = Frame(p[k].msg)]>>
    BY <1>2
  <2> DEFINE x == [p[k] EXCEPT !.remaining = Frame(p[k].msg)]
  <2>2. p[k] \in A /\ p[k] \in NWmsg
    BY <1>3
  <2>3. Frame(p[k].msg) \in Int
    BY <2>2, MsgFacts, FrameFacts
  <2>8. ASSUME NEW y \in A, NEW n \in Int, n = Frame(y.msg)
        PROVE  [y EXCEPT !.remaining = n] \in Whole(A) /\ [y EXCEPT !.remaining = n] \in A
    <3>1. y \in NWmsg /\ [y EXCEPT !.remaining = n] \in A
      BY <1>3 DEF Frames
    <3> QED BY <2>8, <3>1, MsgExcept, Zenon DEF Whole
  <2>4. x \in Whole(A) /\ x \in A
    BY <2>2, <2>3, <2>8
  <2>5. p2 \in Seq(A)
    BY <1>3, <2>1, RemoveAtFacts
  <2> HIDE DEF x
  <2>6. <<x>> \in Seq(Whole(A)) /\ <<x>> \in Seq(A) /\ Len(<<x>>) = 1
    BY <2>4
  <2>7. q2 = q \o <<x>>
    BY <2>1 DEF x
  <2>9. q2 \in Seq(A)
    BY <1>3, <2>6, <2>7, ConcatProperties
  <2> QED BY <2>5, <2>6, <2>7, <2>9 DEF Grows
<1> QED BY <1>1, <1>2, <1>3 DEF Scanned

LEMMA PreprocessGrows ==
  ASSUME NEW S, Net(S), NEW s, s = Preprocess(S)
  PROVE  /\ Net(s) /\ Same(S, s, {"preprocQ", "inputQ", "statpreprocQ", "statinputQ", "nextHit"})
         /\ s.nextHit <= S.nextHit
         /\ \A i \in Node : /\ Grows(MsgFrom(i), S.inputQ[i], s.inputQ[i])
                            /\ Grows(MsgFrom(i), S.statinputQ[i], s.statinputQ[i])
                            /\ Scanned(S, s.nextHit, S.preprocQ[i], S.inputQ[i], s.preprocQ[i], s.inputQ[i])
                            /\ Scanned(S, s.nextHit, S.statpreprocQ[i], S.statinputQ[i],
                                       s.statpreprocQ[i], s.statinputQ[i])
<1>1. IsNet(S) /\ Queues(S) /\ Scalars(S) /\ S.time \in Nat /\ S.nextHit \in Nat
  BY NetFacts
<1>2. /\ Same(S, s, {"preprocQ", "inputQ", "statpreprocQ", "statinputQ", "nextHit"})
      /\ s.nextHit \in Nat /\ s.nextHit <= S.nextHit
      /\ s.preprocQ = [i \in Node |-> s.preprocQ[i]] /\ s.inputQ = [i \in Node |-> s.inputQ[i]]
      /\ s.statpreprocQ = [i \in Node |-> s.statpreprocQ[i]]
      /\ s.statinputQ = [i \in Node |-> s.statinputQ[i]]
      /\ \A i \in Node :
           /\ Scanned(S, s.nextHit, S.preprocQ[i], S.inputQ[i], s.preprocQ[i], s.inputQ[i])
           /\ Scanned(S, s.nextHit, S.statpreprocQ[i], S.statinputQ[i],
                      s.statpreprocQ[i], s.statinputQ[i])
  BY <1>1, PreprocessFacts
<1>3. ASSUME NEW i \in Node
      PROVE  /\ s.preprocQ[i] \in Seq(MsgFrom(i)) /\ s.inputQ[i] \in Seq(MsgFrom(i))
             /\ s.statpreprocQ[i] \in Seq(MsgFrom(i)) /\ s.statinputQ[i] \in Seq(MsgFrom(i))
             /\ Grows(MsgFrom(i), S.inputQ[i], s.inputQ[i])
             /\ Grows(MsgFrom(i), S.statinputQ[i], s.statinputQ[i])
  <2> DEFINE A == MsgFrom(i)
             h == s.nextHit
  <2>1. A \subseteq NWmsg /\ Frames(A)
    BY MsgFacts, FramesFacts
  <2>2. /\ S.preprocQ[i] \in Seq(A) /\ S.inputQ[i] \in Seq(A)
        /\ S.statpreprocQ[i] \in Seq(A) /\ S.statinputQ[i] \in Seq(A)
    BY <1>1 DEF Queues
  <2>3. /\ Scanned(S, h, S.preprocQ[i], S.inputQ[i], s.preprocQ[i], s.inputQ[i])
        /\ Scanned(S, h, S.statpreprocQ[i], S.statinputQ[i], s.statpreprocQ[i], s.statinputQ[i])
    BY <1>2
  <2> HIDE DEF A, h
  <2>4. /\ MayScan(S, h, A, S.preprocQ[i], S.inputQ[i], s.preprocQ[i], s.inputQ[i])
        /\ MayScan(S, h, A, S.statpreprocQ[i], S.statinputQ[i], s.statpreprocQ[i], s.statinputQ[i])
    BY <2>1, <2>2, <2>3 DEF MayScan
  <2>5. /\ s.preprocQ[i] \in Seq(A) /\ s.inputQ[i] \in Seq(A)
        /\ Grows(A, S.inputQ[i], s.inputQ[i])
    BY <2>4, ScanGrows
  <2>6. /\ s.statpreprocQ[i] \in Seq(A) /\ s.statinputQ[i] \in Seq(A)
        /\ Grows(A, S.statinputQ[i], s.statinputQ[i])
    BY <2>4, ScanGrows
  <2> QED BY <2>5, <2>6 DEF A
<1>4. Queues(s)
  <2>1. s.outputQ = S.outputQ /\ s.switchQ = S.switchQ /\ s.postprocQ = S.postprocQ
    BY <1>2 DEF Same, Fields
  <2>2. \A i \in Node : /\ s.preprocQ[i] \in Seq(NWmsg) /\ s.inputQ[i] \in Seq(NWmsg)
                        /\ s.statpreprocQ[i] \in Seq(NWmsg) /\ s.statinputQ[i] \in Seq(NWmsg)
    <3>1. \A i \in Node : MsgFrom(i) \subseteq NWmsg
      BY MsgFacts
    <3> QED BY <1>3, <3>1, SeqMonotonic
  <2>3. /\ s.preprocQ \in [Node -> Seq(NWmsg)] /\ s.inputQ \in [Node -> Seq(NWmsg)]
        /\ s.statpreprocQ \in [Node -> Seq(NWmsg)] /\ s.statinputQ \in [Node -> Seq(NWmsg)]
    <3>1. /\ s.preprocQ = [i \in Node |-> s.preprocQ[i]] /\ s.inputQ = [i \in Node |-> s.inputQ[i]]
          /\ s.statpreprocQ = [i \in Node |-> s.statpreprocQ[i]]
          /\ s.statinputQ = [i \in Node |-> s.statinputQ[i]]
      BY <1>2
    <3> QED BY <2>2, <3>1
  <2>4. \A i \in Node : /\ s.preprocQ[i] \in Seq(MsgFrom(i)) /\ s.inputQ[i] \in Seq(MsgFrom(i))
                        /\ s.statpreprocQ[i] \in Seq(MsgFrom(i)) /\ s.statinputQ[i] \in Seq(MsgFrom(i))
    BY <1>3
  <2> QED BY <1>1, <2>1, <2>3, <2>4 DEF Queues
<1>5. Scalars(s)
  <2> DEFINE G == {"preprocQ", "inputQ", "statpreprocQ", "statinputQ", "nextHit"}
  <2>1. NewScalars(s, G) /\ Same(S, s, G)
    BY <1>2 DEF NewScalars
  <2> HIDE DEF G
  <2> QED BY <1>1, <2>1, ScalarsAgain
<1>6. Net(s)
  BY <1>2, <1>4, <1>5 DEF Net, Same
<1>7. \A i \in Node : /\ Grows(MsgFrom(i), S.inputQ[i], s.inputQ[i])
                      /\ Grows(MsgFrom(i), S.statinputQ[i], s.statinputQ[i])
  BY <1>3
<1>8. \A i \in Node : /\ Scanned(S, s.nextHit, S.preprocQ[i], S.inputQ[i], s.preprocQ[i], s.inputQ[i])
                      /\ Scanned(S, s.nextHit, S.statpreprocQ[i], S.statinputQ[i],
                                 s.statpreprocQ[i], s.statinputQ[i])
  BY <1>2
<1> QED BY <1>2, <1>6, <1>7, <1>8

LEMMA PreprocessSound ==
  ASSUME NEW S, NEW last, Sound(S, last), NEW s, s = Preprocess(S)
  PROVE  Sound(s, last)
<1>1. Net(S) /\ Outputs(S)
  BY DEF Sound
<1>2. /\ Net(s) /\ Same(S, s, {"preprocQ", "inputQ", "statpreprocQ", "statinputQ", "nextHit"})
      /\ \A i \in Node : /\ Grows(MsgFrom(i), S.inputQ[i], s.inputQ[i])
                         /\ Grows(MsgFrom(i), S.statinputQ[i], s.statinputQ[i])
                         /\ Scanned(S, s.nextHit, S.statpreprocQ[i], S.statinputQ[i],
                                    s.statpreprocQ[i], s.statinputQ[i])
  BY <1>1, PreprocessGrows
<1>3. /\ s.type = S.type /\ s.schedule = S.schedule /\ s.state = S.state /\ s.swstate = S.swstate
      /\ s.sending = S.sending /\ s.switchQ = S.switchQ /\ s.slotcount = S.slotcount
      /\ s.currslottime = S.currslottime /\ s.miniSlotCount = S.miniSlotCount
  BY <1>2 DEF Same, Fields
<1>4. ASSUME NEW i \in Node
      PROVE  /\ Idle(MsgFrom(i), S.inputQ[i]) => Idle(MsgFrom(i), s.inputQ[i])
             /\ Busy(MsgFrom(i), S.inputQ[i]) => Busy(MsgFrom(i), s.inputQ[i])
             /\ Idle(MsgFrom(i), S.statinputQ[i]) => Idle(MsgFrom(i), s.statinputQ[i])
             /\ Busy(MsgFrom(i), S.statinputQ[i])
                  => Busy(MsgFrom(i), s.statinputQ[i]) /\ Head(s.statinputQ[i]) = Head(S.statinputQ[i])
  <2>1. /\ Grows(MsgFrom(i), S.inputQ[i], s.inputQ[i])
        /\ Grows(MsgFrom(i), S.statinputQ[i], s.statinputQ[i])
    BY <1>2
  <2>2. MsgFrom(i) \subseteq NWmsg
    BY MsgFacts
  <2> DEFINE A == MsgFrom(i)
  <2>3. A \subseteq NWmsg /\ Grows(A, S.inputQ[i], s.inputQ[i]) /\ Grows(A, S.statinputQ[i], s.statinputQ[i])
    BY <2>1, <2>2
  <2> HIDE DEF A
  <2>4. /\ Idle(A, S.inputQ[i]) => Idle(A, s.inputQ[i])
        /\ Busy(A, S.inputQ[i]) => Busy(A, s.inputQ[i])
    BY <2>3, GrowsFacts
  <2>5. /\ Idle(A, S.statinputQ[i]) => Idle(A, s.statinputQ[i])
        /\ Busy(A, S.statinputQ[i]) => Busy(A, s.statinputQ[i]) /\ Head(s.statinputQ[i]) = Head(S.statinputQ[i])
    BY <2>3, GrowsFacts
  <2> QED BY <2>4, <2>5 DEF A
<1>5. Outputs(s)
  BY <1>1, <1>3 DEF Outputs, Output
<1>6. ASSUME S.type # "FLEXRAY" PROVE Lines(s) /\ NoneStatic(s) /\ s.miniSlotCount = -1
  <2>1. Lines(S) /\ NoneStatic(S) /\ S.miniSlotCount = -1
    BY <1>6 DEF Sound
  <2>2. Lines(s)
    BY <1>3, <1>4, <2>1 DEF Lines, Line, Sends
  <2>3. NoneStatic(s)
    <3> SUFFICES ASSUME NEW i \in Node PROVE s.statpreprocQ[i] = << >> /\ s.statinputQ[i] = << >>
      BY DEF NoneStatic
    <3>1. S.statpreprocQ[i] = << >> /\ S.statinputQ[i] = << >>
      BY <2>1 DEF NoneStatic
    <3>2. Scanned(S, s.nextHit, << >>, << >>, s.statpreprocQ[i], s.statinputQ[i])
      BY <1>2, <3>1
    <3> QED BY <3>2 DEF Scanned
  <2> QED BY <1>3, <2>1, <2>2, <2>3
<1>7. ASSUME S.type = "FLEXRAY" PROVE Flex(s, last) /\ s.miniSlotCount < Len(DynSchedule)
  <2>1. Flex(S, last) /\ S.miniSlotCount < Len(DynSchedule)
    BY <1>7 DEF Sound
  <2>2. OneSends(S) /\ FlexLines(S) /\ Segments(S, last)
    BY <2>1 DEF Flex
  <2>3. OneSends(s)
    BY <1>3, <2>2 DEF OneSends
  <2>4. FlexLines(s)
    BY <1>3, <1>4, <2>2 DEF FlexLines, InStatic
  <2>5. Segments(s, last)
    <3>1. ASSUME S.sending # -1, InStatic(S) PROVE InSlotTime(s, last)
      <4>1. S.sending \in Node
        BY <1>1, <3>1, NetFacts
      <4>2. Head(s.statinputQ[S.sending]) = Head(S.statinputQ[S.sending])
        BY <1>4, <2>2, <3>1, <4>1 DEF FlexLines
      <4>3. InSlotTime(S, last)
        BY <2>2, <3>1 DEF Segments
      <4> QED BY <1>3, <4>2, <4>3 DEF InSlotTime, SlotEnd, Owner
    <3> QED BY <1>3, <2>2, <3>1 DEF Segments, InStatic, InDynamic
  <2> QED BY <1>2, <1>3, <1>7, <2>1, <2>3, <2>4, <2>5 DEF Flex
<1>8. s.type \in OneMedium => OneSends(s)
  BY <1>3 DEF Sound, OneSends
<1>9. s.type = "CSMACD" => Apart(s)
  BY <1>3 DEF Sound, Apart
<1>10. s.type = "TDMA" => Slots(s)
  BY <1>3 DEF Sound, Slots, Owner
<1>11. /\ s.type \notin {"TDMA", "FLEXRAY"} => s.slotcount = -1
       /\ s.type # "SFDSE" => \A r \in Node : s.swstate[r] = 0
  BY <1>3 DEF Sound
<1> QED BY <1>2, <1>3, <1>5, <1>6, <1>7, <1>8, <1>9, <1>10, <1>11 DEF Sound

-----------------------------------------------------------------------------
(***************************************************************************)
(* What a protocol leaves behind.                                          *)
(***************************************************************************)
\* Why node i may wait with a frame
Held(S, i) ==
  CASE S.type \in {"CSMACD", "CSMAAMP"} -> S.sending # -1
    [] S.type \in {"RR", "NCM", "FLEXRAY"} -> TRUE
    [] S.type = "TDMA" -> Owner(S) # i
    [] OTHER -> FALSE

\* The block is called again for everything that a protocol waits for.
OnTime(S) ==
  /\ S.type # "FLEXRAY" => Timely(S)
  /\ S.type = "FLEXRAY" => FlexDue(S)
  /\ SwitchTimely(S)
  /\ S.type = "CSMACD" => Waiting(S)
  /\ S.type \in {"RR", "NCM"} /\ S.sending = -1 => S.nextHit <= S.waituntil
  /\ S.type = "TDMA" => S.nextHit <= SlotEnd(S)
  /\ \A i \in Node : S.state[i] = 0 /\ S.inputQ[i] # << >> => Held(S, i)

\* The lines that nobody sends from lose no frame, the others one at most.
Left(S, s) ==
  IF S.type = "FLEXRAY" /\ InStatic(S)
  THEN LoseOne(NodesOf(S.state), S.statinputQ, s.statinputQ) /\ LoseOne({}, S.inputQ, s.inputQ)
  ELSE LoseOne(NodesOf(S.state), S.inputQ, s.inputQ) /\ LoseOne({}, S.statinputQ, s.statinputQ)

RunFields == {"inputQ", "statinputQ", "outputQ", "switchQ", "state", "swstate", "collisions", "until",
              "switchmem", "nodemem", "sending", "waituntil", "lasttime", "rrturn", "nextHit",
              "slotcount", "currslottime", "miniSlotCount", "msgMiniSlots", "idleUntil"}

Ran(S, s) ==
  Sound(s, s.time) /\ OnTime(s) /\ Left(S, s) /\ Same(S, s, RunFields) /\ s.nextHit <= S.nextHit

LEMMA CarriesLoses ==
  ASSUME NEW B, NEW t, NEW in, NEW in2, NEW out, NEW out2, Carries(B, t, in, in2, out, out2),
         in \in [Node -> Seq(NWmsg)], in2 \in [Node -> Seq(NWmsg)]
  PROVE  LoseOne(B, in, in2)
<1> SUFFICES ASSUME NEW i \in Node
             PROVE  Len(in2[i]) >= Len(in[i]) - (IF i \in B THEN 1 ELSE 0)
  BY DEF LoseOne
<1>1. PICK F \in SUBSET B : /\ \A j \in F : in[j] # << >> /\ Msgs(in2[j]) = Msgs(Tail(in[j]))
                            /\ \A j \in Node \ F : Msgs(in2[j]) = Msgs(in[j])
  BY DEF Carries
<1>2. in[i] \in Seq(NWmsg) /\ in2[i] \in Seq(NWmsg) /\ Len(in[i]) \in Nat
  OBVIOUS
<1>3. Len(Msgs(in[i])) = Len(in[i]) /\ Len(Msgs(in2[i])) = Len(in2[i])
  BY <1>2, MsgsFacts
<1>4. CASE i \in F
  <2>1. Tail(in[i]) \in Seq(NWmsg) /\ Len(Tail(in[i])) = Len(in[i]) - 1
    BY <1>1, <1>2, <1>4, HeadAndTail
  <2>2. Len(Msgs(Tail(in[i]))) = Len(in[i]) - 1
    BY <2>1, MsgsFacts
  <2>3. i \in B /\ Msgs(in2[i]) = Msgs(Tail(in[i]))
    BY <1>1, <1>4
  <2> QED BY <1>2, <1>3, <2>2, <2>3
<1>5. CASE i \notin F
  <2>1. Msgs(in2[i]) = Msgs(in[i])
    BY <1>1, <1>5
  <2> QED BY <1>2, <1>3, <2>1
<1> QED BY <1>4, <1>5

LEMMA LoseNone ==
  ASSUME NEW in, in \in [Node -> Seq(NWmsg)], NEW B
  PROVE  LoseOne(B, in, in)
<1>1. \A i \in Node : Len(in[i]) \in Nat
  OBVIOUS
<1> QED BY <1>1 DEF LoseOne

\* What the fields F of all protocols but switched Ethernet and FlexRay leave alone
LEMMA BusSound ==
  ASSUME NEW S, NEW last, Sound(S, last), S.type \notin {"FLEXRAY", "SFDSE"}, NEW s, NEW F, Same(S, s, F),
         F \cap {"type", "swstate", "switchQ", "statpreprocQ", "statinputQ", "miniSlotCount"} = {},
         S.type = "TDMA" \/ "slotcount" \notin F,
         Net(s), Lines(s), s.type \in OneMedium => OneSends(s), s.type = "CSMACD" => Apart(s),
         s.type = "TDMA" => Slots(s), NEW now
  PROVE  Sound(s, now) /\ SwitchTimely(s)
<1>1. /\ s.type = S.type /\ s.swstate = S.swstate /\ s.switchQ = S.switchQ
      /\ s.statpreprocQ = S.statpreprocQ /\ s.statinputQ = S.statinputQ
      /\ s.miniSlotCount = S.miniSlotCount
  BY DEF Same, Fields
<1>2. S.type # "TDMA" => s.slotcount = S.slotcount
  BY DEF Same, Fields
<1>3. Outputs(s)
  BY <1>1 DEF Sound, Outputs, Output
<1>4. NoneStatic(s) /\ s.miniSlotCount = -1
  BY <1>1 DEF Sound, NoneStatic
<1>5. s.type \notin {"TDMA", "FLEXRAY"} => s.slotcount = -1
  BY <1>1, <1>2 DEF Sound
<1>6. \A r \in Node : s.swstate[r] = 0
  BY <1>1 DEF Sound
<1>7. SwitchTimely(s)
  BY <1>6 DEF SwitchTimely
<1> QED BY <1>1, <1>3, <1>4, <1>5, <1>6, <1>7 DEF Sound

\* The protocols that carry frames from inputQ to outputQ
LEMMA BusLeaves ==
  ASSUME NEW S, Net(S), S.type # "FLEXRAY", NEW s, Net(s), s.statinputQ = S.statinputQ,
         NEW t, Carries(NodesOf(S.state), t, S.inputQ, s.inputQ, S.outputQ, s.outputQ)
  PROVE  Left(S, s)
<1>1. /\ S.inputQ \in [Node -> Seq(NWmsg)] /\ s.inputQ \in [Node -> Seq(NWmsg)]
      /\ S.statinputQ \in [Node -> Seq(NWmsg)]
  BY NetFacts
<1>2. LoseOne(NodesOf(S.state), S.inputQ, s.inputQ)
  BY <1>1, CarriesLoses
<1>3. LoseOne({}, S.statinputQ, s.statinputQ)
  BY <1>1, LoseNone
<1> QED BY <1>2, <1>3 DEF Left

LEMMA CSMACDRuns ==
  ASSUME NEW S, NEW e \in Nat, Sound(S, S.time - e), S.type = "CSMACD",
         NEW p, p = CSMACD(S, e), NEW draw \in Draws(p), NEW s, s = Backoff(p, draw)
  PROVE  Ran(S, s)
<1> DEFINE F == {"inputQ", "outputQ", "state", "sending", "nextHit", "lasttime", "collisions", "until"}
<1>1. Net(S) /\ Lines(S) /\ OneSends(S) /\ Apart(S)
  BY DEF Sound, OneMedium
<1>2. /\ Net(s) /\ Lines(s) /\ Same(S, s, F) /\ s.nextHit <= S.nextHit
      /\ Carries(NodesOf(S.state), S.time, S.inputQ, s.inputQ, S.outputQ, s.outputQ)
      /\ OneSends(s)
      /\ Apart(s)
      /\ Waiting(s)
      /\ \A i \in Node : s.state[i] = 1 => s.nextHit <= Finish(s, i)
      /\ \A i \in Node : s.state[i] = 0 /\ s.inputQ[i] # << >> => s.sending # -1
  BY <1>1, CSMACDFacts
<1>3. s.type = S.type /\ s.statinputQ = S.statinputQ
  BY <1>2 DEF Same, Fields
<1>4. /\ S.type \notin {"FLEXRAY", "SFDSE"}
      /\ F \cap {"type", "swstate", "switchQ", "statpreprocQ", "statinputQ", "miniSlotCount"} = {}
      /\ S.type = "TDMA" \/ "slotcount" \notin F
  OBVIOUS
<1>5. Same(S, s, RunFields)
  BY <1>2 DEF Same, RunFields
<1> HIDE DEF F
<1>6. /\ s.type \in OneMedium => OneSends(s)
      /\ s.type = "CSMACD" => Apart(s)
      /\ s.type = "TDMA" => Slots(s)
  BY <1>2, <1>3 DEF OneMedium
<1>7. Sound(s, s.time) /\ SwitchTimely(s)
  BY <1>2, <1>4, <1>6, BusSound
<1>8. Left(S, s)
  BY <1>1, <1>2, <1>3, <1>4, BusLeaves
<1>9. OnTime(s)
  BY <1>2, <1>3, <1>7 DEF OnTime, Timely, Held
<1> QED BY <1>2, <1>5, <1>7, <1>8, <1>9 DEF Ran

LEMMA CSMAAMPRuns ==
  ASSUME NEW S, NEW e \in Nat, Sound(S, S.time - e), S.type = "CSMAAMP",
         NEW s, s = CSMAAMP(S, e)
  PROVE  Ran(S, s)
<1> DEFINE F == {"inputQ", "outputQ", "state", "sending", "nextHit", "lasttime"}
<1>1. Net(S) /\ Lines(S) /\ OneSends(S)
  BY DEF Sound, OneMedium
<1>2. /\ Net(s) /\ Lines(s) /\ Same(S, s, F) /\ s.nextHit <= S.nextHit
      /\ Carries(NodesOf(S.state), S.time, S.inputQ, s.inputQ, S.outputQ, s.outputQ)
      /\ OneSends(s)
      /\ \A i \in Node : s.state[i] = 1 => s.nextHit <= Finish(s, i)
      /\ \A i \in Node : s.state[i] = 0 /\ s.inputQ[i] # << >> => s.sending # -1
  BY <1>1, CSMAAMPFacts
<1>3. s.type = S.type /\ s.statinputQ = S.statinputQ
  BY <1>2 DEF Same, Fields
<1>4. /\ S.type \notin {"FLEXRAY", "SFDSE"}
      /\ F \cap {"type", "swstate", "switchQ", "statpreprocQ", "statinputQ", "miniSlotCount"} = {}
      /\ S.type = "TDMA" \/ "slotcount" \notin F
  OBVIOUS
<1>5. Same(S, s, RunFields)
  BY <1>2 DEF Same, RunFields
<1> HIDE DEF F
<1>6. /\ s.type \in OneMedium => OneSends(s)
      /\ s.type = "CSMACD" => Apart(s)
      /\ s.type = "TDMA" => Slots(s)
  BY <1>2, <1>3 DEF OneMedium
<1>7. Sound(s, s.time) /\ SwitchTimely(s)
  BY <1>2, <1>4, <1>6, BusSound
<1>8. Left(S, s)
  BY <1>1, <1>2, <1>3, <1>4, BusLeaves
<1>9. OnTime(s)
  BY <1>2, <1>3, <1>7 DEF OnTime, Timely, Held
<1> QED BY <1>2, <1>5, <1>7, <1>8, <1>9 DEF Ran

LEMMA TokenBusRuns ==
  ASSUME NEW S, NEW e \in Nat, Sound(S, S.time - e), S.type \in {"RR", "NCM"},
         NEW s, s = TokenBus(S, e)
  PROVE  Ran(S, s)
<1> DEFINE F == {"inputQ", "outputQ", "state", "sending", "nextHit", "rrturn", "waituntil"}
<1>1. Net(S) /\ Lines(S) /\ OneSends(S)
  BY DEF Sound, OneMedium
<1>2. /\ Net(s) /\ Lines(s) /\ Same(S, s, F) /\ s.nextHit <= S.nextHit
      /\ Carries(NodesOf(S.state), S.time, S.inputQ, s.inputQ, S.outputQ, s.outputQ)
      /\ OneSends(s)
      /\ \A i \in Node : s.state[i] = 1 => s.nextHit <= Finish(s, i)
      /\ s.sending = -1 => s.nextHit <= s.waituntil
  BY <1>1, TokenBusFacts
<1>3. s.type = S.type /\ s.statinputQ = S.statinputQ
  BY <1>2 DEF Same, Fields
<1>4. /\ S.type \notin {"FLEXRAY", "SFDSE"}
      /\ F \cap {"type", "swstate", "switchQ", "statpreprocQ", "statinputQ", "miniSlotCount"} = {}
      /\ S.type = "TDMA" \/ "slotcount" \notin F
  OBVIOUS
<1>5. Same(S, s, RunFields)
  BY <1>2 DEF Same, RunFields
<1> HIDE DEF F
<1>6. /\ s.type \in OneMedium => OneSends(s)
      /\ s.type = "CSMACD" => Apart(s)
      /\ s.type = "TDMA" => Slots(s)
  BY <1>2, <1>3 DEF OneMedium
<1>7. Sound(s, s.time) /\ SwitchTimely(s)
  BY <1>2, <1>4, <1>6, BusSound
<1>8. Left(S, s)
  BY <1>1, <1>2, <1>3, <1>4, BusLeaves
<1>9. OnTime(s)
  BY <1>2, <1>3, <1>7 DEF OnTime, Timely, Held
<1> QED BY <1>2, <1>5, <1>7, <1>8, <1>9 DEF Ran

LEMMA FDMARuns ==
  ASSUME NEW S, NEW e \in Nat, Sound(S, S.time - e), S.type = "FDMA",
         NEW s, s = FDMA(S, e)
  PROVE  Ran(S, s)
<1> DEFINE F == {"inputQ", "outputQ", "state", "nextHit"}
<1>1. Net(S) /\ Lines(S)
  BY DEF Sound, OneMedium
<1>2. /\ Net(s) /\ Lines(s) /\ Same(S, s, F) /\ s.nextHit <= S.nextHit
      /\ Carries(NodesOf(S.state), S.time, S.inputQ, s.inputQ, S.outputQ, s.outputQ)
      /\ Timely(s)
      /\ \A i \in Node : s.state[i] = 0 => s.inputQ[i] = << >>
  BY <1>1, FDMAFacts
<1>3. s.type = S.type /\ s.statinputQ = S.statinputQ
  BY <1>2 DEF Same, Fields
<1>4. /\ S.type \notin {"FLEXRAY", "SFDSE"}
      /\ F \cap {"type", "swstate", "switchQ", "statpreprocQ", "statinputQ", "miniSlotCount"} = {}
      /\ S.type = "TDMA" \/ "slotcount" \notin F
  OBVIOUS
<1>5. Same(S, s, RunFields)
  BY <1>2 DEF Same, RunFields
<1> HIDE DEF F
<1>6. /\ s.type \in OneMedium => OneSends(s)
      /\ s.type = "CSMACD" => Apart(s)
      /\ s.type = "TDMA" => Slots(s)
  BY <1>2, <1>3 DEF OneMedium
<1>7. Sound(s, s.time) /\ SwitchTimely(s)
  BY <1>2, <1>4, <1>6, BusSound
<1>8. Left(S, s)
  BY <1>1, <1>2, <1>3, <1>4, BusLeaves
<1>9. OnTime(s)
  BY <1>2, <1>3, <1>7 DEF OnTime, Timely, Held
<1> QED BY <1>2, <1>5, <1>7, <1>8, <1>9 DEF Ran

LEMMA TDMARuns ==
  ASSUME NEW S, NEW e \in Nat, Sound(S, S.time - e), S.type = "TDMA",
         NEW s, s = TDMA(S, e)
  PROVE  Ran(S, s)
<1> DEFINE F == {"inputQ", "outputQ", "state", "sending", "nextHit", "slotcount", "currslottime"}
<1>1. Net(S) /\ Lines(S) /\ OneSends(S) /\ Slots(S)
  BY DEF Sound, OneMedium
<1>2. /\ Net(s) /\ Lines(s) /\ Same(S, s, F) /\ s.nextHit <= S.nextHit
      /\ Carries(NodesOf(S.state), S.time, S.inputQ, s.inputQ, S.outputQ, s.outputQ)
      /\ OneSends(s)
      /\ Slots(s)
      /\ Timely(s)
      /\ s.nextHit <= SlotEnd(s)
      /\ \A i \in Node : s.state[i] = 0 /\ s.inputQ[i] # << >> => Owner(s) # i
  BY <1>1, TDMAFacts
<1>3. s.type = S.type /\ s.statinputQ = S.statinputQ
  BY <1>2 DEF Same, Fields
<1>4. /\ S.type \notin {"FLEXRAY", "SFDSE"}
      /\ F \cap {"type", "swstate", "switchQ", "statpreprocQ", "statinputQ", "miniSlotCount"} = {}
      /\ S.type = "TDMA" \/ "slotcount" \notin F
  OBVIOUS
<1>5. Same(S, s, RunFields)
  BY <1>2 DEF Same, RunFields
<1> HIDE DEF F
<1>6. /\ s.type \in OneMedium => OneSends(s)
      /\ s.type = "CSMACD" => Apart(s)
      /\ s.type = "TDMA" => Slots(s)
  BY <1>2, <1>3 DEF OneMedium
<1>7. Sound(s, s.time) /\ SwitchTimely(s)
  BY <1>2, <1>4, <1>6, BusSound
<1>8. Left(S, s)
  BY <1>1, <1>2, <1>3, <1>4, BusLeaves
<1>9. OnTime(s)
  BY <1>2, <1>3, <1>7 DEF OnTime, Timely, Held
<1> QED BY <1>2, <1>5, <1>7, <1>8, <1>9 DEF Ran

LEMMA SFDSERuns ==
  ASSUME NEW S, NEW e \in Nat, Sound(S, S.time - e), S.type = "SFDSE", NEW s, s = SFDSE(S, e)
  PROVE  Ran(S, s)
<1>1. Net(S) /\ Lines(S) /\ Outputs(S) /\ NoneStatic(S) /\ S.miniSlotCount = -1 /\ S.slotcount = -1
  BY DEF Sound
<1>2. /\ Net(s) /\ Lines(s) /\ Timely(s) /\ Outputs(s) /\ SwitchTimely(s)
      /\ Same(S, s, SFDSEFields) /\ s.nextHit <= S.nextHit
      /\ \A i \in Node : s.state[i] = 0 => s.inputQ[i] = << >>
      /\ LoseOne(NodesOf(S.state), S.inputQ, s.inputQ)
  BY <1>1, SFDSEFacts
<1>3. /\ s.type = "SFDSE" /\ s.statinputQ = S.statinputQ /\ s.statpreprocQ = S.statpreprocQ
      /\ s.miniSlotCount = S.miniSlotCount /\ s.slotcount = S.slotcount
  BY <1>2 DEF Same, Fields, SFDSEFields
<1>4. Same(S, s, RunFields)
  BY <1>2 DEF Same, RunFields, SFDSEFields
<1>5. NoneStatic(s)
  BY <1>1, <1>3 DEF NoneStatic
<1>6. Sound(s, s.time)
  BY <1>1, <1>2, <1>3, <1>5 DEF Sound, OneMedium
<1>7. LoseOne({}, S.statinputQ, s.statinputQ)
  <2>1. S.statinputQ \in [Node -> Seq(NWmsg)]
    BY <1>1, NetFacts
  <2> QED BY <1>3, <2>1, LoseNone
<1>8. Left(S, s)
  BY <1>2, <1>7 DEF Left
<1>9. OnTime(s)
  BY <1>2, <1>3 DEF OnTime
<1> QED BY <1>2, <1>4, <1>6, <1>8, <1>9 DEF Ran

LEMMA FlexRayRuns ==
  ASSUME NEW S, NEW e \in Nat, Sound(S, S.time - e), S.type = "FLEXRAY", NEW s, s = FlexRay(S, e)
  PROVE  Ran(S, s)
<1>1. /\ Net(S) /\ Flex(S, S.time - e) /\ S.miniSlotCount < Len(DynSchedule) /\ Outputs(S)
      /\ \A r \in Node : S.swstate[r] = 0
  BY DEF Sound
<1>2. /\ Flex(s, s.time) /\ FlexDue(s) /\ FlexCarries(S, s) /\ Same(S, s, FlexFields)
      /\ s.nextHit <= S.nextHit /\ s.miniSlotCount < Len(DynSchedule)
  BY <1>1, FlexRayFacts
<1>3. Net(s) /\ s.type = "FLEXRAY"
  BY <1>2 DEF Flex
<1>4. s.switchQ = S.switchQ /\ s.swstate = S.swstate
  BY <1>2 DEF Same, Fields, FlexFields
<1>5. Outputs(s)
  BY <1>1, <1>4 DEF Outputs, Output
<1>6. \A r \in Node : s.swstate[r] = 0
  BY <1>1, <1>4
<1>7. Sound(s, s.time)
  BY <1>2, <1>3, <1>5, <1>6 DEF Sound, OneMedium
<1>8. OnTime(s)
  BY <1>2, <1>3, <1>6 DEF OnTime, SwitchTimely, Held
<1>9. Same(S, s, RunFields)
  BY <1>2 DEF Same, RunFields, FlexFields
<1>10. Left(S, s)
  <2>1. /\ S.inputQ \in [Node -> Seq(NWmsg)] /\ s.inputQ \in [Node -> Seq(NWmsg)]
        /\ S.statinputQ \in [Node -> Seq(NWmsg)] /\ s.statinputQ \in [Node -> Seq(NWmsg)]
    BY <1>1, <1>3, NetFacts
  <2>2. CASE InStatic(S)
    <3>1. /\ Carries(NodesOf(S.state), S.time, S.statinputQ, s.statinputQ, S.outputQ, s.outputQ)
          /\ s.inputQ = S.inputQ
      BY <1>2, <2>2 DEF FlexCarries
    <3>2. LoseOne(NodesOf(S.state), S.statinputQ, s.statinputQ)
      BY <2>1, <3>1, CarriesLoses
    <3>3. LoseOne({}, S.inputQ, s.inputQ)
      BY <2>1, <3>1, LoseNone
    <3> QED BY <2>2, <3>2, <3>3 DEF Left
  <2>3. CASE ~ InStatic(S)
    <3>1. /\ Carries(NodesOf(S.state), S.time, S.inputQ, s.inputQ, S.outputQ, s.outputQ)
          /\ s.statinputQ = S.statinputQ
      BY <1>2, <2>3 DEF FlexCarries
    <3>2. LoseOne(NodesOf(S.state), S.inputQ, s.inputQ)
      BY <2>1, <3>1, CarriesLoses
    <3>3. LoseOne({}, S.statinputQ, s.statinputQ)
      BY <2>1, <3>1, LoseNone
    <3> QED BY <2>3, <3>2, <3>3 DEF Left
  <2> QED BY <2>2, <2>3
<1> QED BY <1>2, <1>7, <1>8, <1>9, <1>10 DEF Ran

\* Whatever the protocol
LEMMA ProtocolRuns ==
  ASSUME NEW S, NEW e \in Nat, Sound(S, S.time - e), NEW p, p = Protocol(S, e), NEW s \in Drawn(p)
  PROVE  Ran(S, s)
<1>1. Net(S) /\ S.type \in Kinds
  BY SoundFacts
<1>2. CASE S.type = "CSMACD"
  <2>1. p = CSMACD(S, e)
    BY <1>2 DEF Protocol
  <2>2. p.type = "CSMACD"
    <3>1. S.type = "CSMACD" /\ Lines(S) /\ OneSends(S) /\ Apart(S)
      BY <1>2 DEF Sound, OneMedium
    <3> QED BY <1>1, <2>1, <3>1, CSMACDCollides
  <2>3. PICK draw \in Draws(p) : s = Backoff(p, draw)
    BY <2>2 DEF Drawn
  <2> QED BY <1>2, <2>1, <2>3, CSMACDRuns
<1>3. CASE S.type = "CSMAAMP"
  <2>1. p = CSMAAMP(S, e)
    BY <1>3 DEF Protocol
  <2>2. s = p
    <3>1. Ran(S, p)
      BY <1>3, <2>1, CSMAAMPRuns
    <3>2. p.type = S.type
      BY <3>1 DEF Ran, Same, Fields, RunFields
    <3> QED BY <1>3, <3>2 DEF Drawn
  <2> QED BY <1>3, <2>1, <2>2, CSMAAMPRuns
<1>4. CASE S.type \in {"RR", "NCM"}
  <2>1. p = TokenBus(S, e)
    BY <1>4 DEF Protocol
  <2>2. s = p
    <3>1. Ran(S, p)
      BY <1>4, <2>1, TokenBusRuns
    <3>2. p.type = S.type
      BY <3>1 DEF Ran, Same, Fields, RunFields
    <3> QED BY <1>4, <3>2 DEF Drawn
  <2> QED BY <1>4, <2>1, <2>2, TokenBusRuns
<1>5. CASE S.type = "FDMA"
  <2>1. p = FDMA(S, e)
    BY <1>5 DEF Protocol
  <2>2. s = p
    <3>1. Ran(S, p)
      BY <1>5, <2>1, FDMARuns
    <3>2. p.type = S.type
      BY <3>1 DEF Ran, Same, Fields, RunFields
    <3> QED BY <1>5, <3>2 DEF Drawn
  <2> QED BY <1>5, <2>1, <2>2, FDMARuns
<1>6. CASE S.type = "TDMA"
  <2>1. p = TDMA(S, e)
    BY <1>6 DEF Protocol
  <2>2. s = p
    <3>1. Ran(S, p)
      BY <1>6, <2>1, TDMARuns
    <3>2. p.type = S.type
      BY <3>1 DEF Ran, Same, Fields, RunFields
    <3> QED BY <1>6, <3>2 DEF Drawn
  <2> QED BY <1>6, <2>1, <2>2, TDMARuns
<1>7. CASE S.type = "SFDSE"
  <2>1. p = SFDSE(S, e)
    BY <1>7 DEF Protocol
  <2>2. s = p
    <3>1. Ran(S, p)
      BY <1>7, <2>1, SFDSERuns
    <3>2. p.type = S.type
      BY <3>1 DEF Ran, Same, Fields, RunFields
    <3> QED BY <1>7, <3>2 DEF Drawn
  <2> QED BY <1>7, <2>1, <2>2, SFDSERuns
<1>8. CASE S.type = "FLEXRAY"
  <2>1. p = FlexRay(S, e)
    BY <1>8 DEF Protocol
  <2>2. s = p
    <3>1. Ran(S, p)
      BY <1>8, <2>1, FlexRayRuns
    <3>2. p.type = S.type
      BY <3>1 DEF Ran, Same, Fields, RunFields
    <3> QED BY <1>8, <3>2 DEF Drawn
  <2> QED BY <1>8, <2>1, <2>2, FlexRayRuns
<1> QED BY <1>1, <1>2, <1>3, <1>4, <1>5, <1>6, <1>7, <1>8 DEF Kinds

\* What waits in outputQ, and what of the rest is not lost
Later(S, r)      == Among(S.outputQ[r], {m \in ToSet(S.outputQ[r]) : m.waituntil > S.time})
Come(S, lost, r) == Among(OutputDue(S, r), {m \in ToSet(S.outputQ[r]) : <<r, m.msg>> \notin lost})

LEMMA LaterFacts ==
  ASSUME NEW S, Net(S), NEW lost, NEW r \in Node
  PROVE  /\ Later(S, r) \in Seq(MsgTo(r)) /\ Come(S, lost, r) \in Seq(MsgTo(r))
         /\ OutputDue(S, r) \in Seq(MsgTo(r))
         /\ Later(S, r) \in Seq(NWmsg) /\ Come(S, lost, r) \in Seq(NWmsg)
         /\ \A k \in 1 .. Len(Later(S, r)) : Later(S, r)[k].waituntil \in Nat
         /\ S.outputQ[r] = << >> => Later(S, r) = << >>
<1>1. S.outputQ[r] \in Seq(MsgTo(r)) /\ MsgTo(r) \subseteq NWmsg
  BY NetFacts, MsgFacts DEF Queues
<1> DEFINE q == S.outputQ[r]
           A == MsgTo(r)
           D == {m \in ToSet(S.outputQ[r]) : m.waituntil <= S.time}
           E == {m \in ToSet(S.outputQ[r]) : m.waituntil > S.time}
           K == {m \in ToSet(S.outputQ[r]) : <<r, m.msg>> \notin lost}
<1>2. /\ Later(S, r) = Among(q, E) /\ OutputDue(S, r) = Among(q, D) /\ Come(S, lost, r) = Among(Among(q, D), K)
      /\ q \in Seq(A) /\ A \subseteq NWmsg
  BY <1>1 DEF Later, OutputDue, Come
<1> HIDE DEF q, A, D, E, K
<1>3. Among(q, E) \in Seq(A) /\ Among(q, D) \in Seq(A)
  BY <1>2, AmongType
<1>4. Among(Among(q, D), K) \in Seq(A)
  BY <1>3, AmongType
<1>5. Among(q, E) \in Seq(NWmsg) /\ Among(Among(q, D), K) \in Seq(NWmsg)
  BY <1>2, <1>3, <1>4, SeqMonotonic
<1>6. \A k \in 1 .. Len(Among(q, E)) : Among(q, E)[k].waituntil \in Nat
  <2> TAKE k \in 1 .. Len(Among(q, E))
  <2>1. Among(q, E)[k] \in NWmsg
    BY <1>5
  <2> QED BY <2>1, MsgFacts
<1>7. S.outputQ[r] = << >> => Among(q, E) = << >>
  BY AmongEmpty DEF q
<1> QED BY <1>2, <1>3, <1>4, <1>5, <1>6, <1>7 DEF A

LEMMA PostprocessFacts ==
  ASSUME NEW S, Net(S), NEW lost, NEW s, s = Postprocess(S, lost)
  PROVE  /\ Net(s) /\ Same(S, s, {"outputQ", "postprocQ", "outputs", "nextHit"})
         /\ s.nextHit <= S.nextHit
         /\ \A r \in Node : s.outputQ[r] = Later(S, r) /\ s.postprocQ[r] = S.postprocQ[r] \o Come(S, lost, r)
         /\ \A r \in Node : \A k \in 1 .. Len(s.outputQ[r]) : s.nextHit <= s.outputQ[r][k].waituntil
<1> DEFINE m == [S EXCEPT !.outputQ = [r \in Node |-> Later(S, r)],
                          !.postprocQ = [r \in Node |-> @[r] \o Come(S, lost, r)],
                          !.outputs = [r \in Node |-> (@[r] + Len(Come(S, lost, r))) % 2]]
           times == UNION {{Later(S, r)[k].waituntil : k \in 1 .. Len(Later(S, r))} : r \in Node}
<1>1. s = Hit(m, times)
  BY DEF Postprocess, Later, Come
<1>2. IsNet(S) /\ Queues(S) /\ Scalars(S) /\ S.outputs \in [Node -> {0, 1}]
  BY NetFacts DEF Scalars
<1>3. /\ Same(S, m, {"outputQ", "postprocQ", "outputs"})
      /\ m.outputQ = [r \in Node |-> Later(S, r)]
      /\ m.postprocQ = [r \in Node |-> S.postprocQ[r] \o Come(S, lost, r)]
      /\ m.outputs = [r \in Node |-> (S.outputs[r] + Len(Come(S, lost, r))) % 2]
  BY <1>2 DEF Same, IsNet, Fields
<1>4. times \in SUBSET Nat
  <2> SUFFICES ASSUME NEW r \in Node, NEW k \in 1 .. Len(Later(S, r)) PROVE Later(S, r)[k].waituntil \in Nat
    OBVIOUS
  <2>1. \A j \in 1 .. Len(Later(S, r)) : Later(S, r)[j].waituntil \in Nat
    BY LaterFacts
  <2> QED BY <2>1
<1>5. \A r \in Node : \A k \in 1 .. Len(Later(S, r)) : Later(S, r)[k].waituntil \in times
  OBVIOUS
<1> HIDE DEF m, times
<1>6. Net(m)
  <2>1. \A r \in Node : Len(Come(S, lost, r)) \in Nat
    BY LaterFacts
  <2>2. \A r \in Node : S.outputs[r] \in Nat
    BY <1>2
  <2>3. m.outputs \in [Node -> {0, 1}]
    <3>1. \A r \in Node : (S.outputs[r] + Len(Come(S, lost, r))) % 2 \in {0, 1}
      BY <2>1, <2>2
    <3> QED BY <1>3, <3>1
  <2>4. Scalars(m)
    <3>1. NewScalars(m, {"outputQ", "postprocQ", "outputs"})
      BY <2>3 DEF NewScalars
    <3> QED BY <1>2, <1>3, <3>1, ScalarsAgain
  <2>5. \A r \in Node : S.postprocQ[r] \in Seq(MsgTo(r)) /\ S.postprocQ[r] \in Seq(NWmsg)
    BY <1>2 DEF Queues
  <2>6. \A r \in Node : m.outputQ[r] \in Seq(MsgTo(r)) /\ m.outputQ[r] \in Seq(NWmsg)
    BY <1>3, LaterFacts
  <2>7. ASSUME NEW r \in Node PROVE m.postprocQ[r] \in Seq(MsgTo(r)) /\ m.postprocQ[r] \in Seq(NWmsg)
    <3>1. Come(S, lost, r) \in Seq(MsgTo(r)) /\ Come(S, lost, r) \in Seq(NWmsg)
      BY LaterFacts
    <3>2. m.postprocQ[r] = S.postprocQ[r] \o Come(S, lost, r)
      BY <1>3
    <3> QED BY <2>5, <3>1, <3>2, ConcatProperties
  <2>8. m.outputQ \in [Node -> Seq(NWmsg)] /\ m.postprocQ \in [Node -> Seq(NWmsg)]
    BY <1>3, <2>6, <2>7
  <2>9. /\ m.preprocQ = S.preprocQ /\ m.inputQ = S.inputQ /\ m.statpreprocQ = S.statpreprocQ
        /\ m.statinputQ = S.statinputQ /\ m.switchQ = S.switchQ
    BY <1>3 DEF Same, Fields
  <2>10. Queues(m)
    BY <1>2, <2>6, <2>7, <2>8, <2>9 DEF Queues
  <2> QED BY <1>3, <2>4, <2>10 DEF Net, Same
<1>7. /\ Net(s) /\ Same(m, s, {"nextHit"}) /\ s.nextHit <= m.nextHit
      /\ \A t \in times : s.nextHit <= t
  BY <1>1, <1>4, <1>6, HitNet
<1>8. s.outputQ = m.outputQ /\ s.postprocQ = m.postprocQ /\ s.outputs = m.outputs
  BY <1>7 DEF Same, Fields
<1>9. Same(S, s, {"outputQ", "postprocQ", "outputs", "nextHit"})
  BY <1>3, <1>7 DEF Same
<1>10. m.nextHit = S.nextHit
  BY <1>3 DEF Same, Fields
<1>11. \A r \in Node : \A k \in 1 .. Len(s.outputQ[r]) : s.nextHit <= s.outputQ[r][k].waituntil
  BY <1>3, <1>5, <1>7, <1>8
<1> QED BY <1>3, <1>7, <1>8, <1>9, <1>10, <1>11

\* What a sound network keeps when other queues than those of its lines change.
LEMMA SoundReceivers ==
  ASSUME NEW S, NEW last, Sound(S, last), NEW s, Net(s), NEW F, Same(S, s, F),
         F \cap (Fields \ {"outputQ", "postprocQ", "outputs", "nextHit", "time", "prevHit", "nextNode",
                           "preprocQ", "statpreprocQ"}) = {},
         "statpreprocQ" \notin F \/ S.type = "FLEXRAY"
  PROVE  Sound(s, last)
<1>1. /\ s.type = S.type /\ s.schedule = S.schedule /\ s.inputQ = S.inputQ /\ s.statinputQ = S.statinputQ
      /\ s.state = S.state /\ s.swstate = S.swstate
      /\ s.switchQ = S.switchQ /\ s.sending = S.sending /\ s.slotcount = S.slotcount
      /\ s.currslottime = S.currslottime /\ s.miniSlotCount = S.miniSlotCount
  BY DEF Same, Fields
<1>2. Outputs(s)
  BY <1>1 DEF Sound, Outputs, Output
<1>3. S.type # "FLEXRAY" => Lines(s) /\ NoneStatic(s)
  <2>1. S.type # "FLEXRAY" => s.statpreprocQ = S.statpreprocQ
    BY DEF Same, Fields
  <2> QED BY <1>1, <2>1 DEF Sound, Lines, Line, Sends, NoneStatic
<1>4. S.type = "FLEXRAY" => Flex(s, last) /\ s.miniSlotCount < Len(DynSchedule)
  <2> SUFFICES ASSUME S.type = "FLEXRAY" PROVE Flex(s, last)
    BY <1>1 DEF Sound
  <2>1. Flex(S, last)
    BY DEF Sound
  <2>2. OneSends(s)
    BY <1>1, <2>1 DEF Flex, OneSends
  <2>3. FlexLines(s)
    BY <1>1, <2>1 DEF Flex, FlexLines, InStatic
  <2>4. Segments(s, last)
    BY <1>1, <2>1 DEF Flex, Segments, InStatic, InDynamic, InSlotTime, SlotEnd, Owner
  <2> QED BY <1>1, <2>2, <2>3, <2>4 DEF Flex
<1>5. /\ s.type \in OneMedium => OneSends(s)
      /\ s.type = "CSMACD" => Apart(s)
      /\ s.type = "TDMA" => Slots(s)
      /\ s.type \notin {"TDMA", "FLEXRAY"} => s.slotcount = -1
      /\ s.type # "SFDSE" => \A r \in Node : s.swstate[r] = 0
      /\ s.type # "FLEXRAY" => s.miniSlotCount = -1
  BY <1>1 DEF Sound, OneSends, Apart, Slots, Owner
<1> QED BY <1>1, <1>2, <1>3, <1>4, <1>5 DEF Sound

\* The new values of the queues F of s are of their types.
NewQueues(s, F) ==
  /\ F \cap {"outputQ", "switchQ", "statinputQ"} = {}
  /\ "preprocQ" \in F => /\ s.preprocQ \in [Node -> Seq(NWmsg)]
                         /\ \A i \in Node : s.preprocQ[i] \in Seq(MsgFrom(i))
  /\ "statpreprocQ" \in F => /\ s.statpreprocQ \in [Node -> Seq(NWmsg)]
                             /\ \A i \in Node : s.statpreprocQ[i] \in Seq(MsgFrom(i))
  /\ "inputQ" \in F => /\ s.inputQ \in [Node -> Seq(NWmsg)]
                       /\ \A i \in Node : s.inputQ[i] \in Seq(MsgFrom(i))
  /\ "postprocQ" \in F => /\ s.postprocQ \in [Node -> Seq(NWmsg)]
                          /\ \A i \in Node : s.postprocQ[i] \in Seq(MsgTo(i))

LEMMA NetQueues ==
  ASSUME NEW S, Net(S), NEW s, NEW F, Same(S, s, F), NewScalars(s, F), NewQueues(s, F)
  PROVE  Net(s)
<1>1. Queues(S) /\ Scalars(S)
  BY NetFacts
<1>2. Scalars(s)
  BY <1>1, ScalarsAgain
<1>3. /\ s.outputQ = S.outputQ /\ s.switchQ = S.switchQ /\ s.statinputQ = S.statinputQ
      /\ "preprocQ" \notin F => s.preprocQ = S.preprocQ
      /\ "statpreprocQ" \notin F => s.statpreprocQ = S.statpreprocQ
      /\ "inputQ" \notin F => s.inputQ = S.inputQ
      /\ "postprocQ" \notin F => s.postprocQ = S.postprocQ
  BY DEF Same, Fields, NewQueues
<1>4. /\ s.preprocQ \in [Node -> Seq(NWmsg)] /\ \A i \in Node : s.preprocQ[i] \in Seq(MsgFrom(i))
      /\ s.statpreprocQ \in [Node -> Seq(NWmsg)] /\ \A i \in Node : s.statpreprocQ[i] \in Seq(MsgFrom(i))
      /\ s.inputQ \in [Node -> Seq(NWmsg)] /\ \A i \in Node : s.inputQ[i] \in Seq(MsgFrom(i))
      /\ s.postprocQ \in [Node -> Seq(NWmsg)] /\ \A i \in Node : s.postprocQ[i] \in Seq(MsgTo(i))
  BY <1>1, <1>3 DEF NewQueues, Queues
<1>5. Queues(s)
  BY <1>1, <1>3, <1>4 DEF Queues
<1> QED BY <1>2, <1>5 DEF Net, Same

\* One queue has changed at node i.
LEMMA OneQueue ==
  ASSUME NEW f, f \in [Node -> Seq(NWmsg)], NEW i \in Node, NEW q, q \in Seq(NWmsg)
  PROVE  /\ [f EXCEPT ![i] = q] \in [Node -> Seq(NWmsg)]
         /\ [f EXCEPT ![i] = q][i] = q
         /\ \A j \in Node \ {i} : [f EXCEPT ![i] = q][j] = f[j]
  OBVIOUS

-----------------------------------------------------------------------------
\* The network is sound at every step.
NetInv ==
  /\ Sound(nwsys, nwsys.prevHit)
  /\ nwsys.prevHit <= nwsys.time
  /\ unsent \subseteq Message
  /\ discards => nwsys.type \notin {"FDMA", "TDMA", "SFDSE"}

\* A node that discards its messages throws away what it sends (see the README).
DiscardsElsewhere == \A b \in Scenario : b.discards => b.type \notin {"FDMA", "TDMA", "SFDSE"}

LEMMA InitSound ==
  ASSUME Init, DiscardsElsewhere
  PROVE  NetInv
<1>1. PICK b \in Scenario, hit \in {0, MaxTimestep} :
       /\ unsent = b.sends /\ discards = b.discards
       /\ nwsys = [type |-> b.type, buftype |-> b.buftype, overflow |-> b.overflow,
                lossprob |-> b.lossprob, schedule |-> b.schedule,
                time |-> 0, prevHit |-> 0, nextHit |-> hit,
                preprocQ  |-> [i \in Node |-> << >>], inputQ |-> [i \in Node |-> << >>],
                statpreprocQ |-> [i \in Node |-> << >>], statinputQ |-> [i \in Node |-> << >>],
                outputQ   |-> [i \in Node |-> << >>], switchQ |-> [i \in Node |-> << >>],
                postprocQ |-> [i \in Node |-> << >>], outputs |-> [i \in Node |-> 0],
                state |-> [i \in Node |-> 0], swstate |-> [i \in Node |-> 0],
                collisions |-> [i \in Node |-> 0], until |-> [i \in Node |-> 0],
                switchmem |-> SwitchMem, nodemem |-> [i \in Node |-> SwitchMem \div NbrOfNodes],
                sending |-> -1, waituntil |-> 0, lasttime |-> -1,
                rrturn |-> NbrOfNodes - 1, nextNode |-> 0,
                slotcount |-> -1, currslottime |-> -SlotTime,
                miniSlotCount |-> -1, msgMiniSlots |-> 0, idleUntil |-> MaxTimestep]
  BY DEF Init
<1>2. /\ b.type \in Kinds /\ b.schedule \in Seq(Node \cup {-1}) /\ b.schedule # << >>
      /\ b.discards => b.type \notin {"FDMA", "TDMA", "SFDSE"}
      /\ b.sends \subseteq Message
  BY ScenarioAssumption DEF Kinds, DiscardsElsewhere
<1>3. /\ hit \in Nat /\ MaxTimestep \in Nat /\ NbrOfNodes \in Nat \ {0} /\ 0 \in Node /\ NbrOfNodes - 1 \in Node
      /\ SwitchMem \in Int /\ SwitchMem \div NbrOfNodes \in Int /\ SlotTime \in Nat \ {0} /\ -1 \notin Node
      /\ Len(DynSchedule) \in Nat
  BY NodeFacts, SwitchMemAssumption, SlotFacts, FlexRayFactsOfConstants DEF Node
<1>4. /\ nwsys.type = b.type /\ nwsys.schedule = b.schedule
      /\ nwsys.time = 0 /\ nwsys.prevHit = 0 /\ nwsys.nextHit = hit
      /\ nwsys.preprocQ = [i \in Node |-> << >>] /\ nwsys.inputQ = [i \in Node |-> << >>]
      /\ nwsys.statpreprocQ = [i \in Node |-> << >>] /\ nwsys.statinputQ = [i \in Node |-> << >>]
      /\ nwsys.outputQ = [i \in Node |-> << >>] /\ nwsys.switchQ = [i \in Node |-> << >>]
      /\ nwsys.postprocQ = [i \in Node |-> << >>] /\ nwsys.outputs = [i \in Node |-> 0]
      /\ nwsys.state = [i \in Node |-> 0] /\ nwsys.swstate = [i \in Node |-> 0]
      /\ nwsys.collisions = [i \in Node |-> 0] /\ nwsys.until = [i \in Node |-> 0]
      /\ nwsys.switchmem = SwitchMem /\ nwsys.nodemem = [i \in Node |-> SwitchMem \div NbrOfNodes]
      /\ nwsys.sending = -1 /\ nwsys.waituntil = 0 /\ nwsys.lasttime = -1
      /\ nwsys.rrturn = NbrOfNodes - 1 /\ nwsys.nextNode = 0
      /\ nwsys.slotcount = -1 /\ nwsys.currslottime = -SlotTime
      /\ nwsys.miniSlotCount = -1 /\ nwsys.msgMiniSlots = 0 /\ nwsys.idleUntil = MaxTimestep
  BY <1>1
<1>5. IsNet(nwsys)
  BY <1>1 DEF IsNet, Fields
<1>6. Queues(nwsys)
  <2>1. \A A : << >> \in Seq(A)
    OBVIOUS
  <2> QED BY <1>4, <2>1 DEF Queues
<1>7. Scalars(nwsys)
  BY <1>2, <1>3, <1>4 DEF Scalars
<1>8. Net(nwsys)
  BY <1>5, <1>6, <1>7 DEF Net
<1>9. Outputs(nwsys)
  BY <1>4 DEF Outputs, Output, Idle
<1>10. \A i \in Node : Idle(MsgFrom(i), << >>)
  BY DEF Idle
<1>11. Lines(nwsys) /\ NoneStatic(nwsys)
  BY <1>4, <1>10 DEF Lines, Line, Sends, NoneStatic
<1>12. OneSends(nwsys) /\ Apart(nwsys)
  BY <1>3, <1>4 DEF OneSends, Apart
<1>13. Len(b.schedule) \in Nat \ {0}
  BY <1>2
<1>14. Slots(nwsys)
  BY <1>3, <1>4, <1>13 DEF Slots
<1>15. FlexLines(nwsys)
  BY <1>3, <1>4, <1>10 DEF FlexLines
<1>16. Segments(nwsys, 0)
  BY <1>3, <1>4, <1>13 DEF Segments
<1>17. nwsys.type = "FLEXRAY" => Flex(nwsys, 0)
  BY <1>8, <1>12, <1>15, <1>16 DEF Flex
<1>18. Sound(nwsys, 0)
  BY <1>3, <1>4, <1>8, <1>9, <1>11, <1>12, <1>14, <1>17 DEF Sound
<1> QED BY <1>1, <1>2, <1>4, <1>18 DEF NetInv

\* A line q that has lost one frame at most, and none unless it was busy
LEMMA StillThere ==
  ASSUME NEW A, A \subseteq NWmsg, NEW S, NEW hit, NEW p, NEW q, NEW p2, NEW q2, NEW q3,
         p \in Seq(A), q \in Seq(A), q2 \in Seq(A), q3 \in Seq(A), Scanned(S, hit, p, q, p2, q2),
         NEW n \in {0, 1}, n = 1 => q # << >>, Len(q3) >= Len(q2) - n,
         p2 # << >>, q3 = << >>
  PROVE  hit <= Head(p2).waituntil
<1>1. CASE p2 = p /\ \A k \in 1 .. Len(p) : hit <= p[k].waituntil
  <2>1. p # << >>
    BY <1>1
  <2>2. Head(p) = p[1] /\ Len(p) \in Nat \ {0}
    BY <2>1, HeadAndTail
  <2> QED BY <1>1, <2>2
<1>2. CASE \E k \in 1 .. Len(p) : q2 = q \o <<[p[k] EXCEPT !.remaining = Frame(p[k].msg)]>>
  <2>1. PICK k \in 1 .. Len(p) : q2 = q \o <<[p[k] EXCEPT !.remaining = Frame(p[k].msg)]>>
    BY <1>2
  <2> DEFINE x == [p[k] EXCEPT !.remaining = Frame(p[k].msg)]
  <2>2. q2 = q \o <<x>>
    BY <2>1
  <2> HIDE DEF x
  <2>3. q \in Seq(A \cup {x}) /\ <<x>> \in Seq(A \cup {x}) /\ Len(<<x>>) = 1
    BY SeqMonotonic
  <2>4. Len(q2) = Len(q) + 1 /\ Len(q) \in Nat
    BY <2>2, <2>3, ConcatProperties
  <2>5. n = 1 => Len(q) # 0
    OBVIOUS
  <2>6. Len(q3) >= 1
    BY <2>4, <2>5
  <2> QED BY <2>6
<1> QED BY <1>1, <1>2 DEF Scanned

LEMMA PreprocWaits ==
  ASSUME NEW S, NEW last, Sound(S, last), NEW p, p = Preprocess(S), NEW s, Ran(p, s), NEW i \in Node
  PROVE  /\ s.preprocQ[i] # << >> /\ s.inputQ[i] = << >> => s.nextHit <= Head(s.preprocQ[i]).waituntil
         /\ s.statpreprocQ[i] # << >> /\ s.statinputQ[i] = << >>
              => s.nextHit <= Head(s.statpreprocQ[i]).waituntil
<1>1. Net(S) /\ Queues(S)
  BY SoundFacts
<1>2. /\ Net(p) /\ Same(S, p, {"preprocQ", "inputQ", "statpreprocQ", "statinputQ", "nextHit"})
      /\ Scanned(S, p.nextHit, S.preprocQ[i], S.inputQ[i], p.preprocQ[i], p.inputQ[i])
      /\ Scanned(S, p.nextHit, S.statpreprocQ[i], S.statinputQ[i], p.statpreprocQ[i], p.statinputQ[i])
  BY <1>1, PreprocessGrows
<1>3. p.type = S.type /\ p.state = S.state /\ p.slotcount = S.slotcount /\ p.schedule = S.schedule
  BY <1>2 DEF Same, Fields
<1>4. /\ Net(s) /\ Same(p, s, RunFields) /\ s.nextHit <= p.nextHit /\ Left(p, s)
  BY SoundFacts DEF Ran
<1>5. s.preprocQ = p.preprocQ /\ s.statpreprocQ = p.statpreprocQ
  BY <1>4 DEF Same, Fields, RunFields
<1> DEFINE A == MsgFrom(i)
<1>6. /\ A \subseteq NWmsg
      /\ S.preprocQ[i] \in Seq(A) /\ S.inputQ[i] \in Seq(A)
      /\ S.statpreprocQ[i] \in Seq(A) /\ S.statinputQ[i] \in Seq(A)
      /\ p.preprocQ[i] \in Seq(A) /\ p.inputQ[i] \in Seq(A)
      /\ p.statpreprocQ[i] \in Seq(A) /\ p.statinputQ[i] \in Seq(A)
      /\ s.inputQ[i] \in Seq(A) /\ s.statinputQ[i] \in Seq(A)
  BY <1>1, <1>2, <1>4, MsgFacts, NetFacts DEF Queues
<1>7. s.nextHit \in Nat /\ p.nextHit \in Nat
  BY <1>2, <1>4, NetFacts
<1> DEFINE B == NodesOf(p.state)
           St == S.type = "FLEXRAY" /\ InStatic(S)
           n == IF i \in B /\ ~ St THEN 1 ELSE 0
           k == IF i \in B /\ St THEN 1 ELSE 0
<1>8. /\ St => LoseOne(B, p.statinputQ, s.statinputQ) /\ LoseOne({}, p.inputQ, s.inputQ)
      /\ ~ St => LoseOne(B, p.inputQ, s.inputQ) /\ LoseOne({}, p.statinputQ, s.statinputQ)
  BY <1>3, <1>4 DEF Left, InStatic
<1>9. i \in B => S.state[i] = 1
  BY <1>3 DEF NodesOf
<1>10. Len(s.inputQ[i]) >= Len(p.inputQ[i]) - n /\ Len(s.statinputQ[i]) >= Len(p.statinputQ[i]) - k
  BY <1>8 DEF LoseOne
<1>11. /\ i \in B /\ ~ St => S.inputQ[i] # << >>
       /\ i \in B /\ St => S.statinputQ[i] # << >>
  <2>1. CASE S.type # "FLEXRAY"
    <3>1. Lines(S)
      BY <2>1 DEF Sound
    <3> QED BY <1>9, <2>1, <3>1 DEF Lines, Line, Sends, Busy
  <2>2. CASE S.type = "FLEXRAY"
    <3>1. OneSends(S) /\ FlexLines(S)
      BY <2>2 DEF Sound, Flex
    <3> QED BY <1>9, <2>2, <3>1 DEF OneSends, FlexLines, Busy
  <2> QED BY <2>1, <2>2
<1>12. /\ n \in {0, 1} /\ (n = 1 => S.inputQ[i] # << >>)
       /\ k \in {0, 1} /\ (k = 1 => S.statinputQ[i] # << >>)
  BY <1>11
<1> HIDE DEF A, B, n, k, St
<1>13. ASSUME s.preprocQ[i] # << >>, s.inputQ[i] = << >> PROVE s.nextHit <= Head(s.preprocQ[i]).waituntil
  <2> DEFINE a == S.preprocQ[i]
             b == S.inputQ[i]
             a2 == p.preprocQ[i]
             b2 == p.inputQ[i]
             b3 == s.inputQ[i]
             h == p.nextHit
  <2>1. /\ A \subseteq NWmsg /\ a \in Seq(A) /\ b \in Seq(A) /\ b2 \in Seq(A) /\ b3 \in Seq(A)
        /\ Scanned(S, h, a, b, a2, b2) /\ n \in {0, 1} /\ (n = 1 => b # << >>)
        /\ Len(b3) >= Len(b2) - n /\ a2 # << >> /\ b3 = << >>
    BY <1>2, <1>5, <1>6, <1>10, <1>12, <1>13
  <2>2. a2 \in Seq(A)
    BY <1>6
  <2> HIDE DEF a, b, a2, b2, b3, h
  <2>3. h <= Head(a2).waituntil
    BY <2>1, StillThere
  <2>4. Head(a2) \in NWmsg
    BY <2>1, <2>2, HeadAndTail
  <2>5. Head(a2).waituntil \in Nat
    BY <2>4, MsgFacts
  <2> QED BY <1>4, <1>5, <1>7, <2>3, <2>5 DEF a2, h
<1>14. ASSUME s.statpreprocQ[i] # << >>, s.statinputQ[i] = << >>
       PROVE  s.nextHit <= Head(s.statpreprocQ[i]).waituntil
  <2> DEFINE a == S.statpreprocQ[i]
             b == S.statinputQ[i]
             a2 == p.statpreprocQ[i]
             b2 == p.statinputQ[i]
             b3 == s.statinputQ[i]
             h == p.nextHit
  <2>1. /\ A \subseteq NWmsg /\ a \in Seq(A) /\ b \in Seq(A) /\ b2 \in Seq(A) /\ b3 \in Seq(A)
        /\ Scanned(S, h, a, b, a2, b2) /\ k \in {0, 1} /\ (k = 1 => b # << >>)
        /\ Len(b3) >= Len(b2) - k /\ a2 # << >> /\ b3 = << >>
    BY <1>2, <1>5, <1>6, <1>10, <1>12, <1>14
  <2>2. a2 \in Seq(A)
    BY <1>6
  <2> HIDE DEF a, b, a2, b2, b3, h
  <2>3. h <= Head(a2).waituntil
    BY <2>1, StillThere
  <2>4. Head(a2) \in NWmsg
    BY <2>1, <2>2, HeadAndTail
  <2>5. Head(a2).waituntil \in Nat
    BY <2>4, MsgFacts
  <2> QED BY <1>4, <1>5, <1>7, <2>3, <2>5 DEF a2, h
<1> QED BY <1>13, <1>14

\* How long the first frame of node i still takes, as the last run has left it
NeedsTime(S, i) ==
  IF S.type # "FLEXRAY" THEN RemXTime(S, i)
  ELSE IF InStatic(S) THEN RemXTime(Swapped(S), i) ELSE Minislots(RemXTime(S, i))

\* The block will be called again for everything that it has to do.
Awake(S) ==
  /\ \A i \in Node : S.state[i] = 1 => S.nextHit <= S.prevHit + NeedsTime(S, i)
  /\ \A r \in Node : S.swstate[r] = 1 => S.nextHit <= S.prevHit + Head(S.switchQ[r]).remaining \div Datarate
  /\ S.type = "CSMACD" => Waiting(S)
  /\ \A r \in Node : \A k \in 1 .. Len(S.outputQ[r]) : S.nextHit <= S.outputQ[r][k].waituntil
  /\ \A i \in Node :
       /\ S.preprocQ[i] # << >> /\ S.inputQ[i] = << >> => S.nextHit <= Head(S.preprocQ[i]).waituntil
       /\ S.statpreprocQ[i] # << >> /\ S.statinputQ[i] = << >>
            => S.nextHit <= Head(S.statpreprocQ[i]).waituntil
  /\ S.type \in {"RR", "NCM"} /\ S.sending = -1 => S.nextHit <= S.waituntil
  /\ S.type = "TDMA" => S.nextHit <= SlotEnd(S)
  /\ \A i \in Node : S.state[i] = 0 /\ S.inputQ[i] # << >> => Held(S, i)

WakeInv == HasRun /\ ~ MustRun => Awake(nwsys)

\* What Postprocess leaves alone
LEMMA AwakeAfter ==
  ASSUME NEW S, Sound(S, S.time), OnTime(S), S.prevHit = S.time,
         \A i \in Node :
           /\ S.preprocQ[i] # << >> /\ S.inputQ[i] = << >> => S.nextHit <= Head(S.preprocQ[i]).waituntil
           /\ S.statpreprocQ[i] # << >> /\ S.statinputQ[i] = << >>
                => S.nextHit <= Head(S.statpreprocQ[i]).waituntil,
         NEW lost, NEW s, s = Postprocess(S, lost)
  PROVE  Sound(s, s.prevHit) /\ Awake(s) /\ s.time = S.time /\ s.prevHit = S.time /\ s.type = S.type
<1>1. Net(S) /\ S.nextHit \in Nat /\ S.time \in Nat /\ S.type \in Kinds /\ Queues(S) /\ S.until \in [Node -> Nat]
  BY SoundFacts DEF Scalars
<1>2. /\ Net(s) /\ Same(S, s, {"outputQ", "postprocQ", "outputs", "nextHit"})
      /\ s.nextHit <= S.nextHit
      /\ \A r \in Node : \A k \in 1 .. Len(s.outputQ[r]) : s.nextHit <= s.outputQ[r][k].waituntil
  BY <1>1, PostprocessFacts
<1>3. Sound(s, S.time)
  <2> DEFINE F == {"outputQ", "postprocQ", "outputs", "nextHit"}
  <2>1. /\ Same(S, s, F)
        /\ F \cap (Fields \ {"outputQ", "postprocQ", "outputs", "nextHit", "time", "prevHit", "nextNode",
                             "preprocQ", "statpreprocQ"}) = {}
        /\ "statpreprocQ" \notin F \/ S.type = "FLEXRAY"
    BY <1>2
  <2> HIDE DEF F
  <2>2. Sound(S, S.time) /\ Net(s)
    BY <1>2
  <2> QED BY <2>1, <2>2, SoundReceivers
<1>4. /\ s.type = S.type /\ s.schedule = S.schedule /\ s.time = S.time /\ s.prevHit = S.prevHit
      /\ s.preprocQ = S.preprocQ /\ s.inputQ = S.inputQ /\ s.statpreprocQ = S.statpreprocQ
      /\ s.statinputQ = S.statinputQ /\ s.switchQ = S.switchQ /\ s.state = S.state /\ s.swstate = S.swstate
      /\ s.until = S.until /\ s.sending = S.sending /\ s.waituntil = S.waituntil
      /\ s.slotcount = S.slotcount /\ s.currslottime = S.currslottime
  BY <1>2 DEF Same, Fields
<1>5. s.nextHit \in Nat
  BY <1>2, NetFacts
<1>6. \A t \in Int : S.nextHit <= t => s.nextHit <= t
  BY <1>1, <1>2, <1>5
<1>7. ASSUME NEW i \in Node, s.state[i] = 1 PROVE s.nextHit <= s.prevHit + NeedsTime(s, i)
  <2>1. CASE S.type # "FLEXRAY"
    <3>1. S.inputQ[i] # << >> /\ Lines(S)
      BY <1>4, <1>7, <2>1 DEF Sound, Lines, Line, Sends, Busy
    <3>2. Finish(S, i) \in Nat
      BY <1>1, <3>1, LineStarts
    <3>3. S.nextHit <= Finish(S, i)
      BY <1>4, <1>7, <2>1 DEF OnTime, Timely
    <3>4. Finish(S, i) = s.prevHit + NeedsTime(s, i)
      BY <1>4, <2>1 DEF Finish, NeedsTime, RemXTime, Rate
    <3> QED BY <1>6, <3>2, <3>3, <3>4
  <2>2. CASE S.type = "FLEXRAY"
    <3>1. OneSends(S) /\ FlexLines(S)
      BY <2>2 DEF Sound, Flex
    <3>2. S.sending = i /\ S.sending # -1
      BY <1>4, <1>7, <3>1, NodeFacts DEF OneSends
    <3>8. InStatic(s) <=> InStatic(S)
      BY <1>4 DEF InStatic
    <3>3. CASE InStatic(S)
      <4>1. Busy(MsgFrom(i), S.statinputQ[i])
        BY <3>1, <3>2, <3>3 DEF FlexLines
      <4>2. /\ Swapped(S).inputQ = S.statinputQ /\ Swapped(S).type = S.type /\ Swapped(S).time = S.time
        BY <1>1, SwappedFacts
      <4>3. Swapped(s).inputQ = s.statinputQ /\ Swapped(s).type = s.type
        BY <1>2, SwappedFacts
      <4>4. Finish(Swapped(S), i) \in Nat
        <5> DEFINE W == Swapped(S)
        <5>1. W.type \in Kinds /\ W.time \in Nat /\ Busy(MsgFrom(i), W.inputQ[i])
          BY <1>1, <4>1, <4>2
        <5>2. MsgFrom(i) \in SUBSET NWmsg
          BY MsgFacts
        <5> HIDE DEF W
        <5>3. Finish(W, i) \in Nat
          BY <5>1, <5>2, RemXTimeFacts
        <5> QED BY <5>3 DEF W
      <4>5. S.nextHit <= Finish(Swapped(S), i)
        BY <2>2, <3>2, <3>3 DEF OnTime, FlexDue
      <4>6. Finish(Swapped(S), i) = s.prevHit + NeedsTime(s, i)
        BY <1>4, <2>2, <3>3, <3>8, <4>2, <4>3 DEF Finish, NeedsTime, RemXTime, Rate
      <4> QED BY <1>6, <4>4, <4>5, <4>6
    <3>4. CASE ~ InStatic(S)
      <4>1. Busy(MsgFrom(i), S.inputQ[i])
        BY <3>1, <3>2, <3>4 DEF FlexLines
      <4>2. RemXTime(S, i) \in Nat
        <5>2. MsgFrom(i) \in SUBSET NWmsg
          BY MsgFacts
        <5> QED BY <1>1, <4>1, <5>2, RemXTimeFacts
      <4>3. Minislots(RemXTime(S, i)) \in Nat
        BY <4>2, MinislotsFacts
      <4>4. S.nextHit <= S.time + Minislots(RemXTime(S, i))
        BY <2>2, <3>2, <3>4 DEF OnTime, FlexDue
      <4>5. S.time + Minislots(RemXTime(S, i)) = s.prevHit + NeedsTime(s, i)
        BY <1>4, <2>2, <3>4, <3>8 DEF NeedsTime, RemXTime, Rate
      <4> QED BY <1>1, <1>6, <4>3, <4>4, <4>5
    <3> QED BY <3>3, <3>4
  <2> QED BY <2>1, <2>2
<1>8. ASSUME NEW r \in Node, s.swstate[r] = 1
      PROVE  s.nextHit <= s.prevHit + Head(s.switchQ[r]).remaining \div Datarate
  <2>1. Busy(MsgTo(r), S.switchQ[r])
    BY <1>4, <1>8 DEF Sound, Outputs, Output
  <2>2. SwitchFinish(S, r) \in Nat
    <3>1. MsgTo(r) \in SUBSET NWmsg
      BY MsgFacts
    <3> QED BY <1>1, <2>1, <3>1, SwitchFinishFacts
  <2>3. S.nextHit <= SwitchFinish(S, r)
    BY <1>4, <1>8 DEF OnTime, SwitchTimely
  <2>4. SwitchFinish(S, r) = s.prevHit + Head(s.switchQ[r]).remaining \div Datarate
    BY <1>4 DEF SwitchFinish
  <2> QED BY <1>6, <2>2, <2>3, <2>4
<1>9. s.type = "CSMACD" => Waiting(s)
  <2> SUFFICES ASSUME s.type = "CSMACD", NEW i \in Node, s.state[i] = 3 PROVE s.nextHit <= s.until[i]
    BY DEF Waiting
  <2>1. S.nextHit <= S.until[i] /\ S.until[i] \in Nat
    BY <1>1, <1>4 DEF OnTime, Waiting
  <2> QED BY <1>4, <1>6, <2>1
<1>10. ASSUME NEW i \in Node
       PROVE  /\ s.preprocQ[i] # << >> /\ s.inputQ[i] = << >> => s.nextHit <= Head(s.preprocQ[i]).waituntil
              /\ s.statpreprocQ[i] # << >> /\ s.statinputQ[i] = << >>
                   => s.nextHit <= Head(s.statpreprocQ[i]).waituntil
  <2>1. S.preprocQ[i] \in Seq(NWmsg) /\ S.statpreprocQ[i] \in Seq(NWmsg)
    BY <1>1 DEF Queues
  <2>2. S.preprocQ[i] # << >> => Head(S.preprocQ[i]).waituntil \in Nat
    <3>1. S.preprocQ[i] # << >> => Head(S.preprocQ[i]) \in NWmsg
      BY <2>1, HeadAndTail
    <3> QED BY <3>1, MsgFacts
  <2>3. S.statpreprocQ[i] # << >> => Head(S.statpreprocQ[i]).waituntil \in Nat
    <3>1. S.statpreprocQ[i] # << >> => Head(S.statpreprocQ[i]) \in NWmsg
      BY <2>1, HeadAndTail
    <3> QED BY <3>1, MsgFacts
  <2> QED BY <1>4, <1>6, <2>2, <2>3
<1>11. s.type \in {"RR", "NCM"} /\ s.sending = -1 => s.nextHit <= s.waituntil
  <2>1. S.waituntil \in Nat
    BY <1>1, NetFacts
  <2> QED BY <1>4, <1>6, <2>1 DEF OnTime
<1>12. s.type = "TDMA" => s.nextHit <= SlotEnd(s)
  <2>1. SlotEnd(S) \in Int /\ SlotEnd(s) = SlotEnd(S)
    BY <1>1, <1>4, NetFacts, SlotFacts DEF SlotEnd
  <2> QED BY <1>4, <1>6, <2>1 DEF OnTime
<1>13. \A i \in Node : s.state[i] = 0 /\ s.inputQ[i] # << >> => Held(s, i)
  BY <1>4 DEF OnTime, Held, Owner
<1>14. Awake(s)
  BY <1>2, <1>7, <1>8, <1>9, <1>10, <1>11, <1>12, <1>13 DEF Awake
<1> QED BY <1>3, <1>4, <1>14

Stamped(S, a, b) == [S EXCEPT !.prevHit = a, !.nextHit = b]
LEMMA StampedFacts ==
  ASSUME NEW S, IsNet(S), NEW a, NEW b, NEW s, s = Stamped(S, a, b)
  PROVE  Same(S, s, {"prevHit", "nextHit"}) /\ s.prevHit = a /\ s.nextHit = b
  BY DEF Same, IsNet, Fields, Stamped

\* A call of the block: S is the structure with the new prevHit, p after Preprocess
\* and s after the protocol.
RunSteps(S, p, e, s, lost) ==
  /\ Sound(S, nwsys.prevHit) /\ Same(nwsys, S, {"prevHit", "nextHit"}) /\ p = Preprocess(S)
  /\ Sound(p, p.time - e) /\ e \in Nat /\ nwsys.time = nwsys.prevHit + e
  /\ Same(S, p, {"preprocQ", "inputQ", "statpreprocQ", "statinputQ", "nextHit"})
  /\ s \in Drawn(Protocol(p, e)) /\ Ran(p, s)
  /\ s.time = nwsys.time /\ s.prevHit = nwsys.time /\ s.type = nwsys.type
  /\ Sound(s, s.time) /\ OnTime(s) /\ lost \in Losses(s) /\ nwsys' = Postprocess(s, lost)

LEMMA RunInSteps ==
  ASSUME NetInv, RunNetwork
  PROVE  \E S, p, e, s, lost : RunSteps(S, p, e, s, lost)
<1> DEFINE S == [nwsys EXCEPT !.prevHit = nwsys.time, !.nextHit = nwsys.time + MaxTimestep]
           e == nwsys.time - nwsys.prevHit
           p == Preprocess(S)
           P == Protocol(p, e)
<1>1. PICK s \in Drawn(P) : \E lost \in Losses(s) : nwsys' = Postprocess(s, lost)
  BY DEF RunNetwork
<1>2. PICK lost \in Losses(s) : nwsys' = Postprocess(s, lost)
  BY <1>1
<1>3. /\ Sound(nwsys, nwsys.prevHit) /\ nwsys.prevHit <= nwsys.time /\ Net(nwsys)
      /\ IsNet(nwsys) /\ nwsys.time \in Nat /\ nwsys.prevHit \in Nat /\ MaxTimestep \in Nat
  BY SoundFacts, NodeFacts DEF NetInv
<1>4. /\ Same(nwsys, S, {"prevHit", "nextHit"}) /\ S.prevHit = nwsys.time /\ S.nextHit \in Nat
      /\ S.time = nwsys.time /\ S.type = nwsys.type
  <2>1. nwsys.time + MaxTimestep \in Nat
    BY <1>3
  <2>4. S = Stamped(nwsys, nwsys.time, nwsys.time + MaxTimestep) /\ IsNet(nwsys)
    BY <1>3 DEF Stamped
  <2> HIDE DEF S
  <2>2. /\ Same(nwsys, S, {"prevHit", "nextHit"}) /\ S.prevHit = nwsys.time
        /\ S.nextHit = nwsys.time + MaxTimestep
    BY <2>4, StampedFacts
  <2>3. S.time = nwsys.time /\ S.type = nwsys.type
    BY <2>2 DEF Same, Fields
  <2> QED BY <2>1, <2>2, <2>3
<1>5. e \in Nat /\ S.time - e = nwsys.prevHit
  BY <1>3, <1>4
<1> HIDE DEF S, e
<1>6. p = Preprocess(S) /\ P = Protocol(p, e)
  OBVIOUS
<1> HIDE DEF p, P
<1>7. Sound(S, nwsys.prevHit)
  <2> DEFINE F == {"prevHit", "nextHit"}
  <2>1. F \cap QueueFields = {} /\ NewScalars(S, F)
    BY <1>3, <1>4 DEF QueueFields, NewScalars
  <2>2. /\ F \cap (Fields \ {"outputQ", "postprocQ", "outputs", "nextHit", "time", "prevHit", "nextNode",
                             "preprocQ", "statpreprocQ"}) = {}
        /\ "statpreprocQ" \notin F \/ nwsys.type = "FLEXRAY"
        /\ Same(nwsys, S, F)
    BY <1>4
  <2> HIDE DEF F
  <2>3. Net(S)
    BY <1>3, <2>1, <2>2, NetAgain
  <2> QED BY <1>3, <2>2, <2>3, SoundReceivers
<1>8. /\ Sound(p, nwsys.prevHit)
      /\ Same(S, p, {"preprocQ", "inputQ", "statpreprocQ", "statinputQ", "nextHit"})
  <2>1. Net(S)
    BY <1>7, SoundFacts
  <2>2. Same(S, p, {"preprocQ", "inputQ", "statpreprocQ", "statinputQ", "nextHit"})
    BY <1>6, <2>1, PreprocessGrows
  <2> QED BY <1>6, <1>7, <2>2, PreprocessSound
<1>9. p.time = nwsys.time /\ p.prevHit = nwsys.time /\ p.type = nwsys.type
  BY <1>4, <1>8 DEF Same, Fields
<1>10. Sound(p, p.time - e) /\ e \in Nat
  BY <1>4, <1>5, <1>8, <1>9
<1>13. s \in Drawn(Protocol(p, e)) /\ Ran(p, s)
  BY <1>1, <1>6, <1>10, ProtocolRuns
<1>11. /\ s.time = nwsys.time /\ s.prevHit = nwsys.time /\ s.type = nwsys.type
       /\ Sound(s, s.time) /\ OnTime(s)
  BY <1>9, <1>13 DEF Ran, Same, Fields, RunFields
<1>14. p = Preprocess(S)
  BY <1>6
<1>15. nwsys.time = nwsys.prevHit + e
  BY <1>3, <1>4, <1>5
<1> QED BY <1>15, <1>2, <1>4, <1>7, <1>8, <1>10, <1>11, <1>13, <1>14 DEF RunSteps

LEMMA RunSound ==
  ASSUME NetInv, RunNetwork
  PROVE  NetInv' /\ Awake(nwsys')
<1>1. PICK S, p, e, s, lost : RunSteps(S, p, e, s, lost)
  BY RunInSteps
<1>2. /\ Sound(S, nwsys.prevHit) /\ p = Preprocess(S) /\ Ran(p, s) /\ Sound(s, s.time) /\ OnTime(s)
      /\ s.time = nwsys.time /\ s.prevHit = nwsys.time /\ s.type = nwsys.type
      /\ nwsys' = Postprocess(s, lost)
  BY <1>1 DEF RunSteps
<1>3. nwsys.time \in Nat /\ nwsys.prevHit <= nwsys.time
  BY SoundFacts DEF NetInv
<1>4. \A i \in Node :
        /\ s.preprocQ[i] # << >> /\ s.inputQ[i] = << >> => s.nextHit <= Head(s.preprocQ[i]).waituntil
        /\ s.statpreprocQ[i] # << >> /\ s.statinputQ[i] = << >>
             => s.nextHit <= Head(s.statpreprocQ[i]).waituntil
  BY <1>2, PreprocWaits
<1>5. /\ Sound(nwsys', nwsys'.prevHit) /\ Awake(nwsys') /\ nwsys'.time = s.time
      /\ nwsys'.prevHit = s.time /\ nwsys'.type = s.type
  <2>1. s.prevHit = s.time
    BY <1>2
  <2> QED BY <1>2, <1>4, <2>1, AwakeAfter
<1>6. unsent' = unsent /\ discards' = discards
  BY DEF RunNetwork
<1>7. nwsys'.prevHit <= nwsys'.time
  BY <1>2, <1>3, <1>5
<1> QED BY <1>2, <1>5, <1>6, <1>7 DEF NetInv

\* Steps that change none of the lines
LEMMA OtherSound ==
  ASSUME NetInv, NEW F, Same(nwsys, nwsys', F), NewScalars(nwsys', F), NewQueues(nwsys', F),
         F \cap (Fields \ {"outputQ", "postprocQ", "outputs", "nextHit", "time", "nextNode",
                           "preprocQ", "statpreprocQ"}) = {},
         "statpreprocQ" \notin F \/ nwsys.type = "FLEXRAY",
         nwsys'.time >= nwsys.time, unsent' \subseteq unsent, discards' = discards
  PROVE  NetInv'
<1>1. /\ Sound(nwsys, nwsys.prevHit) /\ Net(nwsys) /\ nwsys.prevHit <= nwsys.time
      /\ nwsys.prevHit \in Nat /\ nwsys.time \in Nat
  BY SoundFacts DEF NetInv
<1>2. Net(nwsys')
  BY <1>1, NetQueues
<1>3. F \cap (Fields \ {"outputQ", "postprocQ", "outputs", "nextHit", "time", "prevHit", "nextNode",
                        "preprocQ", "statpreprocQ"}) = {}
  OBVIOUS
<1>4. Sound(nwsys', nwsys.prevHit)
  BY <1>1, <1>2, <1>3, SoundReceivers
<1>5. nwsys'.prevHit = nwsys.prevHit /\ nwsys'.type = nwsys.type /\ nwsys'.time \in Nat
  <2>1. "prevHit" \notin F /\ "type" \notin F
    BY DEF Fields
  <2> QED BY <1>2, <2>1, NetFacts DEF Same, Fields
<1> QED BY <1>1, <1>4, <1>5 DEF NetInv

LEMMA AdvanceSound ==
  ASSUME NetInv, Advance
  PROVE  NetInv'
<1>1. Net(nwsys) /\ nwsys.time \in Nat /\ IsNet(nwsys)
  BY SoundFacts DEF NetInv
<1>2. nwsys' = [nwsys EXCEPT !.time = @ + 1] /\ unsent' = unsent /\ discards' = discards
  BY DEF Advance
<1>3. Same(nwsys, nwsys', {"time"}) /\ nwsys'.time = nwsys.time + 1
  BY <1>1, <1>2 DEF Same, IsNet, Fields
<1> DEFINE F == {"time"}
<1>4. /\ NewScalars(nwsys', F) /\ NewQueues(nwsys', F) /\ Same(nwsys, nwsys', F)
      /\ F \cap (Fields \ {"outputQ", "postprocQ", "outputs", "nextHit", "time", "nextNode",
                           "preprocQ", "statpreprocQ"}) = {}
      /\ "statpreprocQ" \notin F
  BY <1>1, <1>3 DEF NewScalars, NewQueues
<1> HIDE DEF F
<1>5. nwsys'.time >= nwsys.time /\ unsent' \subseteq unsent /\ discards' = discards
  BY <1>1, <1>2, <1>3
<1> QED BY <1>4, <1>5, OtherSound

LEMMA NextNodeSound ==
  ASSUME NetInv, NEW i \in Node, SetNextNode(i)
  PROVE  NetInv'
<1>1. Net(nwsys) /\ nwsys.time \in Nat /\ IsNet(nwsys)
  BY SoundFacts DEF NetInv
<1>2. nwsys' = [nwsys EXCEPT !.nextNode = i] /\ unsent' = unsent /\ discards' = discards
  BY DEF SetNextNode
<1>3. Same(nwsys, nwsys', {"nextNode"}) /\ nwsys'.nextNode = i /\ nwsys'.time = nwsys.time
  BY <1>1, <1>2 DEF Same, IsNet, Fields
<1> DEFINE F == {"nextNode"}
<1>4. /\ NewScalars(nwsys', F) /\ NewQueues(nwsys', F) /\ Same(nwsys, nwsys', F)
      /\ F \cap (Fields \ {"outputQ", "postprocQ", "outputs", "nextHit", "time", "nextNode",
                           "preprocQ", "statpreprocQ"}) = {}
      /\ "statpreprocQ" \notin F
  BY <1>1, <1>3 DEF NewScalars, NewQueues
<1> HIDE DEF F
<1>5. nwsys'.time >= nwsys.time /\ unsent' \subseteq unsent /\ discards' = discards
  BY <1>1, <1>2, <1>3
<1> QED BY <1>4, <1>5, OtherSound

LEMMA GetMsgSound ==
  ASSUME NetInv, NEW r \in Node, GetMsg(r)
  PROVE  NetInv'
<1>1. Net(nwsys) /\ nwsys.time \in Nat /\ IsNet(nwsys) /\ Queues(nwsys)
  BY SoundFacts DEF NetInv
<1>2. /\ nwsys' = [nwsys EXCEPT !.postprocQ[r] = Tail(@)] /\ nwsys.postprocQ[r] # << >>
      /\ unsent' = unsent /\ discards' = discards
  BY DEF GetMsg, Dequeue
<1>3. /\ Same(nwsys, nwsys', {"postprocQ"}) /\ nwsys'.time = nwsys.time
      /\ nwsys'.postprocQ = [nwsys.postprocQ EXCEPT ![r] = Tail(nwsys.postprocQ[r])]
  BY <1>1, <1>2 DEF Same, IsNet, Fields
<1>6. nwsys.postprocQ \in [Node -> Seq(NWmsg)] /\ \A j \in Node : nwsys.postprocQ[j] \in Seq(MsgTo(j))
  BY <1>1 DEF Queues
<1>7. Tail(nwsys.postprocQ[r]) \in Seq(MsgTo(r)) /\ Tail(nwsys.postprocQ[r]) \in Seq(NWmsg)
  BY <1>2, <1>6, HeadAndTail
<1>8. nwsys'.postprocQ \in [Node -> Seq(NWmsg)] /\ \A j \in Node : nwsys'.postprocQ[j] \in Seq(MsgTo(j))
  <2>1. /\ nwsys'.postprocQ \in [Node -> Seq(NWmsg)] /\ nwsys'.postprocQ[r] = Tail(nwsys.postprocQ[r])
        /\ \A j \in Node \ {r} : nwsys'.postprocQ[j] = nwsys.postprocQ[j]
    BY <1>3, <1>6, <1>7, OneQueue
  <2> QED BY <1>6, <1>7, <2>1
<1> DEFINE F == {"postprocQ"}
<1>4. /\ NewScalars(nwsys', F) /\ NewQueues(nwsys', F) /\ Same(nwsys, nwsys', F)
      /\ F \cap (Fields \ {"outputQ", "postprocQ", "outputs", "nextHit", "time", "nextNode",
                           "preprocQ", "statpreprocQ"}) = {}
      /\ "statpreprocQ" \notin F
  BY <1>1, <1>3, <1>8 DEF NewScalars, NewQueues
<1> HIDE DEF F
<1>5. nwsys'.time >= nwsys.time /\ unsent' \subseteq unsent /\ discards' = discards
  BY <1>1, <1>2, <1>3
<1> QED BY <1>4, <1>5, OtherSound

LEMMA SendMsgSound ==
  ASSUME NetInv, NEW m \in Message, SendMsg(m)
  PROVE  NetInv'
<1>1. Net(nwsys) /\ nwsys.time \in Nat /\ IsNet(nwsys) /\ Queues(nwsys)
  BY SoundFacts DEF NetInv
<1>2. nwsys' = Enqueue(nwsys, m) /\ unsent' \subseteq unsent /\ discards' = discards
  BY DEF SendMsg
<1> DEFINE i == Sender[m]
           x == [msg |-> m, remaining |-> 0, timestamp |-> nwsys.time,
                 waituntil |-> nwsys.time + Predelay[Sender[m]]]
<1>3. i \in Node /\ x \in MsgFrom(i) /\ x \in NWmsg
  <2>1. i \in Node /\ Predelay[i] \in Nat
    BY NodeFacts
  <2> QED BY <1>1, <2>1 DEF MsgFrom, NWmsg
<1>4. /\ nwsys.preprocQ \in [Node -> Seq(NWmsg)] /\ nwsys.statpreprocQ \in [Node -> Seq(NWmsg)]
      /\ \A j \in Node : nwsys.preprocQ[j] \in Seq(MsgFrom(j)) /\ nwsys.statpreprocQ[j] \in Seq(MsgFrom(j))
  BY <1>1 DEF Queues
<1>5. /\ nwsys.type = "FLEXRAY" /\ m \in Static =>
           nwsys' = [nwsys EXCEPT !.statpreprocQ[i] = Append(nwsys.statpreprocQ[i], x)]
      /\ ~ (nwsys.type = "FLEXRAY" /\ m \in Static) =>
           nwsys' = [nwsys EXCEPT !.preprocQ[i] = Append(nwsys.preprocQ[i], x)]
  BY <1>2 DEF Enqueue, EnqueueMsg, EnqueueStatic, NewFrame
<1> HIDE DEF i, x
<1>6. CASE nwsys.type = "FLEXRAY" /\ m \in Static
  <2> DEFINE q == Append(nwsys.statpreprocQ[i], x)
             F == {"statpreprocQ"}
  <2>1. q \in Seq(MsgFrom(i)) /\ q \in Seq(NWmsg)
    BY <1>3, <1>4
  <2>2. nwsys' = [nwsys EXCEPT !.statpreprocQ[i] = q]
    BY <1>5, <1>6
  <2> HIDE DEF q
  <2>3. /\ Same(nwsys, nwsys', F) /\ nwsys'.time = nwsys.time
        /\ nwsys'.statpreprocQ = [nwsys.statpreprocQ EXCEPT ![i] = q]
    BY <1>1, <2>2 DEF Same, IsNet, Fields
  <2>4. /\ nwsys'.statpreprocQ \in [Node -> Seq(NWmsg)] /\ nwsys'.statpreprocQ[i] = q
        /\ \A j \in Node \ {i} : nwsys'.statpreprocQ[j] = nwsys.statpreprocQ[j]
    BY <1>3, <1>4, <2>1, <2>3, OneQueue
  <2>5. \A j \in Node : nwsys'.statpreprocQ[j] \in Seq(MsgFrom(j))
    BY <1>4, <2>1, <2>4
  <2>6. /\ NewScalars(nwsys', F) /\ NewQueues(nwsys', F) /\ Same(nwsys, nwsys', F)
        /\ F \cap (Fields \ {"outputQ", "postprocQ", "outputs", "nextHit", "time", "nextNode",
                             "preprocQ", "statpreprocQ"}) = {}
    BY <2>3, <2>4, <2>5 DEF NewScalars, NewQueues
  <2> HIDE DEF F
  <2>7. nwsys'.time >= nwsys.time /\ nwsys.type = "FLEXRAY"
    BY <1>1, <1>6, <2>3
  <2> QED BY <1>2, <2>6, <2>7, OtherSound
<1>7. CASE ~ (nwsys.type = "FLEXRAY" /\ m \in Static)
  <2> DEFINE q == Append(nwsys.preprocQ[i], x)
             F == {"preprocQ"}
  <2>1. q \in Seq(MsgFrom(i)) /\ q \in Seq(NWmsg)
    BY <1>3, <1>4
  <2>2. nwsys' = [nwsys EXCEPT !.preprocQ[i] = q]
    BY <1>5, <1>7
  <2> HIDE DEF q
  <2>3. /\ Same(nwsys, nwsys', F) /\ nwsys'.time = nwsys.time
        /\ nwsys'.preprocQ = [nwsys.preprocQ EXCEPT ![i] = q]
    BY <1>1, <2>2 DEF Same, IsNet, Fields
  <2>4. /\ nwsys'.preprocQ \in [Node -> Seq(NWmsg)] /\ nwsys'.preprocQ[i] = q
        /\ \A j \in Node \ {i} : nwsys'.preprocQ[j] = nwsys.preprocQ[j]
    BY <1>3, <1>4, <2>1, <2>3, OneQueue
  <2>5. \A j \in Node : nwsys'.preprocQ[j] \in Seq(MsgFrom(j))
    BY <1>4, <2>1, <2>4
  <2>6. /\ NewScalars(nwsys', F) /\ NewQueues(nwsys', F) /\ Same(nwsys, nwsys', F)
        /\ F \cap (Fields \ {"outputQ", "postprocQ", "outputs", "nextHit", "time", "nextNode",
                             "preprocQ", "statpreprocQ"}) = {}
        /\ "statpreprocQ" \notin F
    BY <2>3, <2>4, <2>5 DEF NewScalars, NewQueues
  <2> HIDE DEF F
  <2>7. nwsys'.time >= nwsys.time
    BY <1>1, <2>3
  <2> QED BY <1>2, <2>6, <2>7, OtherSound
<1> QED BY <1>6, <1>7

LEMMA FirstStays ==
  ASSUME NEW A, NEW q, Busy(A, q)
  PROVE  Busy(A, <<Head(q)>>) /\ <<Head(q)>> \in Seq(A)
<1>1. q \in Seq(A) /\ q # << >> /\ Head(q).remaining > 0
  BY DEF Busy
<1>2. Head(q) \in A
  BY <1>1, HeadAndTail
<1> DEFINE x == Head(q)
           p == <<Head(q)>>
<1>3. p \in Seq(A) /\ p # << >> /\ Tail(p) = << >> /\ Head(p) = x
  BY <1>2
<1>4. << >> \in Seq(Whole(A))
  OBVIOUS
<1> HIDE DEF x, p
<1>5. Busy(A, p)
  BY <1>1, <1>3, <1>4 DEF Busy, x
<1> QED BY <1>3, <1>5 DEF p

\* What ttDiscardUnsentMessages of node i leaves
KeptLine(S, i) == IF S.type \in {"NCM", "FLEXRAY"} THEN S.inputQ[i]
               ELSE IF S.sending = i THEN <<Head(S.inputQ[i])>> ELSE << >>

LEMMA DiscardFacts ==
  ASSUME NetInv, NEW i \in Node, DiscardUnsent(i)
  PROVE  /\ nwsys.type \notin {"FDMA", "TDMA", "SFDSE"} /\ unsent' = unsent /\ discards' = discards
         /\ inputs' = inputs
         /\ Same(nwsys, nwsys', {"preprocQ", "inputQ"})
         /\ nwsys'.preprocQ = [nwsys.preprocQ EXCEPT ![i] = << >>]
         /\ nwsys'.inputQ = [nwsys.inputQ EXCEPT ![i] = KeptLine(nwsys, i)]
<1>1. Net(nwsys) /\ IsNet(nwsys)
  BY SoundFacts DEF NetInv
<1>2. /\ nwsys' = [nwsys EXCEPT !.preprocQ[i] = << >>, !.inputQ[i] = KeptLine(nwsys, i)]
      /\ unsent' = unsent /\ discards' = discards /\ inputs' = inputs /\ discards
  BY DEF DiscardUnsent, KeptLine
<1> DEFINE k == KeptLine(nwsys, i)
<1> HIDE DEF k
<1>3. nwsys' = [nwsys EXCEPT !.preprocQ[i] = << >>, !.inputQ[i] = k]
  BY <1>2 DEF k
<1>4. /\ Same(nwsys, nwsys', {"preprocQ", "inputQ"})
      /\ nwsys'.preprocQ = [nwsys.preprocQ EXCEPT ![i] = << >>]
      /\ nwsys'.inputQ = [nwsys.inputQ EXCEPT ![i] = k]
  BY <1>1, <1>3 DEF Same, IsNet, Fields
<1> QED BY <1>2, <1>4 DEF NetInv, k

LEMMA DiscardSound ==
  ASSUME NetInv, NEW i \in Node, DiscardUnsent(i)
  PROVE  NetInv'
<1>1. /\ Sound(nwsys, nwsys.prevHit) /\ Net(nwsys) /\ IsNet(nwsys) /\ Queues(nwsys)
      /\ nwsys.prevHit <= nwsys.time /\ nwsys.type \in Kinds
  BY SoundFacts DEF NetInv
<1>2. /\ nwsys.type \notin {"FDMA", "TDMA", "SFDSE"} /\ unsent' = unsent /\ discards' = discards
      /\ Same(nwsys, nwsys', {"preprocQ", "inputQ"})
      /\ nwsys'.preprocQ = [nwsys.preprocQ EXCEPT ![i] = << >>]
      /\ nwsys'.inputQ = [nwsys.inputQ EXCEPT ![i] = KeptLine(nwsys, i)]
  BY DiscardFacts
<1>3. /\ nwsys'.type = nwsys.type /\ nwsys'.time = nwsys.time /\ nwsys'.prevHit = nwsys.prevHit
      /\ nwsys'.state = nwsys.state /\ nwsys'.sending = nwsys.sending
  BY <1>2 DEF Same, Fields
<1>4. /\ nwsys.preprocQ \in [Node -> Seq(NWmsg)] /\ nwsys.inputQ \in [Node -> Seq(NWmsg)]
      /\ \A j \in Node : nwsys.preprocQ[j] \in Seq(MsgFrom(j)) /\ nwsys.inputQ[j] \in Seq(MsgFrom(j))
  BY <1>1 DEF Queues
<1>5. /\ nwsys'.preprocQ \in [Node -> Seq(NWmsg)]
      /\ \A j \in Node : nwsys'.preprocQ[j] \in Seq(MsgFrom(j))
  <2>1. << >> \in Seq(NWmsg) /\ << >> \in Seq(MsgFrom(i))
    OBVIOUS
  <2>2. /\ nwsys'.preprocQ \in [Node -> Seq(NWmsg)] /\ nwsys'.preprocQ[i] = << >>
        /\ \A j \in Node \ {i} : nwsys'.preprocQ[j] = nwsys.preprocQ[j]
    BY <1>2, <1>4, <2>1, OneQueue
  <2> QED BY <1>4, <2>1, <2>2
<1>6. CASE nwsys.type \in {"NCM", "FLEXRAY"}
  <2> DEFINE F == {"preprocQ"}
  <2>1. nwsys'.inputQ = nwsys.inputQ
    BY <1>2, <1>4, <1>6 DEF KeptLine
  <2>2. Same(nwsys, nwsys', F)
    BY <1>2, <2>1 DEF Same
  <2>3. NewScalars(nwsys', F) /\ NewQueues(nwsys', F)
    BY <1>5 DEF NewScalars, NewQueues
  <2>4. F \cap (Fields \ {"outputQ", "postprocQ", "outputs", "nextHit", "time", "prevHit", "nextNode",
                          "preprocQ", "statpreprocQ"}) = {} /\ "statpreprocQ" \notin F
    OBVIOUS
  <2> HIDE DEF F
  <2>5. Net(nwsys')
    BY <1>1, <2>2, <2>3, NetQueues
  <2>6. Sound(nwsys', nwsys.prevHit)
    BY <1>1, <2>2, <2>4, <2>5, SoundReceivers
  <2> QED BY <1>1, <1>2, <1>3, <2>6 DEF NetInv
<1>7. CASE nwsys.type \notin {"NCM", "FLEXRAY"}
  <2>1. nwsys.type \in {"CSMACD", "CSMAAMP", "RR"} /\ Lines(nwsys) /\ OneSends(nwsys)
    BY <1>1, <1>2, <1>7 DEF Kinds, Sound, OneMedium
  <2> DEFINE q == KeptLine(nwsys, i)
             F == {"preprocQ", "inputQ"}
  <2>2. /\ nwsys.state[i] = 1 => Busy(MsgFrom(i), q)
        /\ nwsys.state[i] # 1 => Idle(MsgFrom(i), q)
        /\ q \in Seq(MsgFrom(i))
    <3>1. CASE nwsys.state[i] = 1
      <4>1. Busy(MsgFrom(i), nwsys.inputQ[i])
        BY <2>1, <3>1 DEF Lines, Line, Sends
      <4>2. q = <<Head(nwsys.inputQ[i])>>
        BY <1>7, <2>1, <3>1 DEF KeptLine, OneSends
      <4> QED BY <3>1, <4>1, <4>2, FirstStays
    <3>2. CASE nwsys.state[i] # 1
      <4>1. q = << >>
        BY <1>7, <2>1, <3>2 DEF KeptLine, OneSends
      <4> QED BY <3>2, <4>1 DEF Idle
    <3> QED BY <3>1, <3>2
  <2> HIDE DEF q
  <2>3. q \in Seq(NWmsg)
    BY <2>2, MsgFacts
  <2>4. nwsys'.inputQ = [nwsys.inputQ EXCEPT ![i] = q]
    BY <1>2 DEF q
  <2>5. /\ nwsys'.inputQ \in [Node -> Seq(NWmsg)] /\ nwsys'.inputQ[i] = q
        /\ \A j \in Node \ {i} : nwsys'.inputQ[j] = nwsys.inputQ[j]
    BY <1>4, <2>3, <2>4, OneQueue
  <2>6. \A j \in Node : nwsys'.inputQ[j] \in Seq(MsgFrom(j))
    BY <1>4, <2>2, <2>5
  <2>7. Same(nwsys, nwsys', F) /\ NewScalars(nwsys', F) /\ NewQueues(nwsys', F)
    BY <1>2, <1>5, <2>5, <2>6 DEF NewScalars, NewQueues
  <2>8. /\ F \cap {"type", "swstate", "switchQ", "statpreprocQ", "statinputQ", "miniSlotCount"} = {}
        /\ "slotcount" \notin F
    OBVIOUS
  <2> HIDE DEF F
  <2>9. Net(nwsys')
    BY <1>1, <2>7, NetQueues
  <2>10. Lines(nwsys')
    <3> SUFFICES ASSUME NEW j \in Node PROVE Line(nwsys', j)
      BY DEF Lines
    <3>1. CASE j = i
      BY <1>3, <2>1, <2>2, <2>5, <3>1 DEF Line, Sends
    <3>2. CASE j # i
      <4>1. Line(nwsys, j) /\ nwsys'.inputQ[j] = nwsys.inputQ[j]
        BY <2>1, <2>5, <3>2 DEF Lines
      <4> QED BY <1>3, <4>1 DEF Line, Sends
    <3> QED BY <3>1, <3>2
  <2>11. OneSends(nwsys')
    BY <1>3, <2>1 DEF OneSends
  <2>12. nwsys'.type = "CSMACD" => Apart(nwsys')
    BY <1>1, <1>3 DEF Apart, Sound
  <2>13. nwsys'.type # "TDMA" /\ nwsys.type \notin {"FLEXRAY", "SFDSE"}
    BY <1>3, <2>1
  <2>14. Sound(nwsys', nwsys.prevHit)
    BY <1>1, <2>7, <2>8, <2>9, <2>10, <2>11, <2>12, <2>13, BusSound
  <2> QED BY <1>1, <1>2, <1>3, <2>14 DEF NetInv
<1> QED BY <1>6, <1>7

LEMMA NextSound ==
  ASSUME NetInv, [Next]_vars
  PROVE  NetInv'
<1>1. CASE RunNetwork
  BY <1>1, RunSound
<1>2. CASE Advance
  BY <1>2, AdvanceSound
<1>3. ASSUME NEW m \in Message, SendMsg(m) PROVE NetInv'
  BY <1>3, SendMsgSound
<1>4. ASSUME NEW i \in Node, GetMsg(i) PROVE NetInv'
  BY <1>4, GetMsgSound
<1>5. ASSUME NEW i \in Node, DiscardUnsent(i) PROVE NetInv'
  BY <1>5, DiscardSound
<1>6. ASSUME NEW i \in Node, SetNextNode(i) PROVE NetInv'
  BY <1>6, NextNodeSound
<1>7. CASE UNCHANGED vars
  BY <1>7 DEF NetInv, vars
<1> QED BY <1>1, <1>2, <1>3, <1>4, <1>5, <1>6, <1>7 DEF Next

LEMMA NeedsTimeSame ==
  ASSUME NEW S, Net(S), NEW s, Net(s), NEW i \in Node,
         s.type = S.type, s.slotcount = S.slotcount, s.schedule = S.schedule,
         Head(s.inputQ[i]) = Head(S.inputQ[i]), Head(s.statinputQ[i]) = Head(S.statinputQ[i])
  PROVE  NeedsTime(s, i) = NeedsTime(S, i)
<1>1. Swapped(S).inputQ = S.statinputQ /\ Swapped(S).type = S.type
  BY SwappedFacts
<1>2. Swapped(s).inputQ = s.statinputQ /\ Swapped(s).type = s.type
  BY SwappedFacts
<1>3. RemXTime(s, i) = RemXTime(S, i) /\ RemXTime(Swapped(s), i) = RemXTime(Swapped(S), i)
  BY <1>1, <1>2 DEF RemXTime, Rate
<1>4. InStatic(s) <=> InStatic(S)
  BY DEF InStatic
<1> QED BY <1>3, <1>4 DEF NeedsTime

\* The fields that Awake does not look at
LEMMA AwakeSame ==
  ASSUME NEW S, Net(S), Awake(S), NEW s, Net(s), NEW F, Same(S, s, F),
         F \cap (Fields \ {"time", "nextNode", "postprocQ"}) = {}
  PROVE  Awake(s)
<1>1. /\ s.type = S.type /\ s.schedule = S.schedule /\ s.prevHit = S.prevHit /\ s.nextHit = S.nextHit
      /\ s.preprocQ = S.preprocQ /\ s.inputQ = S.inputQ /\ s.statpreprocQ = S.statpreprocQ
      /\ s.statinputQ = S.statinputQ /\ s.switchQ = S.switchQ /\ s.outputQ = S.outputQ
      /\ s.state = S.state /\ s.swstate = S.swstate /\ s.until = S.until
      /\ s.sending = S.sending /\ s.waituntil = S.waituntil
      /\ s.slotcount = S.slotcount /\ s.currslottime = S.currslottime
  <2>1. \A f \in Fields \ {"time", "nextNode", "postprocQ"} : s[f] = S[f]
    BY DEF Same
  <2> QED BY <2>1 DEF Fields
<1>2. \A i \in Node : NeedsTime(s, i) = NeedsTime(S, i)
  BY <1>1, NeedsTimeSame
<1>3. \A i \in Node : Held(s, i) <=> Held(S, i)
  BY <1>1 DEF Held, Owner
<1>4. (s.type = "CSMACD" => Waiting(s)) /\ SlotEnd(s) = SlotEnd(S)
  BY <1>1 DEF Waiting, SlotEnd, Awake
<1> QED BY <1>1, <1>2, <1>3, <1>4 DEF Awake

LEMMA DiscardAwake ==
  ASSUME NetInv, NetInv', NEW i \in Node, DiscardUnsent(i), Awake(nwsys)
  PROVE  Awake(nwsys')
<1>1. Sound(nwsys, nwsys.prevHit) /\ Net(nwsys) /\ Queues(nwsys) /\ nwsys.type \in Kinds
  BY SoundFacts DEF NetInv
<1>2. Net(nwsys')
  BY SoundFacts DEF NetInv
<1>3. /\ nwsys.type \notin {"FDMA", "TDMA", "SFDSE"}
      /\ Same(nwsys, nwsys', {"preprocQ", "inputQ"})
      /\ nwsys'.preprocQ = [nwsys.preprocQ EXCEPT ![i] = << >>]
      /\ nwsys'.inputQ = [nwsys.inputQ EXCEPT ![i] = KeptLine(nwsys, i)]
  BY DiscardFacts
<1>4. /\ nwsys'.type = nwsys.type /\ nwsys'.schedule = nwsys.schedule
      /\ nwsys'.prevHit = nwsys.prevHit /\ nwsys'.nextHit = nwsys.nextHit
      /\ nwsys'.statpreprocQ = nwsys.statpreprocQ /\ nwsys'.statinputQ = nwsys.statinputQ
      /\ nwsys'.switchQ = nwsys.switchQ /\ nwsys'.outputQ = nwsys.outputQ
      /\ nwsys'.state = nwsys.state /\ nwsys'.swstate = nwsys.swstate /\ nwsys'.until = nwsys.until
      /\ nwsys'.sending = nwsys.sending /\ nwsys'.waituntil = nwsys.waituntil
      /\ nwsys'.slotcount = nwsys.slotcount /\ nwsys'.currslottime = nwsys.currslottime
  BY <1>3 DEF Same, Fields
<1>5. /\ nwsys'.preprocQ[i] = << >> /\ nwsys'.inputQ[i] = KeptLine(nwsys, i)
      /\ \A j \in Node \ {i} : nwsys'.preprocQ[j] = nwsys.preprocQ[j] /\ nwsys'.inputQ[j] = nwsys.inputQ[j]
  BY <1>1, <1>3 DEF Queues
<1>6. nwsys.type \notin {"NCM", "FLEXRAY"} =>
        /\ nwsys.type \in {"CSMACD", "CSMAAMP", "RR"} /\ Lines(nwsys) /\ OneSends(nwsys)
  BY <1>1, <1>3 DEF Kinds, Sound, OneMedium
<1>7. ASSUME NEW j \in Node, nwsys'.state[j] = 1
      PROVE  nwsys'.nextHit <= nwsys'.prevHit + NeedsTime(nwsys', j)
  <2>1. Head(nwsys'.inputQ[j]) = Head(nwsys.inputQ[j])
    <3>1. CASE j # i
      BY <1>5, <3>1
    <3>2. CASE j = i /\ nwsys.type \in {"NCM", "FLEXRAY"}
      BY <1>5, <3>2 DEF KeptLine
    <3>3. CASE j = i /\ nwsys.type \notin {"NCM", "FLEXRAY"}
      <4>1. nwsys.sending = i
        BY <1>4, <1>6, <1>7, <3>3 DEF OneSends
      <4>2. nwsys'.inputQ[i] = <<Head(nwsys.inputQ[i])>>
        BY <1>5, <3>3, <4>1 DEF KeptLine
      <4> DEFINE h == Head(nwsys.inputQ[i])
      <4> HIDE DEF h
      <4>3. Head(<<h>>) = h
        OBVIOUS
      <4> QED BY <3>3, <4>2, <4>3 DEF h
    <3> QED BY <3>1, <3>2, <3>3
  <2>2. NeedsTime(nwsys', j) = NeedsTime(nwsys, j)
    BY <1>1, <1>2, <1>4, <2>1, NeedsTimeSame
  <2>3. nwsys.nextHit <= nwsys.prevHit + NeedsTime(nwsys, j)
    BY <1>4, <1>7 DEF Awake
  <2> QED BY <1>4, <2>2, <2>3
<1>8. ASSUME NEW j \in Node
      PROVE  nwsys'.preprocQ[j] # << >> /\ nwsys'.inputQ[j] = << >>
               => nwsys'.nextHit <= Head(nwsys'.preprocQ[j]).waituntil
  BY <1>4, <1>5 DEF Awake
<1>9. ASSUME NEW j \in Node, nwsys'.state[j] = 0, nwsys'.inputQ[j] # << >>
      PROVE  Held(nwsys', j)
  <2>1. nwsys.inputQ[j] # << >>
    <3>1. CASE j # i
      BY <1>5, <1>9, <3>1
    <3>2. CASE j = i /\ nwsys.type \in {"NCM", "FLEXRAY"}
      BY <1>5, <1>9, <3>2 DEF KeptLine
    <3>3. CASE j = i /\ nwsys.type \notin {"NCM", "FLEXRAY"}
      <4>1. nwsys.sending # i
        BY <1>4, <1>6, <1>9, <3>3 DEF OneSends
      <4> QED BY <1>5, <1>9, <3>3, <4>1 DEF KeptLine
    <3> QED BY <3>1, <3>2, <3>3
  <2>2. Held(nwsys, j)
    BY <1>4, <1>9, <2>1 DEF Awake
  <2> QED BY <1>4, <2>2 DEF Held, Owner
<1>10. (nwsys'.type = "CSMACD" => Waiting(nwsys')) /\ SlotEnd(nwsys') = SlotEnd(nwsys)
  BY <1>4 DEF Waiting, SlotEnd, Awake
<1> HIDE DEF KeptLine
<1> QED BY <1>4, <1>7, <1>8, <1>9, <1>10 DEF Awake

\* The block is woken up at every step.
LEMMA NextAwake ==
  ASSUME NetInv, NetInv', WakeInv, [Next]_vars
  PROVE  WakeInv'
<1>0. Net(nwsys) /\ Net(nwsys') /\ IsNet(nwsys)
  BY SoundFacts DEF NetInv
<1>1. CASE RunNetwork
  BY <1>1, RunSound DEF WakeInv
<1>2. ASSUME NEW F, F \cap (Fields \ {"time", "nextNode", "postprocQ"}) = {}, Same(nwsys, nwsys', F),
             inputs' = inputs, "time" \notin F \/ ~ MustRun
      PROVE  WakeInv'
  <2> SUFFICES ASSUME HasRun', ~ MustRun' PROVE Awake(nwsys')
    BY DEF WakeInv
  <2>1. nwsys'.prevHit = nwsys.prevHit /\ nwsys'.nextHit = nwsys.nextHit
    BY <1>2 DEF Same, Fields
  <2>2. "time" \notin F => nwsys'.time = nwsys.time
    BY <1>2 DEF Same, Fields
  <2>3. HasRun /\ ~ MustRun
    BY <1>2, <2>1, <2>2 DEF HasRun, MustRun
  <2>4. Awake(nwsys)
    BY <2>3 DEF WakeInv
  <2> QED BY <1>0, <1>2, <2>4, AwakeSame
<1>3. CASE Advance
  <2> DEFINE F == {"time"}
  <2>1. nwsys' = [nwsys EXCEPT !.time = @ + 1] /\ inputs' = inputs /\ ~ MustRun
    BY <1>3 DEF Advance
  <2>2. Same(nwsys, nwsys', F)
    BY <1>0, <2>1 DEF Same, IsNet, Fields
  <2>3. F \cap (Fields \ {"time", "nextNode", "postprocQ"}) = {}
    OBVIOUS
  <2> HIDE DEF F
  <2> QED BY <1>2, <2>1, <2>2, <2>3
<1>4. ASSUME NEW m \in Message, SendMsg(m) PROVE WakeInv'
  BY <1>4 DEF SendMsg, WakeInv, MustRun
<1>5. ASSUME NEW i \in Node, GetMsg(i) PROVE WakeInv'
  <2> DEFINE F == {"postprocQ"}
  <2>1. nwsys' = [nwsys EXCEPT !.postprocQ[i] = Tail(@)] /\ inputs' = inputs
    BY <1>5 DEF GetMsg, Dequeue
  <2>2. Same(nwsys, nwsys', F)
    BY <1>0, <2>1 DEF Same, IsNet, Fields
  <2>3. F \cap (Fields \ {"time", "nextNode", "postprocQ"}) = {} /\ "time" \notin F
    OBVIOUS
  <2> HIDE DEF F
  <2> QED BY <1>2, <2>1, <2>2, <2>3
<1>6. ASSUME NEW i \in Node, DiscardUnsent(i) PROVE WakeInv'
  <2> SUFFICES ASSUME HasRun', ~ MustRun' PROVE Awake(nwsys')
    BY DEF WakeInv
  <2>1. Same(nwsys, nwsys', {"preprocQ", "inputQ"}) /\ inputs' = inputs
    BY <1>6, DiscardFacts
  <2>2. nwsys'.prevHit = nwsys.prevHit /\ nwsys'.nextHit = nwsys.nextHit /\ nwsys'.time = nwsys.time
    BY <2>1 DEF Same, Fields
  <2>3. HasRun /\ ~ MustRun
    BY <2>1, <2>2 DEF HasRun, MustRun
  <2>4. Awake(nwsys)
    BY <2>3 DEF WakeInv
  <2> QED BY <1>6, <2>4, DiscardAwake
<1>7. ASSUME NEW i \in Node, SetNextNode(i) PROVE WakeInv'
  <2> DEFINE F == {"nextNode"}
  <2>1. nwsys' = [nwsys EXCEPT !.nextNode = i] /\ inputs' = inputs
    BY <1>7 DEF SetNextNode
  <2>2. Same(nwsys, nwsys', F)
    BY <1>0, <2>1 DEF Same, IsNet, Fields
  <2>3. F \cap (Fields \ {"time", "nextNode", "postprocQ"}) = {} /\ "time" \notin F
    OBVIOUS
  <2> HIDE DEF F
  <2> QED BY <1>2, <2>1, <2>2, <2>3
<1>8. CASE UNCHANGED vars
  BY <1>8 DEF WakeInv, HasRun, MustRun, vars
<1> QED BY <1>1, <1>3, <1>4, <1>5, <1>6, <1>7, <1>8 DEF Next

LEMMA InitAwake ==
  ASSUME Init
  PROVE  WakeInv
<1>1. nwsys.time = 0 /\ nwsys.prevHit = 0 /\ nwsys.nextHit \in {0, MaxTimestep}
  BY DEF Init
<1> QED BY <1>1 DEF WakeInv, HasRun, MustRun

LEMMA WholeLine ==
  ASSUME NEW A, NEW q, Idle(A, q) \/ Busy(A, q), NEW k \in 1 .. Len(q), k > 1 \/ Idle(A, q)
  PROVE  q[k].remaining = Frame(q[k].msg)
<1>1. CASE Idle(A, q)
  <2>1. q[k] \in Whole(A)
    BY <1>1 DEF Idle
  <2> QED BY <2>1 DEF Whole
<1>2. CASE k > 1 /\ Busy(A, q)
  <2>1. Tail(q) \in Seq(Whole(A)) /\ q \in Seq(A) /\ q # << >>
    BY <1>2 DEF Busy
  <2>2. k - 1 \in 1 .. Len(Tail(q)) /\ Tail(q)[k - 1] = q[k]
    BY <1>2, <2>1
  <2>3. q[k] \in Whole(A)
    BY <2>1, <2>2
  <2> QED BY <2>3 DEF Whole
<1> QED BY <1>1, <1>2

LEMMA BusySends ==
  ASSUME NEW A, NEW q, A \subseteq NWmsg, Busy(A, q)
  PROVE  q # << >> /\ ~ (Head(q).remaining <= 0)
<1>1. q \in Seq(A) /\ q # << >> /\ Head(q).remaining > 0
  BY DEF Busy
<1>2. Head(q) \in NWmsg
  BY <1>1, HeadAndTail
<1>3. Head(q).remaining \in Int
  BY <1>2, MsgFacts
<1> QED BY <1>1, <1>3

\* The lines as the segment that the network is in has them
LEMMA SegmentLines ==
  ASSUME NetInv, NEW i \in Node
  PROVE  /\ Started(i) => Busy(MsgFrom(i), Segment.inputQ[i])
         /\ ~ Started(i) => Idle(MsgFrom(i), Segment.inputQ[i])
         /\ Idle(MsgFrom(i), Segment.statinputQ[i])
<1>1. Sound(nwsys, nwsys.prevHit) /\ Net(nwsys)
  BY SoundFacts DEF NetInv
<1>2. CASE nwsys.type # "FLEXRAY"
  <2>1. Segment = nwsys /\ Line(nwsys, i) /\ nwsys.statinputQ[i] = << >>
    BY <1>1, <1>2 DEF Segment, Sound, Lines, NoneStatic
  <2>2. Started(i) <=> Sends(nwsys, i)
    BY DEF Started, Sends
  <2>3. Idle(MsgFrom(i), << >>)
    BY DEF Idle
  <2> QED BY <2>1, <2>2, <2>3 DEF Line
<1>3. CASE nwsys.type = "FLEXRAY"
  <2>1. OneSends(nwsys) /\ FlexLines(nwsys)
    BY <1>1, <1>3 DEF Sound, Flex
  <2>2. Started(i) <=> nwsys.sending = i
    BY <1>3, <2>1 DEF Started, OneSends
  <2>3. CASE InStatic(nwsys)
    <3>1. Segment.inputQ = nwsys.statinputQ /\ Segment.statinputQ = nwsys.inputQ
      <4>1. Segment = Swapped(nwsys)
        BY <1>3, <2>3 DEF Segment
      <4> QED BY <1>1, <4>1, SwappedFacts
    <3> QED BY <2>1, <2>2, <2>3, <3>1 DEF FlexLines
  <2>4. CASE ~ InStatic(nwsys)
    <3>1. Segment = nwsys
      BY <2>4 DEF Segment
    <3> QED BY <2>1, <2>2, <2>4, <3>1 DEF FlexLines
  <2> QED BY <2>3, <2>4
<1> QED BY <1>2, <1>3

LEMMA NetTransmits ==
  ASSUME NetInv
  PROVE  TransmissionsAreSound
<1>1. Sound(nwsys, nwsys.prevHit) /\ Net(nwsys) /\ Outputs(nwsys) /\ nwsys.type \in Kinds
      /\ nwsys.swstate \in [Node -> {0, 1}]
  BY SoundFacts, NetFacts DEF NetInv
<1>2. SharedMedium => \A i \in Node : nwsys.state[i] = 1 <=> nwsys.sending = i
  <2>1. SharedMedium => OneSends(nwsys)
    BY <1>1 DEF SharedMedium, Sound, OneMedium, Flex
  <2> QED BY <2>1 DEF OneSends
<1>3. ASSUME NEW i \in Node
      PROVE  /\ Started(i) => Segment.inputQ[i] # << >> /\ ~Sent(Segment, i)
             /\ \A k \in 1 .. Len(Segment.inputQ[i]) :
                  k > 1 \/ ~Started(i) => Segment.inputQ[i][k].remaining = Frame(Segment.inputQ[i][k].msg)
             /\ \A k \in 1 .. Len(Segment.statinputQ[i]) :
                  Segment.statinputQ[i][k].remaining = Frame(Segment.statinputQ[i][k].msg)
  <2> DEFINE q == Segment.inputQ[i]
             p == Segment.statinputQ[i]
  <2>1. /\ Started(i) => Busy(MsgFrom(i), q)
        /\ ~ Started(i) => Idle(MsgFrom(i), q)
        /\ Idle(MsgFrom(i), p)
    BY SegmentLines
  <2>2. MsgFrom(i) \subseteq NWmsg
    BY MsgFacts
  <2>3. Sent(Segment, i) <=> Head(q).remaining <= 0
    BY DEF Sent
  <2> HIDE DEF q, p
  <2>4. Started(i) => q # << >> /\ ~ (Head(q).remaining <= 0)
    BY <2>1, <2>2, BusySends
  <2>5. ASSUME NEW k \in 1 .. Len(q), k > 1 \/ ~ Started(i) PROVE q[k].remaining = Frame(q[k].msg)
    <3>1. Idle(MsgFrom(i), q) \/ Busy(MsgFrom(i), q)
      BY <2>1
    <3>2. k > 1 \/ Idle(MsgFrom(i), q)
      BY <2>1, <2>5
    <3> QED BY <3>1, <3>2, WholeLine
  <2>6. ASSUME NEW k \in 1 .. Len(p) PROVE p[k].remaining = Frame(p[k].msg)
    BY <2>1, WholeLine
  <2> QED BY <2>3, <2>4, <2>5, <2>6 DEF q, p
<1>4. ASSUME NEW r \in Node
      PROVE  /\ nwsys.swstate[r] = 1 => nwsys.switchQ[r] # << >>
             /\ \A k \in 1 .. Len(nwsys.switchQ[r]) :
                  k > 1 \/ nwsys.swstate[r] = 0
                    => nwsys.switchQ[r][k].remaining = Frame(nwsys.switchQ[r][k].msg)
  <2> DEFINE q == nwsys.switchQ[r]
  <2>1. /\ nwsys.swstate[r] = 1 => Busy(MsgTo(r), q)
        /\ nwsys.swstate[r] # 1 => Idle(MsgTo(r), q)
    BY <1>1 DEF Outputs, Output
  <2> HIDE DEF q
  <2>2. nwsys.swstate[r] = 1 => q # << >>
    BY <2>1 DEF Busy
  <2>3. ASSUME NEW k \in 1 .. Len(q), k > 1 \/ nwsys.swstate[r] = 0 PROVE q[k].remaining = Frame(q[k].msg)
    <3>1. Idle(MsgTo(r), q) \/ Busy(MsgTo(r), q)
      BY <2>1
    <3>2. k > 1 \/ Idle(MsgTo(r), q)
      BY <2>1, <2>3
    <3> QED BY <3>1, <3>2, WholeLine
  <2> QED BY <2>2, <2>3 DEF q
<1>5. nwsys.sending # -1 /\ (nwsys.type = "TDMA" \/ (nwsys.type = "FLEXRAY" /\ InStatic(nwsys)))
        => Owner(nwsys) = nwsys.sending
  BY <1>1 DEF Sound, Slots, Flex, Segments, InSlotTime
<1> QED BY <1>2, <1>3, <1>4, <1>5 DEF TransmissionsAreSound

LEMMA NetTypes ==
  ASSUME NetInv
  PROVE  NetworkTypeOK
<1>1. Sound(nwsys, nwsys.prevHit) /\ Net(nwsys) /\ Queues(nwsys) /\ Scalars(nwsys)
      /\ nwsys.prevHit <= nwsys.time
  BY SoundFacts DEF NetInv
<1>2. ASSUME NEW i \in Node
      PROVE  /\ nwsys.preprocQ[i] \in Seq(NWmsg) /\ nwsys.inputQ[i] \in Seq(NWmsg)
             /\ nwsys.outputQ[i] \in Seq(NWmsg) /\ nwsys.switchQ[i] \in Seq(NWmsg)
             /\ nwsys.postprocQ[i] \in Seq(NWmsg)
             /\ nwsys.statpreprocQ[i] \in Seq(NWmsg) /\ nwsys.statinputQ[i] \in Seq(NWmsg)
  BY <1>1 DEF Queues
<1>3. ASSUME NEW i \in Node, NEW k \in 1 .. Len(nwsys.inputQ[i] \o nwsys.statinputQ[i])
      PROVE  Sender[(nwsys.inputQ[i] \o nwsys.statinputQ[i])[k].msg] = i
  <2> DEFINE q == nwsys.inputQ[i] \o nwsys.statinputQ[i]
  <2>1. q \in Seq(MsgFrom(i)) /\ k \in 1 .. Len(q)
    <3> DEFINE a == nwsys.inputQ[i]
               b == nwsys.statinputQ[i]
    <3>1. a \in Seq(MsgFrom(i)) /\ b \in Seq(MsgFrom(i))
      BY <1>1 DEF Queues
    <3>2. k \in 1 .. Len(q) /\ q = a \o b
      OBVIOUS
    <3> HIDE DEF a, b, q
    <3> QED BY <3>1, <3>2
  <2> HIDE DEF q
  <2>2. q[k] \in MsgFrom(i)
    BY <2>1
  <2>3. Sender[q[k].msg] = i
    BY <2>2 DEF MsgFrom
  <2> QED BY <2>3 DEF q
<1>4. ASSUME NEW i \in Node, NEW k \in 1 .. Len(nwsys.postprocQ[i])
      PROVE  i \in Receivers(nwsys.postprocQ[i][k].msg)
  <2>1. nwsys.postprocQ[i][k] \in MsgTo(i)
    BY <1>1, <1>4 DEF Queues
  <2> QED BY <2>1 DEF MsgTo
<1>5. ASSUME NEW i \in Node
      PROVE  nwsys.state[i] \in {0, 1, 2, 3} /\ nwsys.swstate[i] \in {0, 1} /\ nwsys.collisions[i] \in 0 .. 10
  <2>1. nwsys.state[i] \in 0 .. 3
    BY <1>1 DEF Scalars
  <2>2. nwsys.swstate[i] \in {0, 1}
    BY <1>1 DEF Scalars
  <2>3. nwsys.collisions[i] \in 0 .. 10
    BY <1>1 DEF Scalars
  <2> QED BY <2>1, <2>2, <2>3
<1>6. nwsys.sending \in Node \cup {-1} /\ nwsys.rrturn \in Node /\ nwsys.schedule \in Seq(Node \cup {-1})
      /\ nwsys.schedule # << >>
  BY <1>1 DEF Scalars
<1>7. Len(nwsys.schedule) \in Nat \ {0}
  BY <1>6
<1>8. nwsys.slotcount \in -1 .. Len(nwsys.schedule) - (IF nwsys.type = "FLEXRAY" THEN 0 ELSE 1)
  <2>1. CASE nwsys.type = "TDMA"
    BY <1>1, <2>1 DEF Sound, Slots
  <2>2. CASE nwsys.type = "FLEXRAY"
    BY <1>1, <1>7, <2>2 DEF Sound, Flex, Segments
  <2>3. CASE nwsys.type \notin {"TDMA", "FLEXRAY"}
    <3>1. nwsys.slotcount = -1
      BY <1>1, <2>3 DEF Sound
    <3> QED BY <1>7, <2>3, <3>1
  <2> QED BY <2>1, <2>2, <2>3
<1>9. nwsys.miniSlotCount \in -1 .. Len(DynSchedule) - 1
  <2>1. Len(DynSchedule) \in Nat /\ nwsys.miniSlotCount \in Int
    BY <1>1, FlexRayAssumption DEF Scalars
  <2>2. nwsys.type = "FLEXRAY" => nwsys.miniSlotCount >= -1 /\ nwsys.miniSlotCount < Len(DynSchedule)
    BY <1>1 DEF Sound, Flex, Segments
  <2>3. nwsys.type # "FLEXRAY" => nwsys.miniSlotCount = -1
    BY <1>1 DEF Sound
  <2> QED BY <2>1, <2>2, <2>3
<1> QED BY <1>1, <1>2, <1>3, <1>4, <1>5, <1>6, <1>8, <1>9 DEF NetworkTypeOK

LEMMA NetWakes ==
  ASSUME NetInv, WakeInv
  PROVE  NetworkWakesUp
<1>1. Sound(nwsys, nwsys.prevHit) /\ Net(nwsys) /\ nwsys.type \in Kinds
  BY SoundFacts DEF NetInv
<1> SUFFICES ASSUME HasRun, ~ MustRun
             PROVE  /\ \A t \in Due : nwsys.nextHit <= t
                    /\ \A i \in Node : nwsys.state[i] = 0 /\ nwsys.inputQ[i] # << >> => MayWait(i)
  BY DEF NetworkWakesUp
<1>2. Awake(nwsys)
  BY DEF WakeInv
<1>3. ASSUME NEW i \in Node, nwsys.state[i] = 1 PROVE SendingTime(i) = NeedsTime(nwsys, i)
  <2>1. CASE nwsys.type # "FLEXRAY"
    BY <2>1 DEF SendingTime, NeedsTime, Segment
  <2>2. CASE nwsys.type = "FLEXRAY" /\ InStatic(nwsys)
    BY <2>2 DEF SendingTime, NeedsTime, Segment, InDynamic
  <2>3. CASE nwsys.type = "FLEXRAY" /\ ~ InStatic(nwsys)
    <3>1. nwsys.sending = i /\ nwsys.sending # -1
      BY <1>1, <1>3, <2>3, NodeFacts DEF Sound, Flex, OneSends
    <3>2. InDynamic(nwsys)
      BY <1>1, <2>3, <3>1 DEF Sound, Flex, Segments
    <3> QED BY <2>3, <3>2 DEF SendingTime, NeedsTime, Segment, Minislots
  <2> QED BY <2>1, <2>2, <2>3
<1>4. ASSUME NEW i \in Node, nwsys.state[i] = 1 PROVE nwsys.nextHit <= nwsys.prevHit + SendingTime(i)
  BY <1>2, <1>3, <1>4 DEF Awake
<1>5. \A i \in Node : nwsys.type = "CSMACD" /\ nwsys.state[i] = 3 => nwsys.nextHit <= nwsys.until[i]
  BY <1>2 DEF Awake, Waiting
<1>6. ASSUME NEW t \in Due PROVE nwsys.nextHit <= t
  <2>1. ASSUME NEW r \in Node, nwsys.swstate[r] = 1
        PROVE  nwsys.nextHit <= nwsys.prevHit + Head(nwsys.switchQ[r]).remaining \div Datarate
    BY <1>2, <2>1 DEF Awake
  <2>2. ASSUME NEW r \in Node, NEW k \in 1 .. Len(nwsys.outputQ[r])
        PROVE  nwsys.nextHit <= nwsys.outputQ[r][k].waituntil
    BY <1>2 DEF Awake
  <2>3. ASSUME NEW i \in Node
        PROVE  /\ nwsys.preprocQ[i] # << >> /\ nwsys.inputQ[i] = << >>
                    => nwsys.nextHit <= Head(nwsys.preprocQ[i]).waituntil
               /\ nwsys.statpreprocQ[i] # << >> /\ nwsys.statinputQ[i] = << >>
                    => nwsys.nextHit <= Head(nwsys.statpreprocQ[i]).waituntil
    BY <1>2 DEF Awake
  <2>4. nwsys.type \in {"RR", "NCM"} /\ nwsys.sending = -1 => nwsys.nextHit <= nwsys.waituntil
    BY <1>2 DEF Awake
  <2>5. nwsys.type = "TDMA" => nwsys.nextHit <= SlotEnd(nwsys)
    BY <1>2 DEF Awake
  <2>6. CASE t \in {nwsys.prevHit + SendingTime(i) : i \in {j \in Node : nwsys.state[j] = 1}}
    BY <1>4, <2>6
  <2>7. CASE t \in {nwsys.prevHit + Head(nwsys.switchQ[r]).remaining \div Datarate :
                      r \in {n \in Node : nwsys.swstate[n] = 1}}
    BY <2>1, <2>7
  <2>8. CASE t \in {nwsys.until[i] : i \in {j \in Node : nwsys.type = "CSMACD" /\ nwsys.state[j] = 3}}
    BY <1>5, <2>8
  <2>9. CASE t \in UNION {{nwsys.outputQ[r][k].waituntil : k \in 1 .. Len(nwsys.outputQ[r])} : r \in Node}
    BY <2>2, <2>9
  <2>10. CASE t \in {Head(nwsys.preprocQ[i]).waituntil :
                       i \in {j \in Node : nwsys.preprocQ[j] # << >> /\ nwsys.inputQ[j] = << >>}}
    BY <2>3, <2>10
  <2>11. CASE t \in {Head(nwsys.statpreprocQ[i]).waituntil :
                       i \in {j \in Node : nwsys.statpreprocQ[j] # << >> /\ nwsys.statinputQ[j] = << >>}}
    BY <2>3, <2>11
  <2>12. CASE t \in (IF nwsys.type \in {"RR", "NCM"} /\ nwsys.sending = -1 THEN {nwsys.waituntil} ELSE {})
    BY <2>4, <2>12
  <2>13. CASE t \in (IF nwsys.type = "TDMA" THEN {SlotEnd(nwsys)} ELSE {})
    BY <2>5, <2>13
  <2> QED BY <2>6, <2>7, <2>8, <2>9, <2>10, <2>11, <2>12, <2>13 DEF Due
<1>7. \A i \in Node : MayWait(i) <=> Held(nwsys, i)
  BY DEF MayWait, Held
<1> QED BY <1>2, <1>6, <1>7 DEF Awake

\* The queues of every node hold its own messages, the counters keep their ranges
\* and no call is before the one it follows, in every protocol.
THEOREM NetworkTypes ==
  ASSUME DiscardsElsewhere
  PROVE  Spec => []NetworkTypeOK
<1>1. Init => NetInv
  BY InitSound
<1>2. NetInv /\ [Next]_vars => NetInv'
  BY NextSound
<1>3. NetInv => NetworkTypeOK
  BY NetTypes
<1> QED BY <1>1, <1>2, <1>3, PTL DEF Spec

\* One node at a time sends on a shared medium, the owner of the slot where there
\* are slots; who sends has a frame to send, and all the other frames are whole.
THEOREM NetworkTransmits ==
  ASSUME DiscardsElsewhere
  PROVE  Spec => []TransmissionsAreSound
<1>1. Init => NetInv
  BY InitSound
<1>2. NetInv /\ [Next]_vars => NetInv'
  BY NextSound
<1>3. NetInv => TransmissionsAreSound
  BY NetTransmits
<1> QED BY <1>1, <1>2, <1>3, PTL DEF Spec

\* nextHit is never later than what the block has to do next, and a node keeps a
\* frame only while its protocol makes it wait: no frame is forgotten.
THEOREM NetworkAwakes ==
  ASSUME DiscardsElsewhere
  PROVE  Spec => []NetworkWakesUp
<1>1. Init => NetInv /\ WakeInv
  BY InitSound, InitAwake
<1>2. NetInv /\ WakeInv /\ [Next]_vars => NetInv' /\ WakeInv'
  BY NextSound, NextAwake
<1>3. NetInv /\ WakeInv => NetworkWakesUp
  BY NetWakes
<1> QED BY <1>1, <1>2, <1>3, PTL DEF Spec

LEMMA ProtocolAccounts ==
  ASSUME NEW S, NEW e \in Nat, Sound(S, S.time - e), NEW s \in Drawn(Protocol(S, e)), Ran(S, s),
         Accounted(S)
  PROVE  Accounted(s)
<1>1. Net(S) /\ S.type \in Kinds /\ Net(s)
  BY SoundFacts DEF Ran
<1> DEFINE p == Protocol(S, e)
<1>2. p = Protocol(S, e) /\ s \in Drawn(p)
  OBVIOUS
<1> HIDE DEF p
<1>3. CASE S.type = "CSMACD"
  <2>1. p = CSMACD(S, e) /\ S.type = "CSMACD" /\ Lines(S) /\ OneSends(S) /\ Apart(S)
    BY <1>2, <1>3 DEF Protocol, Sound, OneMedium
  <2>2. p.type = "CSMACD"
    BY <1>1, <2>1, CSMACDCollides
  <2>3. PICK draw \in Draws(p) : s = Backoff(p, draw)
    BY <1>2, <2>2 DEF Drawn
  <2> DEFINE F == {"inputQ", "outputQ", "state", "sending", "nextHit", "lasttime", "collisions", "until"}
  <2>4. Same(S, s, F)
    BY <1>1, <2>1, <2>3, CSMACDFacts
  <2>5. F \cap {"buftype", "switchmem", "nodemem", "switchQ"} = {}
    OBVIOUS
  <2> HIDE DEF F
  <2> QED BY <1>1, <2>4, <2>5, AccountedElsewhere
<1>4. ASSUME S.type # "CSMACD", p.type = S.type PROVE s = p
  BY <1>2, <1>4 DEF Drawn
<1>5. CASE S.type = "SFDSE"
  <2>1. p = SFDSE(S, e) /\ S.type = "SFDSE" /\ Lines(S) /\ Outputs(S)
    BY <1>2, <1>5 DEF Protocol, Sound
  <2>2. p.type = S.type
    <3>1. Same(S, p, SFDSEFields)
      BY <1>1, <2>1, SFDSEFacts
    <3> QED BY <3>1 DEF Same, Fields, SFDSEFields
  <2>3. s = SFDSE(S, e)
    BY <1>4, <2>1, <2>2
  <2> QED BY <1>1, <2>1, <2>3, SFDSEAccounts
<1>6. ASSUME NEW F, Same(S, p, F), F \cap {"type", "buftype", "switchmem", "nodemem", "switchQ"} = {},
             S.type # "CSMACD"
      PROVE  Accounted(s)
  <2>1. p.type = S.type
    BY <1>6 DEF Same, Fields
  <2>2. s = p /\ F \cap {"buftype", "switchmem", "nodemem", "switchQ"} = {}
    BY <1>4, <1>6, <2>1
  <2> QED BY <1>1, <1>6, <2>2, AccountedElsewhere
<1>7. CASE S.type = "CSMAAMP"
  <2>1. p = CSMAAMP(S, e) /\ S.type = "CSMAAMP" /\ Lines(S) /\ OneSends(S)
    BY <1>2, <1>7 DEF Protocol, Sound, OneMedium
  <2> DEFINE F == {"inputQ", "outputQ", "state", "sending", "nextHit", "lasttime"}
  <2>2. Same(S, p, F)
    BY <1>1, <2>1, CSMAAMPFacts
  <2>3. F \cap {"type", "buftype", "switchmem", "nodemem", "switchQ"} = {}
    OBVIOUS
  <2> HIDE DEF F
  <2> QED BY <1>6, <2>1, <2>2, <2>3
<1>8. CASE S.type \in {"RR", "NCM"}
  <2>1. p = TokenBus(S, e) /\ S.type \in {"RR", "NCM"} /\ Lines(S) /\ OneSends(S)
    BY <1>2, <1>8 DEF Protocol, Sound, OneMedium
  <2> DEFINE F == {"inputQ", "outputQ", "state", "sending", "nextHit", "rrturn", "waituntil"}
  <2>2. Same(S, p, F)
    BY <1>1, <2>1, TokenBusFacts
  <2>3. F \cap {"type", "buftype", "switchmem", "nodemem", "switchQ"} = {}
    OBVIOUS
  <2> HIDE DEF F
  <2> QED BY <1>6, <2>1, <2>2, <2>3
<1>9. CASE S.type = "FDMA"
  <2>1. p = FDMA(S, e) /\ S.type = "FDMA" /\ Lines(S)
    BY <1>2, <1>9 DEF Protocol, Sound
  <2> DEFINE F == {"inputQ", "outputQ", "state", "nextHit"}
  <2>2. Same(S, p, F)
    BY <1>1, <2>1, FDMAFacts
  <2>3. F \cap {"type", "buftype", "switchmem", "nodemem", "switchQ"} = {}
    OBVIOUS
  <2> HIDE DEF F
  <2> QED BY <1>6, <2>1, <2>2, <2>3
<1>10. CASE S.type = "TDMA"
  <2>1. p = TDMA(S, e) /\ S.type = "TDMA" /\ Lines(S) /\ OneSends(S) /\ Slots(S)
    BY <1>2, <1>10 DEF Protocol, Sound, OneMedium
  <2> DEFINE F == {"inputQ", "outputQ", "state", "sending", "nextHit", "slotcount", "currslottime"}
  <2>2. Same(S, p, F)
    BY <1>1, <2>1, TDMAFacts
  <2>3. F \cap {"type", "buftype", "switchmem", "nodemem", "switchQ"} = {}
    OBVIOUS
  <2> HIDE DEF F
  <2> QED BY <1>6, <2>1, <2>2, <2>3
<1>11. CASE S.type = "FLEXRAY"
  <2>1. p = FlexRay(S, e) /\ S.type # "CSMACD" /\ Flex(S, S.time - e) /\ S.miniSlotCount < Len(DynSchedule)
    BY <1>2, <1>11 DEF Protocol, Sound
  <2>2. Same(S, p, FlexFields)
    BY <2>1, FlexRayFacts
  <2>3. FlexFields \cap {"type", "buftype", "switchmem", "nodemem", "switchQ"} = {}
    BY DEF FlexFields
  <2> QED BY <1>6, <2>1, <2>2, <2>3
<1> QED BY <1>1, <1>3, <1>5, <1>7, <1>8, <1>9, <1>10, <1>11 DEF Kinds

LEMMA RunAccounts ==
  ASSUME NetInv, RunNetwork, Accounted(nwsys)
  PROVE  Accounted(nwsys')
<1>1. PICK S, p, e, s, lost : RunSteps(S, p, e, s, lost)
  BY RunInSteps
<1> DEFINE F1 == {"prevHit", "nextHit"}
           F2 == {"preprocQ", "inputQ", "statpreprocQ", "statinputQ", "nextHit"}
           F3 == {"outputQ", "postprocQ", "outputs", "nextHit"}
<1>2. /\ Same(nwsys, S, F1) /\ Same(S, p, F2) /\ Net(nwsys) /\ Net(S) /\ Net(p) /\ Net(s)
  BY <1>1, SoundFacts DEF RunSteps, NetInv
<1>3. Sound(p, p.time - e) /\ e \in Nat /\ s \in Drawn(Protocol(p, e)) /\ Ran(p, s) /\ nwsys' = Postprocess(s, lost)
  BY <1>1 DEF RunSteps
<1>4. Net(nwsys') /\ Same(s, nwsys', F3)
  BY <1>2, <1>3, PostprocessFacts
<1>5. /\ F1 \cap {"buftype", "switchmem", "nodemem", "switchQ"} = {}
      /\ F2 \cap {"buftype", "switchmem", "nodemem", "switchQ"} = {}
      /\ F3 \cap {"buftype", "switchmem", "nodemem", "switchQ"} = {}
  OBVIOUS
<1> HIDE DEF F1, F2, F3
<1>6. Accounted(S)
  BY <1>2, <1>5, AccountedElsewhere
<1>7. Accounted(p)
  BY <1>2, <1>5, <1>6, AccountedElsewhere
<1>8. Accounted(s)
  BY <1>3, <1>7, ProtocolAccounts
<1> QED BY <1>2, <1>4, <1>5, <1>8, AccountedElsewhere

LEMMA NextAccounts ==
  ASSUME NetInv, NetInv', Accounted(nwsys), [Next]_vars
  PROVE  Accounted(nwsys')
<1>1. Net(nwsys) /\ Net(nwsys') /\ IsNet(nwsys)
  BY SoundFacts DEF NetInv
<1>2. CASE RunNetwork
  BY <1>2, RunAccounts
<1>3. ASSUME NEW F, Same(nwsys, nwsys', F), F \cap {"buftype", "switchmem", "nodemem", "switchQ"} = {}
      PROVE  Accounted(nwsys')
  BY <1>1, <1>3, AccountedElsewhere
<1> DEFINE F == {"time", "nextNode", "postprocQ", "preprocQ", "statpreprocQ", "inputQ"}
<1>4. F \cap {"buftype", "switchmem", "nodemem", "switchQ"} = {}
  OBVIOUS
<1>5. ASSUME Advance PROVE Same(nwsys, nwsys', F)
  BY <1>1, <1>5 DEF Same, IsNet, Fields, Advance
<1>6. ASSUME NEW m \in Message, SendMsg(m) PROVE Same(nwsys, nwsys', F)
  <2>1. nwsys' = EnqueueStatic(nwsys, m) \/ nwsys' = EnqueueMsg(nwsys, m)
    BY <1>6 DEF SendMsg, Enqueue
  <2>2. CASE nwsys' = EnqueueStatic(nwsys, m)
    BY <1>1, <2>2, ZenonT(30) DEF Same, IsNet, Fields, EnqueueStatic
  <2>3. CASE nwsys' = EnqueueMsg(nwsys, m)
    BY <1>1, <2>3, ZenonT(30) DEF Same, IsNet, Fields, EnqueueMsg
  <2> QED BY <2>1, <2>2, <2>3
<1>7. ASSUME NEW i \in Node, GetMsg(i) PROVE Same(nwsys, nwsys', F)
  BY <1>1, <1>7 DEF Same, IsNet, Fields, GetMsg, Dequeue
<1>8. ASSUME NEW i \in Node, DiscardUnsent(i) PROVE Same(nwsys, nwsys', F)
  BY <1>8, DiscardFacts DEF Same
<1>9. ASSUME NEW i \in Node, SetNextNode(i) PROVE Same(nwsys, nwsys', F)
  BY <1>1, <1>9 DEF Same, IsNet, Fields, SetNextNode
<1> HIDE DEF F
<1>10. CASE UNCHANGED vars
  BY <1>10 DEF vars
<1> QED BY <1>2, <1>3, <1>4, <1>5, <1>6, <1>7, <1>8, <1>9, <1>10 DEF Next

LEMMA InitAccounts ==
  ASSUME Init
  PROVE  Accounted(nwsys)
<1>1. /\ nwsys.switchmem = SwitchMem /\ nwsys.nodemem = [i \in Node |-> SwitchMem \div NbrOfNodes]
      /\ nwsys.switchQ = [i \in Node |-> << >>]
  BY DEF Init
<1>2. \A r \in Node : nwsys.nodemem[r] = SwitchMem \div NbrOfNodes /\ nwsys.switchQ[r] = << >>
  BY <1>1
<1>3. \A r \in Node : Bits(nwsys.switchQ[r]) = 0
  BY <1>2, BitsFacts
<1>4. SwitchMem \in Nat /\ NbrOfNodes \in Nat \ {0}
  BY SwitchMemAssumption, NodeFacts
<1>5. SwitchMem \div NbrOfNodes \in Nat
  BY <1>4
<1>6. BitsOf(nwsys) = [r \in Node |-> 0]
  BY <1>3 DEF BitsOf
<1>7. SumFunction(BitsOf(nwsys)) = 0
  BY <1>6, SumNothing
<1> QED BY <1>1, <1>2, <1>3, <1>4, <1>5, <1>7 DEF Accounted

\* The memory that the switch has not given out and that of the frames in its
\* outputs make up the memory of the switch: a frame that is sent again, dropped
\* or sent to many leaves no gap and takes none twice.
THEOREM NetworkAccounts ==
  ASSUME DiscardsElsewhere
  PROVE  Spec => []SwitchMemoryIsAccounted
<1>1. Init => NetInv /\ Accounted(nwsys)
  BY InitSound, InitAccounts
<1>2. NetInv /\ Accounted(nwsys) /\ [Next]_vars => NetInv' /\ Accounted(nwsys)'
  BY NextSound, NextAccounts
<1>3. Accounted(nwsys) => SwitchMemoryIsAccounted
  BY DEF Accounted, SwitchMemoryIsAccounted, BitsOf
<1> QED BY <1>1, <1>2, <1>3, PTL DEF Spec

-----------------------------------------------------------------------------
(***************************************************************************)
(* A call of the block as what is on the way from one node to another sees *)
(* it: Preprocess, the protocols on a bus and Postprocess.                 *)
(***************************************************************************)

\* What waits for its predelay is in the order in which it was sent.
WaitsInOrder(S) ==
  \A i \in Node : UpTo(S.preprocQ[i], S.time + Predelay[i]) /\ UpTo(S.statpreprocQ[i], S.time + Predelay[i])

LEMMA PreprocessLinks ==
  ASSUME NEW S, Net(S), WaitsInOrder(S), OneSegment(S), NEW s, s = Preprocess(S)
  PROVE  /\ WaitsInOrder(s) /\ OneSegment(s)
         /\ \A a, r \in Node : LinkView(s, a, r) = LinkView(S, a, r)
<1>1. /\ Net(s) /\ Same(S, s, {"preprocQ", "inputQ", "statpreprocQ", "statinputQ", "nextHit"})
      /\ \A i \in Node : /\ Scanned(S, s.nextHit, S.preprocQ[i], S.inputQ[i], s.preprocQ[i], s.inputQ[i])
                         /\ Scanned(S, s.nextHit, S.statpreprocQ[i], S.statinputQ[i],
                                    s.statpreprocQ[i], s.statinputQ[i])
  BY PreprocessGrows
<1>2. s.type = S.type /\ s.time = S.time /\ s.outputQ = S.outputQ /\ s.switchQ = S.switchQ
  BY <1>1 DEF Same, Fields
<1>3. S.time \in Nat
  BY DEF Net, Scalars
<1>4. ASSUME NEW a \in Node, NEW r \in Node
      PROVE  /\ LineOf(s.inputQ[a], s.preprocQ[a], r) = LineOf(S.inputQ[a], S.preprocQ[a], r)
             /\ UpTo(s.preprocQ[a], S.time + Predelay[a])
             /\ S.preprocQ[a] = << >> /\ S.inputQ[a] = << >> => s.preprocQ[a] = << >> /\ s.inputQ[a] = << >>
  <2>1. S.preprocQ[a] \in Seq(NWmsg) /\ S.inputQ[a] \in Seq(NWmsg) /\ s.preprocQ[a] \in Seq(NWmsg)
    BY <1>1, ViewFacts
  <2>2. UpTo(S.preprocQ[a], S.time + Predelay[a])
    BY DEF WaitsInOrder
  <2>3. Scanned(S, s.nextHit, S.preprocQ[a], S.inputQ[a], s.preprocQ[a], s.inputQ[a])
    BY <1>1
  <2>4. KeepsLine(S.preprocQ[a], S.inputQ[a], s.preprocQ[a], s.inputQ[a], S.time + Predelay[a], r)
    BY <1>3, <2>1, <2>2, <2>3, ScanLink
  <2> QED BY <2>4 DEF KeepsLine
<1>5. ASSUME NEW a \in Node, NEW r \in Node
      PROVE  /\ LineOf(s.statinputQ[a], s.statpreprocQ[a], r) = LineOf(S.statinputQ[a], S.statpreprocQ[a], r)
             /\ UpTo(s.statpreprocQ[a], S.time + Predelay[a])
             /\ S.statpreprocQ[a] = << >> /\ S.statinputQ[a] = << >>
                  => s.statpreprocQ[a] = << >> /\ s.statinputQ[a] = << >>
  <2>1. S.statpreprocQ[a] \in Seq(NWmsg) /\ S.statinputQ[a] \in Seq(NWmsg) /\ s.statpreprocQ[a] \in Seq(NWmsg)
    BY <1>1, ViewFacts
  <2>2. UpTo(S.statpreprocQ[a], S.time + Predelay[a])
    BY DEF WaitsInOrder
  <2>3. Scanned(S, s.nextHit, S.statpreprocQ[a], S.statinputQ[a], s.statpreprocQ[a], s.statinputQ[a])
    BY <1>1
  <2>4. KeepsLine(S.statpreprocQ[a], S.statinputQ[a], s.statpreprocQ[a], s.statinputQ[a], S.time + Predelay[a], r)
    BY <1>3, <2>1, <2>2, <2>3, ScanLink
  <2> QED BY <2>4 DEF KeepsLine
<1>6. WaitsInOrder(s)
  BY <1>2, <1>4, <1>5 DEF WaitsInOrder
<1>7. OneSegment(s)
  BY <1>2, <1>4, <1>5 DEF OneSegment
<1>8. ASSUME NEW a \in Node, NEW r \in Node PROVE LinkView(s, a, r) = LinkView(S, a, r)
  <2>1. Ahead(s, a, r) = Ahead(S, a, r)
    BY <1>2 DEF Ahead
  <2> QED BY <1>4, <1>5, <2>1 DEF LinkView
<1> QED BY <1>6, <1>7, <1>8

\* Nobody but the switch keeps frames between inputQ and outputQ.
BusLinks(S) ==
  /\ WaitsInOrder(S) /\ OneSegment(S)
  /\ \A r \in Node : S.switchQ[r] = << >> /\ UpTo(S.outputQ[r], S.time + Postdelay[r])

\* What is on the way from a to r: out has been sent, in and pre have not.
Through(a, r, out, in, pre) == From(a, out) \o LineOf(in, pre, r)

LEMMA BusView ==
  ASSUME NEW S, Net(S), BusLinks(S), NEW a \in Node, NEW r \in Node
  PROVE  LinkView(S, a, r) =
           IF S.type = "FLEXRAY" /\ StaticNode(a)
           THEN Through(a, r, S.outputQ[r], S.statinputQ[a], S.statpreprocQ[a])
           ELSE Through(a, r, S.outputQ[r], S.inputQ[a], S.preprocQ[a])
<1>1. OneSegment(S) /\ S.switchQ[r] = << >>
  BY DEF BusLinks
<1>2. From(a, S.switchQ[r]) = << >>
  BY <1>1, FromSmall
<1>3. From(a, S.outputQ[r]) \in Seq(Message)
  BY ViewFacts
<1>4. Ahead(S, a, r) = From(a, S.outputQ[r])
  BY <1>2, <1>3, ConcatEmptySeq DEF Ahead
<1> QED BY <1>1, <1>4, SegmentView DEF Through

LEMMA LineTypes ==
  ASSUME NEW r, NEW q \in Seq(NWmsg), NEW p \in Seq(NWmsg)
  PROVE  To(r, q) \in Seq(Message) /\ To(r, p) \in Seq(Message) /\ LineOf(q, p, r) \in Seq(Message)
<1>1. To(r, q) \in Seq(Message) /\ To(r, p) \in Seq(Message)
  BY FromConcat
<1> QED BY <1>1, ConcatProperties DEF LineOf

KeepsLink(a, r, p, out, in, out2, in2) ==
  /\ Through(a, r, out2, in2, p) = Through(a, r, out, in, p)
  /\ in = << >> => in2 = << >> /\ From(a, out2) = From(a, out)

LEMMA CarriesThrough ==
  ASSUME NEW B \in SUBSET Node, NEW t, NEW in, NEW in2, NEW out, NEW out2,
         Carries(B, t, in, in2, out, out2),
         NodeQueues(in), NodeQueues(in2), NodeQueues(out), NodeQueues(out2),
         NEW a \in Node, NEW r \in Node, NEW p \in Seq(NWmsg)
  PROVE  KeepsLink(a, r, p, out[r], in[a], out2[r], in2[a])
<1>1. /\ in \in [Node -> Seq(NWmsg)] /\ in2 \in [Node -> Seq(NWmsg)]
      /\ out \in [Node -> Seq(NWmsg)] /\ out2 \in [Node -> Seq(NWmsg)]
  BY DEF NodeQueues
<1>2. Coming(a, r, out2[r], in2[a]) = Coming(a, r, out[r], in[a])
  BY CarriesLink
<1>3. in[a] \in Seq(NWmsg) /\ in2[a] \in Seq(NWmsg) /\ out[r] \in Seq(NWmsg) /\ out2[r] \in Seq(NWmsg)
  BY <1>1
<1>4. /\ To(r, in[a]) \in Seq(Message) /\ To(r, in2[a]) \in Seq(Message) /\ To(r, p) \in Seq(Message)
      /\ From(a, out[r]) \in Seq(Message) /\ From(a, out2[r]) \in Seq(Message)
  BY <1>3, FromConcat
<1>5. Regroups(From(a, out[r]), To(r, in[a]), To(r, p)) /\ Regroups(From(a, out2[r]), To(r, in2[a]), To(r, p))
  BY <1>4, ConcatRegroups
<1>6. Through(a, r, out2[r], in2[a], p) = Through(a, r, out[r], in[a], p)
  BY <1>2, <1>5 DEF Regroups, Through, LineOf, Coming
<1>7. ASSUME in[a] = << >> PROVE in2[a] = << >> /\ From(a, out2[r]) = From(a, out[r])
  <2>1. in2[a] = << >>
    BY <1>7, CarriesEmpty
  <2>2. To(r, in[a]) = << >> /\ To(r, in2[a]) = << >>
    BY <1>7, <2>1, FromSmall
  <2>3. From(a, out[r]) \o << >> = From(a, out[r]) /\ From(a, out2[r]) \o << >> = From(a, out2[r])
    BY <1>4, ConcatEmptySeq
  <2> QED BY <1>2, <2>1, <2>2, <2>3 DEF Coming
<1> QED BY <1>6, <1>7 DEF KeepsLink

-----------------------------------------------------------------------------
\* What a protocol on a bus does to the frames
BusCarries(S, s) ==
  /\ s.switchQ = S.switchQ
  /\ IF S.type = "FLEXRAY" THEN FlexCarries(S, s)
     ELSE /\ Carries(NodesOf(S.state), S.time, S.inputQ, s.inputQ, S.outputQ, s.outputQ)
          /\ s.statinputQ = S.statinputQ

LEMMA ProtocolCarries ==
  ASSUME NEW S, NEW e \in Nat, Sound(S, S.time - e), S.type # "SFDSE", NEW s \in Drawn(Protocol(S, e)),
         Ran(S, s)
  PROVE  BusCarries(S, s)
<1> DEFINE p == Protocol(S, e)
<1>1. Net(S) /\ S.type \in Kinds
  BY SoundFacts
<1>2. CASE S.type = "CSMACD"
  <2>1. p = CSMACD(S, e)
    BY <1>2 DEF Protocol
  <2>2. S.type = "CSMACD" /\ Lines(S) /\ OneSends(S) /\ Apart(S)
    BY <1>2 DEF Sound, OneMedium
  <2>3. p.type = "CSMACD"
    BY <1>1, <2>1, <2>2, CSMACDCollides
  <2>4. PICK draw \in Draws(p) : s = Backoff(p, draw)
    BY <2>3 DEF Drawn
  <2> HIDE DEF p
  <2>5. /\ Same(S, s, {"inputQ", "outputQ", "state", "sending", "nextHit", "lasttime", "collisions", "until"})
        /\ Carries(NodesOf(S.state), S.time, S.inputQ, s.inputQ, S.outputQ, s.outputQ)
    BY <1>1, <2>1, <2>2, <2>4, CSMACDFacts
  <2>6. s.switchQ = S.switchQ /\ s.statinputQ = S.statinputQ
    BY <2>5 DEF Same, Fields
  <2> QED BY <1>2, <2>5, <2>6 DEF BusCarries
<1>3. CASE S.type = "CSMAAMP"
  <2>1. s = CSMAAMP(S, e)
    <3>1. p = CSMAAMP(S, e)
      BY <1>3 DEF Protocol
    <3>2. p.type = S.type
      <4>1. Ran(S, CSMAAMP(S, e))
        BY <1>3, CSMAAMPRuns
      <4> QED BY <3>1, <4>1 DEF Ran, Same, Fields, RunFields
    <3> QED BY <1>3, <3>1, <3>2 DEF Drawn
  <2>2. Lines(S) /\ OneSends(S)
    BY <1>3 DEF Sound, OneMedium
  <2>5. /\ Same(S, s, {"inputQ", "outputQ", "state", "sending", "nextHit", "lasttime"})
        /\ Carries(NodesOf(S.state), S.time, S.inputQ, s.inputQ, S.outputQ, s.outputQ)
    BY <1>1, <1>3, <2>1, <2>2, CSMAAMPFacts
  <2>6. s.switchQ = S.switchQ /\ s.statinputQ = S.statinputQ
    BY <2>5 DEF Same, Fields
  <2> QED BY <1>3, <2>5, <2>6 DEF BusCarries
<1>4. CASE S.type \in {"RR", "NCM"}
  <2>1. s = TokenBus(S, e)
    <3>1. p = TokenBus(S, e)
      BY <1>4 DEF Protocol
    <3>2. p.type = S.type
      <4>1. Ran(S, TokenBus(S, e))
        BY <1>4, TokenBusRuns
      <4> QED BY <3>1, <4>1 DEF Ran, Same, Fields, RunFields
    <3> QED BY <1>4, <3>1, <3>2 DEF Drawn
  <2>2. Lines(S) /\ OneSends(S)
    BY <1>4 DEF Sound, OneMedium
  <2>5. /\ Same(S, s, {"inputQ", "outputQ", "state", "sending", "nextHit", "rrturn", "waituntil"})
        /\ Carries(NodesOf(S.state), S.time, S.inputQ, s.inputQ, S.outputQ, s.outputQ)
    BY <1>1, <1>4, <2>1, <2>2, TokenBusFacts
  <2>6. s.switchQ = S.switchQ /\ s.statinputQ = S.statinputQ
    BY <2>5 DEF Same, Fields
  <2> QED BY <1>4, <2>5, <2>6 DEF BusCarries
<1>5. CASE S.type = "FDMA"
  <2>1. s = FDMA(S, e)
    <3>1. p = FDMA(S, e)
      BY <1>5 DEF Protocol
    <3>2. p.type = S.type
      <4>1. Ran(S, FDMA(S, e))
        BY <1>5, FDMARuns
      <4> QED BY <3>1, <4>1 DEF Ran, Same, Fields, RunFields
    <3> QED BY <1>5, <3>1, <3>2 DEF Drawn
  <2>2. Lines(S)
    BY <1>5 DEF Sound
  <2>5. /\ Same(S, s, {"inputQ", "outputQ", "state", "nextHit"})
        /\ Carries(NodesOf(S.state), S.time, S.inputQ, s.inputQ, S.outputQ, s.outputQ)
    BY <1>1, <1>5, <2>1, <2>2, FDMAFacts
  <2>6. s.switchQ = S.switchQ /\ s.statinputQ = S.statinputQ
    BY <2>5 DEF Same, Fields
  <2> QED BY <1>5, <2>5, <2>6 DEF BusCarries
<1>6. CASE S.type = "TDMA"
  <2>1. s = TDMA(S, e)
    <3>1. p = TDMA(S, e)
      BY <1>6 DEF Protocol
    <3>2. p.type = S.type
      <4>1. Ran(S, TDMA(S, e))
        BY <1>6, TDMARuns
      <4> QED BY <3>1, <4>1 DEF Ran, Same, Fields, RunFields
    <3> QED BY <1>6, <3>1, <3>2 DEF Drawn
  <2>2. Lines(S) /\ OneSends(S) /\ Slots(S)
    BY <1>6 DEF Sound, OneMedium
  <2>5. /\ Same(S, s, {"inputQ", "outputQ", "state", "sending", "nextHit", "slotcount", "currslottime"})
        /\ Carries(NodesOf(S.state), S.time, S.inputQ, s.inputQ, S.outputQ, s.outputQ)
    BY <1>1, <1>6, <2>1, <2>2, TDMAFacts
  <2>6. s.switchQ = S.switchQ /\ s.statinputQ = S.statinputQ
    BY <2>5 DEF Same, Fields
  <2> QED BY <1>6, <2>5, <2>6 DEF BusCarries
<1>7. CASE S.type = "FLEXRAY"
  <2>1. s = FlexRay(S, e)
    <3>1. p = FlexRay(S, e)
      BY <1>7 DEF Protocol
    <3>2. p.type = S.type
      <4>1. Ran(S, FlexRay(S, e))
        BY <1>7, FlexRayRuns
      <4> QED BY <3>1, <4>1 DEF Ran, Same, Fields, RunFields
    <3> QED BY <1>7, <3>1, <3>2 DEF Drawn
  <2>2. Flex(S, S.time - e) /\ S.miniSlotCount < Len(DynSchedule)
    BY <1>7 DEF Sound
  <2>5. FlexCarries(S, s) /\ Same(S, s, FlexFields)
    BY <1>1, <2>1, <2>2, FlexRayFacts
  <2>6. s.switchQ = S.switchQ
    BY <2>5 DEF Same, Fields, FlexFields
  <2> QED BY <1>7, <2>5, <2>6 DEF BusCarries
<1> QED BY <1>1, <1>2, <1>3, <1>4, <1>5, <1>6, <1>7 DEF Kinds

\* The messages of every link stay what they are and keep their order.
LEMMA ProtocolLinks ==
  ASSUME NEW S, NEW last, Sound(S, last), NEW s, Ran(S, s), BusCarries(S, s), BusLinks(S)
  PROVE  /\ BusLinks(s)
         /\ \A a, r \in Node : LinkView(s, a, r) = LinkView(S, a, r)
<1>1. Net(S) /\ Net(s) /\ S.time \in Nat
  BY SoundFacts DEF Ran, Sound
<1>2. /\ s.type = S.type /\ s.time = S.time /\ s.preprocQ = S.preprocQ /\ s.statpreprocQ = S.statpreprocQ
      /\ s.switchQ = S.switchQ
  BY DEF Ran, Same, Fields, RunFields, BusCarries
<1>3. /\ NodeQueues(S.inputQ) /\ NodeQueues(s.inputQ) /\ NodeQueues(S.statinputQ) /\ NodeQueues(s.statinputQ)
      /\ NodeQueues(S.outputQ) /\ NodeQueues(s.outputQ)
  BY <1>1 DEF Net, Queues, NodeQueues
<1>4. \A i \in Node : S.preprocQ[i] \in Seq(NWmsg) /\ S.statpreprocQ[i] \in Seq(NWmsg)
  BY <1>1 DEF Net, Queues
<1>5. NodesOf(S.state) \in SUBSET Node
  BY DEF NodesOf
<1> DEFINE B == NodesOf(S.state)
<1> HIDE DEF B
<1>6. B \in SUBSET Node
  BY <1>5 DEF B
<1>7. ASSUME NEW i, NEW i2, Carries(B, S.time, i, i2, S.outputQ, s.outputQ), NodeQueues(i)
      PROVE  \A r \in Node : s.switchQ[r] = << >> /\ UpTo(s.outputQ[r], s.time + Postdelay[r])
  <2> SUFFICES ASSUME NEW r \in Node PROVE UpTo(s.outputQ[r], S.time + Postdelay[r])
    BY <1>2 DEF BusLinks
  <2>1. UpTo(S.outputQ[r], S.time + Postdelay[r])
    BY DEF BusLinks
  <2>2. S.time \in Int /\ S.time <= S.time
    BY <1>1
  <2> QED BY <1>1, <1>3, <1>7, <2>1, <2>2, CarriesWaits
<1>8. WaitsInOrder(s)
  BY <1>2 DEF WaitsInOrder, BusLinks
<1>9. CASE S.type = "FLEXRAY" /\ InStatic(S)
  <2>1. Carries(B, S.time, S.statinputQ, s.statinputQ, S.outputQ, s.outputQ) /\ s.inputQ = S.inputQ
    BY <1>9 DEF BusCarries, FlexCarries, B
  <2>2. ASSUME NEW a \in Node, NEW r \in Node
        PROVE  KeepsLink(a, r, S.statpreprocQ[a], S.outputQ[r], S.statinputQ[a], s.outputQ[r], s.statinputQ[a])
    BY <1>3, <1>4, <1>6, <2>1, CarriesThrough
  <2>3. OneSegment(s)
    BY <1>2, <2>1, <2>2 DEF OneSegment, BusLinks, KeepsLink
  <2>4. BusLinks(s)
    BY <1>3, <1>7, <1>8, <2>1, <2>3 DEF BusLinks
  <2>5. ASSUME NEW a \in Node, NEW r \in Node PROVE LinkView(s, a, r) = LinkView(S, a, r)
    <3>1. CASE StaticNode(a)
      <4>1. /\ LinkView(S, a, r) = Through(a, r, S.outputQ[r], S.statinputQ[a], S.statpreprocQ[a])
            /\ LinkView(s, a, r) = Through(a, r, s.outputQ[r], s.statinputQ[a], s.statpreprocQ[a])
        BY <1>1, <1>2, <1>9, <2>4, <3>1, BusView
      <4> QED BY <1>2, <2>2, <4>1 DEF KeepsLink
    <3>2. CASE ~ StaticNode(a)
      <4>1. /\ LinkView(S, a, r) = Through(a, r, S.outputQ[r], S.inputQ[a], S.preprocQ[a])
            /\ LinkView(s, a, r) = Through(a, r, s.outputQ[r], s.inputQ[a], s.preprocQ[a])
        BY <1>1, <1>2, <1>9, <2>4, <3>2, BusView
      <4>2. S.statinputQ[a] = << >>
        BY <3>2 DEF OneSegment, BusLinks
      <4>3. From(a, s.outputQ[r]) = From(a, S.outputQ[r])
        BY <2>2, <4>2 DEF KeepsLink
      <4> QED BY <1>2, <2>1, <4>1, <4>3 DEF Through
    <3> QED BY <3>1, <3>2
  <2> QED BY <2>4, <2>5
<1>10. CASE ~ (S.type = "FLEXRAY" /\ InStatic(S))
  <2>1. Carries(B, S.time, S.inputQ, s.inputQ, S.outputQ, s.outputQ) /\ s.statinputQ = S.statinputQ
    BY <1>10 DEF BusCarries, FlexCarries, B
  <2>2. ASSUME NEW a \in Node, NEW r \in Node
        PROVE  KeepsLink(a, r, S.preprocQ[a], S.outputQ[r], S.inputQ[a], s.outputQ[r], s.inputQ[a])
    BY <1>3, <1>4, <1>6, <2>1, CarriesThrough
  <2>3. OneSegment(s)
    BY <1>2, <2>1, <2>2 DEF OneSegment, BusLinks, KeepsLink
  <2>4. BusLinks(s)
    BY <1>3, <1>7, <1>8, <2>1, <2>3 DEF BusLinks
  <2>5. ASSUME NEW a \in Node, NEW r \in Node PROVE LinkView(s, a, r) = LinkView(S, a, r)
    <3>1. CASE ~ (S.type = "FLEXRAY" /\ StaticNode(a))
      <4>1. /\ LinkView(S, a, r) = Through(a, r, S.outputQ[r], S.inputQ[a], S.preprocQ[a])
            /\ LinkView(s, a, r) = Through(a, r, s.outputQ[r], s.inputQ[a], s.preprocQ[a])
        BY <1>1, <1>2, <2>4, <3>1, BusView
      <4> QED BY <1>2, <2>2, <4>1 DEF KeepsLink
    <3>2. CASE S.type = "FLEXRAY" /\ StaticNode(a)
      <4>1. /\ LinkView(S, a, r) = Through(a, r, S.outputQ[r], S.statinputQ[a], S.statpreprocQ[a])
            /\ LinkView(s, a, r) = Through(a, r, s.outputQ[r], s.statinputQ[a], s.statpreprocQ[a])
        BY <1>1, <1>2, <2>4, <3>2, BusView
      <4>2. S.inputQ[a] = << >>
        BY <3>2 DEF OneSegment, BusLinks
      <4>3. From(a, s.outputQ[r]) = From(a, S.outputQ[r])
        BY <2>2, <4>2 DEF KeepsLink
      <4> QED BY <1>2, <2>1, <4>1, <4>3 DEF Through
    <3> QED BY <3>1, <3>2
  <2> QED BY <2>4, <2>5
<1> QED BY <1>9, <1>10

\* Of the messages from a node, those that have waited come before the others.
DueInFront(S, r) ==
  \A a : InFront(S.outputQ[r], {m \in ToSet(S.outputQ[r]) : m.waituntil <= S.time}, MsgFrom(a))

LEMMA BusDue ==
  ASSUME NEW S, Net(S), NEW r \in Node, NEW t, UpTo(S.outputQ[r], t)
  PROVE  DueInFront(S, r)
<1> DEFINE q == S.outputQ[r]
<1>1. q \in Seq(NWmsg) /\ S.time \in Nat
  BY DEF Net, Queues, Scalars
<1>2. UpTo(q, t)
  OBVIOUS
<1> HIDE DEF q
<1>3. \A j \in 1 .. Len(q) : q[j].waituntil \in Nat /\ q[j] \in ToSet(q)
  <2>1. \A j \in 1 .. Len(q) : q[j] \in NWmsg
    BY <1>1
  <2> QED BY <2>1, MsgFacts DEF ToSet
<1> DEFINE D == {m \in ToSet(q) : m.waituntil <= S.time}
<1>4. ASSUME NEW a PROVE InFront(q, D, MsgFrom(a))
  <2> SUFFICES ASSUME NEW j \in 1 .. Len(q), NEW k \in 1 .. Len(q), j < k, q[j] \notin D
               PROVE  q[k] \notin D
    BY DEF InFront
  <2>1. q[j].waituntil > S.time
    BY <1>1, <1>3
  <2>2. q[j].waituntil <= q[k].waituntil
    BY <1>2 DEF UpTo
  <2>3. q[j].waituntil \in Nat /\ q[k].waituntil \in Nat
    BY <1>3
  <2> QED BY <1>1, <2>1, <2>2, <2>3
<1> QED BY <1>4 DEF DueInFront, q

\* What has come, and what is still on the way, is what was on the way.
Arrives(C, V, W, lossless) ==
  /\ IsSubsequence(C \o V, W)
  /\ lossless => C \o V = W

LEMMA PostArrives ==
  ASSUME NEW S, Net(S), NEW lost, NEW s, s = Postprocess(S, lost), NEW a \in Node, NEW r \in Node,
         DueInFront(S, r)
  PROVE  /\ From(a, s.postprocQ[r]) = From(a, S.postprocQ[r]) \o From(a, Come(S, lost, r))
         /\ From(a, Come(S, lost, r)) \in Seq(Message)
         /\ Arrives(From(a, Come(S, lost, r)), LinkView(s, a, r), LinkView(S, a, r), lost = {})
<1> DEFINE q == S.outputQ[r]
           D == {m \in ToSet(q) : m.waituntil <= S.time}
           L == {m \in ToSet(q) : m.waituntil > S.time}
           K == {m \in ToSet(q) : <<r, m.msg>> \notin lost}
           R == LineOf(S.inputQ[a], S.preprocQ[a], r) \o LineOf(S.statinputQ[a], S.statpreprocQ[a], r)
           W == From(a, S.switchQ[r])
<1>1. /\ Net(s) /\ Same(S, s, {"outputQ", "postprocQ", "outputs", "nextHit"})
      /\ \A n \in Node : s.outputQ[n] = Later(S, n) /\ s.postprocQ[n] = S.postprocQ[n] \o Come(S, lost, n)
  BY PostprocessFacts
<1>2. s.outputQ[r] = Later(S, r) /\ s.postprocQ[r] = S.postprocQ[r] \o Come(S, lost, r)
  BY <1>1
<1>3. /\ s.switchQ = S.switchQ /\ s.inputQ = S.inputQ /\ s.preprocQ = S.preprocQ
      /\ s.statinputQ = S.statinputQ /\ s.statpreprocQ = S.statpreprocQ
  BY <1>1 DEF Same, Fields
<1>4. /\ q \in Seq(NWmsg) /\ S.postprocQ[r] \in Seq(NWmsg) /\ S.time \in Nat
      /\ Later(S, r) \in Seq(NWmsg) /\ Come(S, lost, r) \in Seq(NWmsg)
  BY LaterFacts, ViewFacts DEF Net, Scalars
<1>5. OutputDue(S, r) = Among(q, D) /\ Later(S, r) = Among(q, L) /\ Come(S, lost, r) = Among(OutputDue(S, r), K)
  BY DEF OutputDue, Later, Come
<1>6. InFront(q, D, MsgFrom(a))
  BY DEF DueInFront
<1>7. \A k \in 1 .. Len(q) : q[k] \in L <=> q[k] \notin D
  <2> SUFFICES ASSUME NEW k \in 1 .. Len(q) PROVE q[k] \in L <=> q[k] \notin D
    OBVIOUS
  <2>1. q[k] \in NWmsg /\ q[k] \in ToSet(q)
    BY <1>4 DEF ToSet
  <2>2. q[k].waituntil \in Nat
    BY <2>1, MsgFacts
  <2> QED BY <1>4, <2>1, <2>2
<1>8. lost = {} => Come(S, lost, r) = OutputDue(S, r)
  <2> SUFFICES ASSUME lost = {} PROVE Come(S, lost, r) = OutputDue(S, r)
    OBVIOUS
  <2>1. OutputDue(S, r) \in Seq(NWmsg)
    BY <1>4, <1>5, AmongType
  <2>2. ToSet(OutputDue(S, r)) = ToSet(q) \cap D
    BY <1>4, <1>5, AmongElements
  <2>3. \A k \in 1 .. Len(OutputDue(S, r)) : OutputDue(S, r)[k] \in K
    <3>1. \A k \in 1 .. Len(OutputDue(S, r)) : OutputDue(S, r)[k] \in ToSet(OutputDue(S, r))
      BY <2>1 DEF ToSet
    <3> QED BY <2>2, <3>1
  <2> HIDE DEF K
  <2> QED BY <1>5, <2>1, <2>3, AmongAll
<1>9. R \in Seq(Message) /\ W \in Seq(Message) /\ LinkView(S, a, r) \in Seq(Message)
  BY ViewTypes, ViewFacts, ConcatProperties
<1>10. /\ LinkView(S, a, r) = (From(a, q) \o W) \o R
       /\ LinkView(s, a, r) = (From(a, Later(S, r)) \o W) \o R
  BY <1>2, <1>3 DEF LinkView, Ahead
<1> HIDE DEF q, D, L, K, R, W
<1>11. From(a, q) = From(a, OutputDue(S, r)) \o From(a, Later(S, r))
  <2>1. From(a, q) = From(a, Among(q, D)) \o From(a, Among(q, L))
    BY <1>4, <1>6, <1>7, FromSplit
  <2> QED BY <1>5, <2>1
<1>12. OutputDue(S, r) \in Seq(NWmsg)
  BY <1>4, <1>5, AmongType
<1> DEFINE d == From(a, OutputDue(S, r))
           l == From(a, Later(S, r))
           c == From(a, Come(S, lost, r))
           V == LinkView(s, a, r)
<1>13. d \in Seq(Message) /\ l \in Seq(Message) /\ c \in Seq(Message) /\ V \in Seq(Message)
  BY <1>1, <1>4, <1>12, FromConcat, ViewTypes
<1>14. From(a, s.postprocQ[r]) = From(a, S.postprocQ[r]) \o c
  BY <1>2, <1>4, FromConcat
<1>15. IsSubsequence(c, d)
  BY <1>5, <1>12, FromLosses
<1>20. lost = {} => c = d
  BY <1>8
<1>21. From(a, q) = d \o l /\ LinkView(S, a, r) = (From(a, q) \o W) \o R /\ V = (l \o W) \o R
  BY <1>10, <1>11
<1> HIDE DEF d, l, c, V
<1>16. d \o V = LinkView(S, a, r)
  <2>1. Regroups(d, l, W)
    BY <1>9, <1>13, ConcatRegroups
  <2>2. l \o W \in Seq(Message)
    BY <1>9, <1>13, ConcatProperties
  <2>3. Regroups(d, l \o W, R)
    BY <1>9, <1>13, <2>2, ConcatRegroups
  <2> QED BY <1>21, <2>1, <2>3 DEF Regroups
<1>17. IsSubsequence(V, V)
  BY <1>13, SubsequenceSelf
<1>18. IsSubsequence(c \o V, d \o V)
  BY <1>13, <1>15, <1>17, SubsequenceConcat
<1>19. Arrives(c, V, LinkView(S, a, r), lost = {})
  BY <1>16, <1>18, <1>20 DEF Arrives
<1> QED BY <1>13, <1>14, <1>19 DEF c, V

\* The order of what still waits
LEMMA PostBusLinks ==
  ASSUME NEW S, Net(S), BusLinks(S), NEW lost, NEW s, s = Postprocess(S, lost)
  PROVE  BusLinks(s) /\ \A r \in Node : DueInFront(S, r)
<1>1. /\ Same(S, s, {"outputQ", "postprocQ", "outputs", "nextHit"})
      /\ \A n \in Node : s.outputQ[n] = Later(S, n)
  BY PostprocessFacts
<1>2. /\ s.switchQ = S.switchQ /\ s.inputQ = S.inputQ /\ s.preprocQ = S.preprocQ /\ s.type = S.type
      /\ s.statinputQ = S.statinputQ /\ s.statpreprocQ = S.statpreprocQ /\ s.time = S.time
  BY <1>1 DEF Same, Fields
<1>3. WaitsInOrder(s) /\ OneSegment(s)
  BY <1>2 DEF WaitsInOrder, OneSegment, BusLinks
<1>4. ASSUME NEW r \in Node PROVE UpTo(s.outputQ[r], S.time + Postdelay[r]) /\ DueInFront(S, r)
  <2>1. s.outputQ[r] = Later(S, r) /\ S.outputQ[r] \in Seq(NWmsg) /\ Later(S, r) \in Seq(NWmsg)
    BY <1>1, LaterFacts, ViewFacts
  <2>2. UpTo(S.outputQ[r], S.time + Postdelay[r])
    BY DEF BusLinks
  <2>3. IsSubsequence(Later(S, r), S.outputQ[r])
    BY <2>1, AmongSubsequence DEF Later
  <2>4. UpTo(Later(S, r), S.time + Postdelay[r])
    BY <2>1, <2>2, <2>3, UpToParts
  <2> QED BY <2>1, <2>2, <2>4, BusDue
<1> QED BY <1>2, <1>3, <1>4 DEF BusLinks

-----------------------------------------------------------------------------
(***************************************************************************)
(* The switch keeps the order of the messages of a sender: its three loops *)
(* and what they bring from the nodes to outputQ.                          *)
(***************************************************************************)

\* Time passes: what has waited has waited, and the others wait less.
LEMMA WaitsLess ==
  ASSUME NEW x \in NWmsg, NEW t \in Int, NEW e \in Nat
  PROVE  WaitBits(x, t + e) <= WaitBits(x, t) /\ WaitBits(x, t) \in Int /\ WaitBits(x, t + e) \in Int
<1>1. t + e \in Int
  OBVIOUS
<1>2. WaitBits(x, t + e) \in Int
  BY <1>1, WaitLess, 0 \in Nat
<1> QED BY <1>2, WaitLess

LEMMA WaitsLater ==
  ASSUME NEW q \in Seq(NWmsg), NEW t \in Int, NEW e \in Nat
  PROVE  /\ \A w \in Int : WaitsUpTo(q, w) => WaitsUpTo(q, w + e)
         /\ HasWaited(q, t) => HasWaited(q, t + e)
         /\ InLine(q, t) => InLine(q, t + e)
<1>1. /\ Len(q) \in Nat
      /\ \A k \in 1 .. Len(q) : q[k] \in NWmsg /\ q[k].waituntil \in Nat /\ q[k].remaining \in Int
  BY ElementsOf
<1>2. \A w \in Int : WaitsUpTo(q, w) => WaitsUpTo(q, w + e)
  <2> SUFFICES ASSUME NEW w \in Int, WaitsUpTo(q, w), NEW k \in 1 .. Len(q) PROVE q[k].waituntil <= w + e
    BY DEF WaitsUpTo
  <2>1. q[k].waituntil <= w /\ q[k].waituntil \in Nat
    BY <1>1 DEF WaitsUpTo
  <2> QED BY <2>1
<1>3. ASSUME HasWaited(q, t) PROVE HasWaited(q, t + e)
  <2> SUFFICES ASSUME NEW j \in 1 .. Len(q), NEW k \in 1 .. Len(q), j < k, SameSender(q[j], q[k])
               PROVE  q[j].waituntil <= t + e
    BY DEF HasWaited
  <2>1. q[j].waituntil <= t /\ q[j].waituntil \in Nat
    BY <1>1, <1>3 DEF HasWaited
  <2> QED BY <2>1
<1>4. ASSUME InLine(q, t) PROVE InLine(q, t + e)
  <2> SUFFICES ASSUME NEW j \in 1 .. Len(q), NEW k \in 1 .. Len(q), j < k, SameSender(q[j], q[k])
               PROVE  WaitBits(q[j], t + e) <= q[k].remaining
    BY DEF InLine
  <2>1. WaitBits(q[j], t) <= q[k].remaining /\ q[k].remaining \in Int /\ q[j] \in NWmsg
    BY <1>1, <1>4 DEF InLine
  <2>2. WaitBits(q[j], t) \in Int /\ WaitBits(q[j], t + e) \in Int /\ WaitBits(q[j], t + e) <= WaitBits(q[j], t)
    BY <2>1, WaitsLess
  <2> QED BY <2>1, <2>2
<1> QED BY <1>2, <1>3, <1>4

LEMMA BehindLater ==
  ASSUME NEW out \in Seq(NWmsg), NEW sw \in Seq(NWmsg), NEW n, NEW t \in Int, NEW o \in Int, NEW e \in Nat,
         Behind(out, sw, n, t, o)
  PROVE  Behind(out, sw, n, t + e, o)
<1>1. /\ \A k \in 1 .. Len(out) : out[k] \in NWmsg
      /\ \A k \in 1 .. Len(sw) : sw[k].remaining \in Int
  BY ElementsOf
<1> SUFFICES ASSUME NEW j \in 1 .. Len(out), NEW k \in 1 .. Len(sw), SameSender(out[j], sw[k])
             PROVE  WaitBits(out[j], IF k = 1 /\ n = 1 THEN o ELSE t + e) <= sw[k].remaining
  BY DEF Behind
<1>2. WaitBits(out[j], IF k = 1 /\ n = 1 THEN o ELSE t) <= sw[k].remaining /\ sw[k].remaining \in Int
  BY <1>1 DEF Behind
<1>3. CASE k = 1 /\ n = 1
  BY <1>2, <1>3
<1>4. CASE ~ (k = 1 /\ n = 1)
  <2>1. WaitBits(out[j], t) \in Int /\ WaitBits(out[j], t + e) \in Int /\ WaitBits(out[j], t + e) <= WaitBits(out[j], t)
    BY <1>1, WaitsLess
  <2> QED BY <1>2, <1>4, <2>1
<1> QED BY <1>3, <1>4

\* Node a has been counted down.
LEMMA BehindAllLater ==
  ASSUME NEW q \in Seq(NWmsg), NEW a, NEW S, NEW s, NEW t \in Int, NEW e \in Nat,
         Head(S.inputQ[a]).remaining \in Int,
         Head(s.inputQ[a]).remaining = Head(S.inputQ[a]).remaining - Datarate * e,
         BehindAll(q, a, S, t)
  PROVE  BehindAll(q, a, s, t + e)
<1>1. \A k \in 1 .. Len(q) : q[k] \in NWmsg
  BY ElementsOf
<1> SUFFICES ASSUME NEW k \in 1 .. Len(q), Sender[q[k].msg] = a
             PROVE  WaitBits(q[k], t + e) <= Head(s.inputQ[a]).remaining + Minsize
  BY DEF BehindAll
<1>2. WaitBits(q[k], t) <= Head(S.inputQ[a]).remaining + Minsize
  BY DEF BehindAll
<1>3. WaitBits(q[k], t) \in Int /\ WaitBits(q[k], t + e) = WaitBits(q[k], t) - Datarate * e
  BY <1>1, WaitLess
<1> DEFINE d == Datarate * e
<1>4. d \in Int /\ Minsize \in Int
  BY FrameFacts
<1>5. WaitBits(q[k], t + e) = WaitBits(q[k], t) - d /\ Head(s.inputQ[a]).remaining = Head(S.inputQ[a]).remaining - d
  BY <1>3
<1> DEFINE u == WaitBits(q[k], t)
           h == Head(S.inputQ[a]).remaining
<1>6. u \in Int /\ h \in Int /\ u <= h + Minsize
  BY <1>2, <1>3
<1>7. WaitBits(q[k], t + e) = u - d /\ Head(s.inputQ[a]).remaining = h - d
  BY <1>5
<1> HIDE DEF d, u, h
<1>8. u - d <= (h - d) + Minsize
  BY <1>4, <1>6
<1> QED BY <1>7, <1>8

LEMMA SpendOrder ==
  ASSUME NEW S, Net(S), Lines(S), S.type = "SFDSE", NEW tau \in Int, NEW e \in Nat, S.time = tau + e,
         SwitchOrder(S, tau, tau), NEW t, t = Spend(S, NodesOf(S.state), e)
  PROVE  SwitchOrder(t, t.time, tau) /\ t.time = S.time
<1> DEFINE B == NodesOf(S.state)
<1>1. /\ IsNet(S) /\ Queues(S) /\ S.type \in Kinds
  BY NetFacts
<1>2. B \in SUBSET Node /\ (\A i \in B : i \in Node /\ S.state[i] = 1) /\ \A i \in Node : S.state[i] = 1 => i \in B
  BY DEF NodesOf
<1>4. Heads(S, B)
  <2>1. \A i \in B : Busy(MsgFrom(i), S.inputQ[i])
    BY <1>2 DEF Lines, Line, Sends
  <2> QED BY <2>1 DEF Heads, Busy
<1>5. t = Spend(S, B, e)
  OBVIOUS
<1>20. t.inputQ = [i \in Node |->
        IF i \in B THEN <<[Head(S.inputQ[i]) EXCEPT !.remaining = Head(S.inputQ[i]).remaining - Rate(S, i) * e]>> \o Tail(S.inputQ[i])
        ELSE S.inputQ[i]]
  BY <1>1, <1>5 DEF Spend, IsNet, Fields
<1> HIDE DEF B
<1>6. /\ Same(S, t, {"inputQ"})
      /\ \A i \in B : Head(t.inputQ[i]).remaining = Head(S.inputQ[i]).remaining - Rate(S, i) * e
      /\ \A i \in Node \ B : t.inputQ[i] = S.inputQ[i]
  BY <1>1, <1>2, <1>4, <1>5, SpendFacts
<1>7. /\ t.state = S.state /\ t.outputQ = S.outputQ /\ t.switchQ = S.switchQ
      /\ t.swstate = S.swstate /\ t.time = S.time
  BY <1>6 DEF Same, Fields
<1>8. \A i \in Node : Rate(S, i) = Datarate
  BY DEF Rate
<1>9. \A i \in B : Head(S.inputQ[i]) \in NWmsg /\ Head(S.inputQ[i]).remaining \in Int
                   /\ S.inputQ[i] \in Seq(NWmsg) /\ S.inputQ[i] # << >>
  <2> TAKE i \in B
  <2>1. S.inputQ[i] \in Seq(NWmsg) /\ S.inputQ[i] # << >>
    BY <1>1, <1>2, <1>4 DEF Heads, Queues
  <2>2. Head(S.inputQ[i]) \in NWmsg
    BY <2>1, HeadAndTail
  <2> QED BY <2>1, <2>2, MsgFacts
<1>10. /\ \A r \in Node : ReceiverOrder(S, r, tau, tau)
       /\ \A a \in Node : WaitsUpTo(S.inputQ[a], S.time)
  BY OrderParts
<1>11. ASSUME NEW r \in Node PROVE ReceiverOrder(t, r, tau + e, tau)
  <2>1. S.outputQ[r] \in Seq(NWmsg) /\ S.switchQ[r] \in Seq(NWmsg)
    BY <1>1 DEF Queues
  <2>2. tau + Postdelay[r] \in Int /\ (tau + Postdelay[r]) + e = (tau + e) + Postdelay[r]
    BY NodeFacts
  <2>3. ReceiverOrder(S, r, tau, tau)
    BY <1>10
  <2>4. HasWaited(S.outputQ[r], tau + e) /\ InLine(S.switchQ[r], tau + e)
    <3>1. HasWaited(S.outputQ[r], tau) /\ InLine(S.switchQ[r], tau)
      BY <2>3 DEF ReceiverOrder
    <3> QED BY <2>1, <3>1, WaitsLater
  <2>5. WaitsUpTo(S.outputQ[r], (tau + e) + Postdelay[r]) /\ WaitsUpTo(S.switchQ[r], (tau + e) + Postdelay[r])
    <3>1. WaitsUpTo(S.outputQ[r], tau + Postdelay[r]) /\ WaitsUpTo(S.switchQ[r], tau + Postdelay[r])
      BY <2>3 DEF ReceiverOrder
    <3>2. /\ WaitsUpTo(S.outputQ[r], (tau + Postdelay[r]) + e)
          /\ WaitsUpTo(S.switchQ[r], (tau + Postdelay[r]) + e)
      BY <2>1, <2>2, <3>1, WaitsLater
    <3> QED BY <2>2, <3>2
  <2>6. Behind(S.outputQ[r], S.switchQ[r], S.swstate[r], tau + e, tau)
    <3>1. Behind(S.outputQ[r], S.switchQ[r], S.swstate[r], tau, tau)
      BY <2>3 DEF ReceiverOrder
    <3> QED BY <2>1, <3>1, BehindLater
  <2>7. ASSUME NEW a \in Node, t.state[a] = 1
        PROVE  BehindAll(S.outputQ[r], a, t, tau + e) /\ BehindAll(S.switchQ[r], a, t, tau + e)
    <3>1. a \in B /\ S.state[a] = 1
      BY <1>2, <1>7, <2>7
    <3>2. BehindAll(S.outputQ[r], a, S, tau) /\ BehindAll(S.switchQ[r], a, S, tau)
      BY <2>3, <3>1 DEF ReceiverOrder
    <3>3. /\ Head(S.inputQ[a]).remaining \in Int
          /\ Head(t.inputQ[a]).remaining = Head(S.inputQ[a]).remaining - Datarate * e
      BY <1>6, <1>8, <1>9, <3>1
    <3> QED BY <2>1, <3>2, <3>3, BehindAllLater
  <2> QED BY <1>7, <2>4, <2>5, <2>6, <2>7 DEF ReceiverOrder
<1>12. ASSUME NEW a \in Node PROVE WaitsUpTo(t.inputQ[a], t.time)
  <2>1. WaitsUpTo(S.inputQ[a], t.time)
    BY <1>7, <1>10
  <2>2. CASE a \in B
    <3> DEFINE n == Head(S.inputQ[a]).remaining - Rate(S, a) * e
               q == S.inputQ[a]
               p == t.inputQ[a]
    <3>1. n \in Int
      BY <1>8, <1>9, <2>2, FrameFacts
    <3>2. p = <<[Head(q) EXCEPT !.remaining = n]>> \o Tail(q)
      BY <1>20, <2>2
    <3>3. q \in Seq(NWmsg) /\ q # << >>
      BY <1>9, <2>2
    <3>4. WaitsUpTo(q, t.time)
      BY <2>1
    <3> HIDE DEF n, q
    <3>5. Counted(q, p, n)
      BY <3>1, <3>2, <3>3 DEF Counted
    <3>6. WaitsUpTo(p, t.time)
      BY <3>4, <3>5, CountedWaits
    <3> QED BY <3>6
  <2>3. CASE a \notin B
    BY <1>6, <2>1, <2>3
  <2> QED BY <2>2, <2>3
<1>13. SwitchOrder(t, tau + e, tau)
  BY <1>11, <1>12, OrderParts
<1> QED BY <1>7, <1>13

\* A frame that a node starts to send is behind those of the node in the switch.
LEMMA StartBehind ==
  ASSUME ShortPostdelay, NEW r \in Node, NEW t \in Int, NEW q \in Seq(NWmsg), WaitsUpTo(q, t + Postdelay[r]),
         NEW a, NEW S, Idle(MsgFrom(a), S.inputQ[a]), S.inputQ[a] # << >>
  PROVE  BehindAll(q, a, S, t)
<1>1. \A k \in 1 .. Len(q) : q[k] \in NWmsg
  BY ElementsOf
<1>2. Head(S.inputQ[a]) \in Whole(MsgFrom(a))
  BY MsgFacts, IdleStarts
<1> DEFINE h == Head(S.inputQ[a])
<1>3. h \in Whole(MsgFrom(a)) /\ MsgFrom(a) \subseteq NWmsg
  BY <1>2, MsgFacts
<1>4. h.remaining = Head(S.inputQ[a]).remaining
  OBVIOUS
<1> HIDE DEF h
<1>5. h.remaining \in Int /\ h.remaining >= Minsize
  BY <1>3, WholeLong
<1> SUFFICES ASSUME NEW k \in 1 .. Len(q), Sender[q[k].msg] = a
             PROVE  WaitBits(q[k], t) <= h.remaining + Minsize
  BY <1>4 DEF BehindAll
<1>6. q[k] \in NWmsg /\ q[k].waituntil <= t + Postdelay[r]
  BY <1>1 DEF WaitsUpTo
<1>7. WaitBits(q[k], t) <= 2 * Minsize
  BY <1>6, WaitShort
<1>8. WaitBits(q[k], t) \in Int
  BY <1>6, WaitLess, 0 \in Nat
<1>9. Minsize \in Nat
  BY FrameFacts
<1> QED BY <1>5, <1>7, <1>8, <1>9

LEMMA StartAllOrder ==
  ASSUME NEW u, Net(u), Lines(u), Outputs(u), u.type = "SFDSE", ShortPostdelay, NEW o \in Int, SwitchOrder(u, u.time, o),
         NEW v, v = StartAll(u)
  PROVE  SwitchOrder(v, v.time, o) /\ v.time = u.time
<1>1. IsNet(u) /\ Queues(u) /\ u.time \in Nat
  BY NetFacts
<1>2. /\ v.inputQ = u.inputQ /\ v.outputQ = u.outputQ /\ v.switchQ = u.switchQ /\ v.swstate = u.swstate
      /\ v.time = u.time
      /\ \A a \in Node : v.state[a] = 1 => u.state[a] = 1 \/ (u.state[a] = 0 /\ u.inputQ[a] # << >>)
  BY <1>1 DEF StartAll, Hit, IsNet, Fields
<1>3. /\ \A r \in Node : ReceiverOrder(u, r, u.time, o)
      /\ \A a \in Node : WaitsUpTo(u.inputQ[a], u.time)
  BY OrderParts
<1>4. ASSUME NEW r \in Node PROVE ReceiverOrder(v, r, u.time, o)
  <2>1. u.outputQ[r] \in Seq(NWmsg) /\ u.switchQ[r] \in Seq(NWmsg) /\ u.time \in Int
    BY <1>1 DEF Queues
  <2>2. ReceiverOrder(u, r, u.time, o)
    BY <1>3
  <2>3. ASSUME NEW a \in Node, v.state[a] = 1
        PROVE  BehindAll(u.outputQ[r], a, v, u.time) /\ BehindAll(u.switchQ[r], a, v, u.time)
    <3>1. CASE u.state[a] = 1
      <4>1. BehindAll(u.outputQ[r], a, u, u.time) /\ BehindAll(u.switchQ[r], a, u, u.time)
        BY <2>2, <3>1 DEF ReceiverOrder
      <4> QED BY <1>2, <4>1 DEF BehindAll
    <3>2. CASE u.state[a] = 0 /\ u.inputQ[a] # << >>
      <4>1. Idle(MsgFrom(a), v.inputQ[a]) /\ v.inputQ[a] # << >>
        BY <1>2, <3>2 DEF Lines, Line, Sends
      <4>2. /\ WaitsUpTo(u.outputQ[r], u.time + Postdelay[r])
            /\ WaitsUpTo(u.switchQ[r], u.time + Postdelay[r])
        BY <2>2 DEF ReceiverOrder
      <4>3. BehindAll(u.outputQ[r], a, v, u.time)
        BY <2>1, <4>1, <4>2, StartBehind
      <4>4. BehindAll(u.switchQ[r], a, v, u.time)
        BY <2>1, <4>1, <4>2, StartBehind
      <4> QED BY <4>3, <4>4
    <3> QED BY <1>2, <2>3, <3>1, <3>2
  <2> QED BY <1>2, <2>2, <2>3 DEF ReceiverOrder
<1>5. SwitchOrder(v, u.time, o)
  BY <1>2, <1>3, <1>4, OrderParts
<1> QED BY <1>2, <1>5

\* An output of the switch has been counted down by what time has passed.
LEMMA BehindCounted ==
  ASSUME NEW out \in Seq(NWmsg), NEW q, NEW p, NEW n, Counted(q, p, n), NEW t \in Int, NEW o \in Int, NEW e \in Nat,
         t = o + e, n = Head(q).remaining - Datarate * e, Behind(out, q, 1, t, o)
  PROVE  Behind(out, p, 1, t, t)
<1>1. /\ Len(p) = Len(q) /\ Head(q) = q[1] /\ p[1].remaining = n /\ 1 \in 1 .. Len(q)
      /\ \A k \in 1 .. Len(q) : /\ p[k].msg = q[k].msg
                                /\ k # 1 => p[k] = q[k]
  BY CountedFacts
<1>2. \A j \in 1 .. Len(out) : out[j] \in NWmsg
  BY ElementsOf
<1>3. q \in Seq(NWmsg)
  BY DEF Counted
<1>4. \A k \in 1 .. Len(q) : q[k].remaining \in Int
  BY <1>3, ElementsOf
<1> SUFFICES ASSUME NEW j \in 1 .. Len(out), NEW k \in 1 .. Len(p), SameSender(out[j], p[k])
             PROVE  WaitBits(out[j], t) <= p[k].remaining
  BY DEF Behind
<1>5. k \in 1 .. Len(q) /\ SameSender(out[j], q[k])
  BY <1>1 DEF SameSender
<1>6. WaitBits(out[j], IF k = 1 THEN o ELSE t) <= q[k].remaining
  BY <1>5 DEF Behind
<1>7. CASE k # 1
  BY <1>1, <1>5, <1>6, <1>7
<1>8. CASE k = 1
  <2> DEFINE u == WaitBits(out[j], o)
             h == q[1].remaining
             d == Datarate * e
  <2>1. u \in Int /\ WaitBits(out[j], t) = u - d
    BY <1>2, WaitLess
  <2>2. u <= h /\ h \in Int /\ p[k].remaining = h - d
    BY <1>1, <1>4, <1>6, <1>8
  <2>3. d \in Int
    BY FrameFacts
  <2> HIDE DEF u, h, d
  <2>4. u - d <= h - d
    BY <2>1, <2>2, <2>3
  <2> QED BY <2>1, <2>2, <2>4
<1> QED BY <1>7, <1>8

LEMMA BehindWhenever ==
  /\ \A out, sw, n, i, o, p : n # 1 /\ Behind(out, sw, n, i, o) => Behind(out, sw, n, i, p)
  /\ \A out, sw, n, i, m : Behind(out, sw, n, i, i) => Behind(out, sw, m, i, i)
<1>1. ASSUME NEW out, NEW sw, NEW n, NEW i, NEW o, NEW p, n # 1, Behind(out, sw, n, i, o)
      PROVE  Behind(out, sw, n, i, p)
  BY <1>1 DEF Behind
<1>2. ASSUME NEW out, NEW sw, NEW n, NEW i, NEW m, Behind(out, sw, n, i, i)
      PROVE  Behind(out, sw, m, i, i)
  BY <1>2 DEF Behind
<1> QED BY <1>1, <1>2

LEMMA SwitchSpentOrder ==
  ASSUME NEW v, Net(v), Outputs(v), NEW tau \in Int, NEW e \in Nat, v.time = tau + e, SwitchOrder(v, v.time, tau),
         NEW w, w = SwitchSpent(v, NodesOf(v.swstate), e)
  PROVE  SwitchOrder(w, w.time, w.time) /\ w.time = v.time
<1> DEFINE t == v.time
<1>1. IsNet(v) /\ Queues(v) /\ t \in Int
  BY NetFacts
<1>2. /\ w.inputQ = v.inputQ /\ w.outputQ = v.outputQ /\ w.state = v.state /\ w.swstate = v.swstate
      /\ w.time = v.time
      /\ w.switchQ = [r \in Node |-> IF v.swstate[r] = 1
           THEN <<[Head(v.switchQ[r]) EXCEPT !.remaining = Head(v.switchQ[r]).remaining - Datarate * e]>> \o Tail(v.switchQ[r])
           ELSE v.switchQ[r]]
  BY <1>1 DEF SwitchSpent, IsNet, Fields, NodesOf
<1>3. /\ \A r \in Node : ReceiverOrder(v, r, t, tau)
      /\ \A a \in Node : WaitsUpTo(v.inputQ[a], v.time)
  BY OrderParts
<1>4. ASSUME NEW r \in Node PROVE ReceiverOrder(w, r, t, t)
  <2> DEFINE q == v.switchQ[r]
             p == w.switchQ[r]
             out == v.outputQ[r]
  <2>1. q \in Seq(NWmsg) /\ out \in Seq(NWmsg)
    BY <1>1 DEF Queues
  <2>2. /\ HasWaited(out, t) /\ Behind(out, q, v.swstate[r], t, tau) /\ InLine(q, t)
        /\ WaitsUpTo(out, t + Postdelay[r]) /\ WaitsUpTo(q, t + Postdelay[r])
        /\ \A a \in Node : v.state[a] = 1 => BehindAll(out, a, v, t) /\ BehindAll(q, a, v, t)
    BY <1>3 DEF ReceiverOrder
  <2>3. /\ Behind(out, p, w.swstate[r], t, t) /\ InLine(p, t) /\ WaitsUpTo(p, t + Postdelay[r])
        /\ \A a, S : BehindAll(q, a, S, t) => BehindAll(p, a, S, t)
    <3>1. CASE v.swstate[r] = 1
      <4> DEFINE n == Head(q).remaining - Datarate * e
      <4>1. q # << >>
        BY <3>1 DEF Outputs, Output, Busy
      <4>2. n \in Int /\ p = <<[Head(q) EXCEPT !.remaining = n]>> \o Tail(q)
        <5>1. Head(q) \in NWmsg
          BY <2>1, <4>1, HeadAndTail
        <5>2. Head(q).remaining \in Int
          BY <5>1, MsgFacts
        <5> QED BY <1>2, <3>1, <5>2, FrameFacts
      <4>3. n = Head(q).remaining - Datarate * e
        OBVIOUS
      <4> HIDE DEF n, q, p, out, t
      <4>4. Counted(q, p, n)
        BY <2>1, <4>1, <4>2 DEF Counted
      <4>5. Behind(out, q, 1, t, tau) /\ t = tau + e
        BY <2>2, <3>1 DEF t
      <4>6. Behind(out, p, 1, t, t)
        BY <1>1, <2>1, <4>3, <4>4, <4>5, BehindCounted
      <4>7. InLine(p, t) /\ WaitsUpTo(p, t + Postdelay[r]) /\ \A a, S : BehindAll(q, a, S, t) => BehindAll(p, a, S, t)
        BY <2>2, <4>4, CountedWaits
      <4> QED BY <1>2, <3>1, <4>6, <4>7
    <3>2. CASE v.swstate[r] # 1
      <4>1. p = q
        BY <1>2, <3>2
      <4>2. Behind(out, q, v.swstate[r], t, t)
        BY <2>2, <3>2, BehindWhenever
      <4> QED BY <1>2, <2>2, <4>1, <4>2
    <3> QED BY <3>1, <3>2
  <2>4. ASSUME NEW a \in Node, w.state[a] = 1
        PROVE  BehindAll(out, a, w, t) /\ BehindAll(p, a, w, t)
    <3>1. BehindAll(out, a, v, t) /\ BehindAll(q, a, v, t)
      BY <1>2, <2>2, <2>4
    <3>2. BehindAll(p, a, v, t)
      BY <2>3, <3>1
    <3>3. \A x : BehindAll(x, a, v, t) => BehindAll(x, a, w, t)
      BY <1>2 DEF BehindAll
    <3> QED BY <3>1, <3>2, <3>3
  <2> QED BY <1>2, <2>2, <2>3, <2>4 DEF ReceiverOrder
<1>5. SwitchOrder(w, t, t)
  BY <1>2, <1>3, <1>4, OrderParts
<1> QED BY <1>2, <1>5

LEMMA StartToReceiversOrder ==
  ASSUME NEW y, Net(y), SwitchOrder(y, y.time, y.time), NEW s, s = StartToReceivers(y)
  PROVE  SwitchOrder(s, s.time, s.time) /\ s.time = y.time
<1>1. IsNet(y)
  BY NetFacts
<1>2. /\ s.inputQ = y.inputQ /\ s.outputQ = y.outputQ /\ s.state = y.state /\ s.switchQ = y.switchQ
      /\ s.time = y.time
  BY <1>1 DEF StartToReceivers, Hit, IsNet, Fields
<1>3. /\ \A r \in Node : ReceiverOrder(y, r, y.time, y.time)
      /\ \A a \in Node : WaitsUpTo(y.inputQ[a], y.time)
  BY OrderParts
<1>4. ASSUME NEW r \in Node PROVE ReceiverOrder(s, r, y.time, y.time)
  <2>1. ReceiverOrder(y, r, y.time, y.time)
    BY <1>3
  <2>2. Behind(y.outputQ[r], y.switchQ[r], y.swstate[r], y.time, y.time)
    BY <2>1 DEF ReceiverOrder
  <2>3. Behind(y.outputQ[r], y.switchQ[r], s.swstate[r], y.time, y.time)
    BY <2>2, BehindWhenever
  <2>4. \A q, a : BehindAll(q, a, y, y.time) => BehindAll(q, a, s, y.time)
    BY <1>2 DEF BehindAll
  <2> QED BY <1>2, <2>1, <2>3, <2>4 DEF ReceiverOrder
<1>5. SwitchOrder(s, y.time, y.time)
  BY <1>2, <1>3, <1>4, OrderParts
<1> QED BY <1>2, <1>5

LEMMA ForwardLoopOrder ==
  ASSUME NEW t, NEW q, MayForwardAll(t, q), NEW o \in Int, SwitchOrder(t, t.time, o),
         NEW x, x = FoldLeft(ToSwitch, t, q)
  PROVE  SwitchOrder(x, x.time, o) /\ x.time = t.time
<1>1. PICK a : ForwardsInTurn(t, x, q, a)
  BY ForwardLoop
<1> DEFINE Fine(n) == Outputs(a[n]) /\ SwitchOrder(a[n], a[n].time, o) /\ a[n].time = t.time
           Good == {n \in Nat : n <= Len(q) => Fine(n)}
<1>2. 0 \in Good
  BY <1>1 DEF ForwardsInTurn, MayForwardAll
<1>3. ASSUME NEW n \in Nat, n \in Good PROVE n + 1 \in Good
  <2> SUFFICES ASSUME n + 1 <= Len(q) PROVE Fine(n + 1)
    OBVIOUS
  <2>1. Len(q) \in Nat
    BY DEF MayForwardAll
  <2>2. n + 1 \in 1 .. Len(q) /\ n + 1 - 1 = n /\ n <= Len(q)
    BY <2>1
  <2>3. Outputs(a[n]) /\ SwitchOrder(a[n], a[n].time, o) /\ a[n].time = t.time
    BY <1>3, <2>2
  <2> DEFINE k == n + 1
  <2>4. k \in 1 .. Len(q) /\ k - 1 = n
    BY <2>2
  <2> HIDE DEF k
  <2>5. a[k] = ToSwitch(a[n], q[k]) /\ MayForward(a[n], q[k]) /\ Forwarded(a[n], a[k], q[k])
    BY <1>1, <2>4 DEF ForwardsInTurn
  <2>6. Outputs(a[k])
    BY <2>3, <2>5 DEF Forwarded
  <2>7. SwitchOrder(a[k], a[k].time, o) /\ a[k].time = a[n].time
    BY <2>3, <2>5, ToSwitchOrder
  <2>8. Fine(k)
    BY <2>3, <2>6, <2>7
  <2> QED BY <2>8 DEF k
<1>4. Nat \subseteq Good
  <2> HIDE DEF Good
  <2> QED BY <1>2, <1>3, AllNumbers
<1>5. Len(q) \in Nat
  BY DEF MayForwardAll
<1>6. Fine(Len(q))
  BY <1>4, <1>5
<1> QED BY <1>1, <1>6 DEF ForwardsInTurn

LEMMA ReceiveLoopOrder ==
  ASSUME NEW t, NEW q, MayReceiveAll(t, q), SwitchOrder(t, t.time, t.time),
         NEW x, x = FoldLeft(ToReceiver, t, q)
  PROVE  SwitchOrder(x, x.time, x.time) /\ x.time = t.time
<1>1. PICK a : ReceivesInTurn(t, x, q, a)
  BY ReceiveLoop
<1> DEFINE Fine(n) == SwitchOrder(a[n], a[n].time, a[n].time) /\ a[n].time = t.time
           Good == {n \in Nat : n <= Len(q) => Fine(n)}
<1>2. 0 \in Good
  BY <1>1 DEF ReceivesInTurn
<1>3. ASSUME NEW n \in Nat, n \in Good PROVE n + 1 \in Good
  <2> SUFFICES ASSUME n + 1 <= Len(q) PROVE Fine(n + 1)
    OBVIOUS
  <2>1. Len(q) \in Nat
    BY DEF MayReceiveAll
  <2>2. n + 1 \in 1 .. Len(q) /\ n + 1 - 1 = n /\ n <= Len(q)
    BY <2>1
  <2>3. SwitchOrder(a[n], a[n].time, a[n].time) /\ a[n].time = t.time
    BY <1>3, <2>2
  <2> DEFINE k == n + 1
  <2>4. k \in 1 .. Len(q) /\ k - 1 = n
    BY <2>2
  <2> HIDE DEF k
  <2>5. a[k] = ToReceiver(a[n], q[k]) /\ MayReceive(a[n], q[k])
    BY <1>1, <2>4 DEF ReceivesInTurn
  <2>7. SwitchOrder(a[k], a[k].time, a[k].time) /\ a[k].time = a[n].time
    BY <2>3, <2>5, ToReceiverOrder
  <2>8. Fine(k)
    BY <2>3, <2>7
  <2> QED BY <2>8 DEF k
<1>4. Nat \subseteq Good
  <2> HIDE DEF Good
  <2> QED BY <1>2, <1>3, AllNumbers
<1>5. Len(q) \in Nat
  BY DEF MayReceiveAll
<1>6. Fine(Len(q))
  BY <1>4, <1>5
<1> QED BY <1>1, <1>6 DEF ReceivesInTurn

\* A call of the switched network keeps the frames of a node in order.
LEMMA SFDSEOrder ==
  ASSUME NEW S, Net(S), Lines(S), Outputs(S), S.type = "SFDSE", ShortPostdelay,
         NEW tau \in Int, NEW e \in Nat, S.time = tau + e, SwitchOrder(S, tau, tau), NEW s, s = SFDSE(S, e)
  PROVE  SwitchOrder(s, s.time, s.time)
<1>1. PICK t, u, v, w, y : SFDSESteps(S, e, t, u, v, w, y, s)
  BY SFDSEInSteps
<1> DEFINE q == ForNodes(NodesOf(S.state))
           p == ForNodes(NodesOf(v.swstate))
<1>2. q = ForNodes(NodesOf(S.state)) /\ p = ForNodes(NodesOf(v.swstate))
  OBVIOUS
<1> HIDE DEF q, p
<1>3. /\ t = Spend(S, NodesOf(S.state), e) /\ u = FoldLeft(ToSwitch, t, q) /\ v = StartAll(u)
  BY <1>1, <1>2 DEF SFDSESteps
<1>4. /\ Same(S, t, {"inputQ"}) /\ Net(t) /\ MayForwardAll(t, q) /\ Same(t, u, SwitchFields)
      /\ Same(u, v, {"state", "nextHit"})
      /\ Net(u) /\ Lines(u) /\ Outputs(u) /\ Net(v) /\ Lines(v) /\ Timely(v) /\ Outputs(v)
  BY <1>2, <1>3, SFDSEForwards
<1>5. Same(S, v, {"inputQ"} \cup SwitchFields)
  BY <1>4 DEF Same, SwitchFields
<1>6. v.swstate = S.swstate /\ v.type = "SFDSE" /\ u.type = "SFDSE"
  BY <1>4, <1>5 DEF Same, Fields, SwitchFields
<1>7. /\ w = SwitchSpent(v, NodesOf(v.swstate), e) /\ y = FoldLeft(ToReceiver, w, p)
      /\ s = StartToReceivers(y)
  BY <1>1, <1>2, <1>6 DEF SFDSESteps
<1>8. Net(w) /\ MayReceiveAll(w, p) /\ Net(y)
  BY <1>2, <1>4, <1>6, <1>7, SFDSEReceives
<1>10. SwitchOrder(t, t.time, tau) /\ t.time = S.time
  BY <1>3, SpendOrder
<1>11. SwitchOrder(u, u.time, tau) /\ u.time = t.time
  BY <1>3, <1>4, <1>10, ForwardLoopOrder
<1>12. SwitchOrder(v, v.time, tau) /\ v.time = u.time
  BY <1>3, <1>4, <1>6, <1>11, StartAllOrder
<1>13. v.time = tau + e
  BY <1>10, <1>11, <1>12
<1>14. SwitchOrder(w, w.time, w.time)
  BY <1>4, <1>7, <1>12, <1>13, SwitchSpentOrder
<1>15. SwitchOrder(y, y.time, y.time)
  BY <1>7, <1>8, <1>14, ReceiveLoopOrder
<1> QED BY <1>7, <1>8, <1>15, StartToReceiversOrder

\* What is on the way from a to r and has left preprocQ, and what has not
SwitchView(S, a, r) == Ahead(S, a, r) \o To(r, S.inputQ[a])
Rest(S, a, r)       == To(r, S.preprocQ[a]) \o LineOf(S.statinputQ[a], S.statpreprocQ[a], r)

\* Of what is on the way, a part stays so; all of it when the switch drops nothing.
Conveys(S, s) ==
  \A a, r \in Node : /\ IsSubsequence(SwitchView(s, a, r), SwitchView(S, a, r))
                     /\ S.overflow = "BUFFULLRETRY" => SwitchView(s, a, r) = SwitchView(S, a, r)

LEMMA SwitchViewTypes ==
  ASSUME NEW S, Net(S), NEW a \in Node, NEW r \in Node
  PROVE  /\ SwitchView(S, a, r) \in Seq(Message) /\ Rest(S, a, r) \in Seq(Message)
         /\ LinkView(S, a, r) = SwitchView(S, a, r) \o Rest(S, a, r)
<1> DEFINE A == Ahead(S, a, r)
           q == To(r, S.inputQ[a])
           p == To(r, S.preprocQ[a])
           l == LineOf(S.statinputQ[a], S.statpreprocQ[a], r)
<1>1. A \in Seq(Message) /\ q \in Seq(Message) /\ p \in Seq(Message) /\ l \in Seq(Message)
  BY ViewFacts, ViewTypes
<1>2. /\ SwitchView(S, a, r) = A \o q /\ Rest(S, a, r) = p \o l
      /\ LinkView(S, a, r) = A \o ((q \o p) \o l)
  BY DEF SwitchView, Rest, LinkView, LineOf
<1> HIDE DEF A, q, p, l
<1>3. /\ A \o q \in Seq(Message) /\ p \o l \in Seq(Message)
  BY <1>1
<1>4. Regroups(q, p, l) /\ Regroups(A, q, p \o l)
  BY <1>1, <1>3, ConcatRegroups
<1>5. (q \o p) \o l = q \o (p \o l) /\ (A \o q) \o (p \o l) = A \o (q \o (p \o l))
  BY <1>4 DEF Regroups
<1> QED BY <1>2, <1>3, <1>5

LEMMA ConveysSame ==
  ASSUME NEW S, Net(S), NEW s, Net(s),
         \A i \in Node : /\ Msgs(s.inputQ[i]) = Msgs(S.inputQ[i])
                         /\ Msgs(s.switchQ[i]) = Msgs(S.switchQ[i]) /\ Msgs(s.outputQ[i]) = Msgs(S.outputQ[i])
  PROVE  Conveys(S, s)
<1> SUFFICES ASSUME NEW a \in Node, NEW r \in Node
             PROVE  /\ IsSubsequence(SwitchView(s, a, r), SwitchView(S, a, r))
                    /\ SwitchView(s, a, r) = SwitchView(S, a, r)
  BY DEF Conveys
<1>1. /\ Msgs(s.inputQ[a]) = Msgs(S.inputQ[a])
      /\ Msgs(s.switchQ[r]) = Msgs(S.switchQ[r]) /\ Msgs(s.outputQ[r]) = Msgs(S.outputQ[r])
  OBVIOUS
<1>2. To(r, s.inputQ[a]) = To(r, S.inputQ[a])
  BY <1>1, MsgsDecide
<1>3. From(a, s.switchQ[r]) = From(a, S.switchQ[r])
  BY <1>1, MsgsDecide
<1>4. From(a, s.outputQ[r]) = From(a, S.outputQ[r])
  BY <1>1, MsgsDecide
<1>5. SwitchView(s, a, r) = SwitchView(S, a, r)
  BY <1>2, <1>3, <1>4 DEF SwitchView, Ahead
<1>6. SwitchView(S, a, r) \in Seq(Message)
  BY SwitchViewTypes
<1> QED BY <1>5, <1>6, SubsequenceSelf

LEMMA ConveysOn ==
  ASSUME NEW S, Net(S), NEW s, Net(s), NEW t, Net(t), Conveys(S, s), Conveys(s, t), s.overflow = S.overflow
  PROVE  Conveys(S, t)
<1> SUFFICES ASSUME NEW a \in Node, NEW r \in Node
             PROVE  /\ IsSubsequence(SwitchView(t, a, r), SwitchView(S, a, r))
                    /\ S.overflow = "BUFFULLRETRY" => SwitchView(t, a, r) = SwitchView(S, a, r)
  BY DEF Conveys
<1> DEFINE x == SwitchView(S, a, r)
           y == SwitchView(s, a, r)
           z == SwitchView(t, a, r)
<1>1. x \in Seq(Message) /\ y \in Seq(Message) /\ z \in Seq(Message)
  BY SwitchViewTypes
<1>2. /\ IsSubsequence(y, x) /\ IsSubsequence(z, y)
      /\ S.overflow = "BUFFULLRETRY" => y = x /\ z = y
  BY DEF Conveys
<1> HIDE DEF x, y, z
<1>3. IsSubsequence(z, x)
  BY <1>1, <1>2, SubsequenceTransitive
<1> QED BY <1>2, <1>3 DEF x, z

\* A frame goes from a line to the switch.
OneWay(X, U2, V, U, T) == (X \o U2) \o V = (X \o U) \o T
LEMMA GoesView ==
  ASSUME NEW X \in Seq(Message), NEW U \in Seq(Message), NEW w \in Seq(Message), NEW V \in Seq(Message),
         NEW U2, U2 = U \o w, NEW T, T = w \o V
  PROVE  OneWay(X, U2, V, U, T)
<1>1. Regroups(X, U, w) /\ X \o U \in Seq(Message)
  BY ConcatRegroups
<1>2. Regroups(X \o U, w, V)
  BY <1>1, ConcatRegroups
<1>3. X \o (U \o w) = (X \o U) \o w /\ ((X \o U) \o w) \o V = (X \o U) \o (w \o V)
  BY <1>1, <1>2 DEF Regroups
<1> QED BY <1>3 DEF OneWay

OneMore(a, q, x) ==
  /\ From(a, Append(q, x)) = From(a, q) \o From(a, <<x>>)
  /\ From(a, <<x>>) = IF Sender[x.msg] = a THEN <<x.msg>> ELSE << >>

LEMMA AppendOne ==
  ASSUME NEW q \in Seq(NWmsg), NEW x \in NWmsg, NEW a
  PROVE  OneMore(a, q, x)
<1>1. Append(q, x) = q \o <<x>> /\ <<x>> \in Seq(NWmsg) /\ Append(q, x) \in Seq(NWmsg)
  OBVIOUS
<1>2. From(a, q \o <<x>>) = From(a, q) \o From(a, <<x>>)
  BY <1>1, FromConcat
<1>3. From(a, <<x>>) = IF Sender[x.msg] = a THEN <<x.msg>> ELSE << >>
  BY FromSmall, Zenon
<1> QED BY <1>1, <1>2, <1>3 DEF OneMore

LEMMA GoesConveys ==
  ASSUME NEW x, NEW i, MayForward(x, i), NEW y, Net(y), Goes(x, y, i)
  PROVE  Conveys(x, y)
<1> DEFINE m == Head(x.inputQ[i]).msg
<1>1. /\ y.outputQ = x.outputQ /\ y.inputQ = [x.inputQ EXCEPT ![i] = Tail(x.inputQ[i])]
  BY DEF Goes, Starts, Same, Fields
<1>2. Net(x) /\ i \in Node /\ x.inputQ \in [Node -> Seq(NWmsg)] /\ x.inputQ[i] # << >>
  BY DEF MayForward, Net, Queues
<1>3. m \in Message /\ Sender[m] = i
  BY HeadFacts
<1> SUFFICES ASSUME NEW a \in Node, NEW r \in Node
             PROVE  /\ IsSubsequence(SwitchView(y, a, r), SwitchView(x, a, r))
                    /\ SwitchView(y, a, r) = SwitchView(x, a, r)
  BY DEF Conveys
<1> DEFINE X == From(a, x.outputQ[r])
           U == From(a, x.switchQ[r])
           U2 == From(a, y.switchQ[r])
           V == To(r, y.inputQ[a])
           T == To(r, x.inputQ[a])
           w == IF a = i /\ r \in Receivers(m) THEN <<m>> ELSE << >>
<1>4. /\ X \in Seq(Message) /\ U \in Seq(Message) /\ U2 \in Seq(Message) /\ V \in Seq(Message)
      /\ T \in Seq(Message) /\ x.switchQ[r] \in Seq(NWmsg) /\ x.inputQ[a] \in Seq(NWmsg)
  BY <1>2, ViewFacts
<1>5. w \in Seq(Message)
  BY <1>3
<1>6. U2 = U \o w
  <2>1. CASE r \notin Receivers(m)
    <3>1. y.switchQ[r] = x.switchQ[r]
      BY <2>1 DEF Goes
    <3>2. U2 = U /\ w = << >>
      BY <2>1, <3>1
    <3> QED BY <1>4, <3>2
  <2>2. CASE r \in Receivers(m)
    <3>1. PICK z \in Whole(MsgTo(r)) : z.msg = m /\ y.switchQ[r] = Append(x.switchQ[r], z)
      BY <2>2 DEF Goes
    <3>2. z \in NWmsg
      BY MsgFacts
    <3>6. OneMore(a, x.switchQ[r], z)
      BY <1>4, <3>2, AppendOne
    <3>3. U2 = U \o From(a, <<z>>)
      BY <3>1, <3>6 DEF OneMore
    <3>4. From(a, <<z>>) = IF Sender[z.msg] = a THEN <<z.msg>> ELSE << >>
      BY <3>6 DEF OneMore
    <3>5. From(a, <<z>>) = w
      BY <1>3, <2>2, <3>1, <3>4
    <3> QED BY <3>3, <3>5
  <2> QED BY <2>1, <2>2
<1>7. T = w \o V
  <2>1. CASE a = i
    <3>1. y.inputQ[a] = Tail(x.inputQ[a]) /\ x.inputQ[a] # << >>
      BY <1>1, <1>2, <2>1
    <3>2. /\ T = To(r, <<Head(x.inputQ[a])>>) \o To(r, Tail(x.inputQ[a]))
          /\ To(r, <<Head(x.inputQ[a])>>) = IF r \in Receivers(Head(x.inputQ[a]).msg)
                                            THEN <<Head(x.inputQ[a]).msg>> ELSE << >>
      BY <1>4, <3>1, ToHead
    <3>3. To(r, <<Head(x.inputQ[a])>>) = w
      BY <2>1, <3>2
    <3> QED BY <3>1, <3>2, <3>3
  <2>2. CASE a # i
    <3>1. T = V /\ w = << >>
      BY <1>1, <1>2, <2>2
    <3> QED BY <1>4, <3>1
  <2> QED BY <2>1, <2>2
<1>8. SwitchView(y, a, r) = (X \o U2) \o V /\ SwitchView(x, a, r) = (X \o U) \o T
  BY <1>1 DEF SwitchView, Ahead
<1> HIDE DEF X, U, U2, V, T, w
<1>9. OneWay(X, U2, V, U, T)
  BY <1>4, <1>5, <1>6, <1>7, GoesView
<1>10. SwitchView(x, a, r) \in Seq(Message)
  BY <1>2, SwitchViewTypes
<1>11. SwitchView(y, a, r) = SwitchView(x, a, r)
  BY <1>8, <1>9 DEF OneWay
<1> QED BY <1>10, <1>11, SubsequenceSelf

LEMMA DropsConveys ==
  ASSUME NEW x, NEW i, MayForward(x, i), NEW y, Net(y), Drops(x, y, i)
  PROVE  Conveys(x, y)
<1>1. /\ y.outputQ = x.outputQ /\ y.switchQ = x.switchQ /\ y.inputQ = [x.inputQ EXCEPT ![i] = Tail(x.inputQ[i])]
      /\ x.overflow # "BUFFULLRETRY"
  BY DEF Drops, Starts, Same, Fields
<1>2. Net(x) /\ i \in Node /\ x.inputQ \in [Node -> Seq(NWmsg)] /\ x.inputQ[i] # << >>
  BY DEF MayForward, Net, Queues
<1> SUFFICES ASSUME NEW a \in Node, NEW r \in Node
             PROVE  IsSubsequence(SwitchView(y, a, r), SwitchView(x, a, r))
  BY <1>1 DEF Conveys
<1> DEFINE A == Ahead(x, a, r)
           T == To(r, x.inputQ[a])
           V == To(r, y.inputQ[a])
<1>3. A \in Seq(Message) /\ T \in Seq(Message) /\ V \in Seq(Message) /\ x.inputQ[a] \in Seq(NWmsg)
  BY <1>2, ViewFacts, ViewTypes
<1>4. IsSubsequence(V, T)
  <2>1. CASE a = i
    <3>1. y.inputQ[a] = Tail(x.inputQ[a]) /\ x.inputQ[a] # << >>
      BY <1>1, <1>2, <2>1
    <3> DEFINE h == To(r, <<Head(x.inputQ[a])>>)
    <3>2. T = h \o V /\ h \in Seq(Message)
      BY <1>3, <3>1, ToHead
    <3>3. IsSubsequence(<< >>, h) /\ IsSubsequence(V, V) /\ << >> \in Seq(Message) /\ << >> \o V = V
      BY <1>3, SubsequenceEmpty, SubsequenceSelf
    <3> HIDE DEF h, V, T
    <3>4. IsSubsequence(<< >> \o V, h \o V)
      BY <1>3, <3>2, <3>3, SubsequenceConcat
    <3> QED BY <3>2, <3>3, <3>4
  <2>2. CASE a # i
    <3>1. V = T
      BY <1>1, <1>2, <2>2
    <3> QED BY <1>3, <3>1, SubsequenceSelf
  <2> QED BY <2>1, <2>2
<1>5. SwitchView(y, a, r) = A \o V /\ SwitchView(x, a, r) = A \o T
  BY <1>1 DEF SwitchView, Ahead
<1> HIDE DEF A, V, T
<1>6. IsSubsequence(A, A)
  BY <1>3, SubsequenceSelf
<1>7. IsSubsequence(A \o V, A \o T)
  BY <1>3, <1>4, <1>6, SubsequenceConcat
<1> QED BY <1>5, <1>7

LEMMA ToSwitchConveys ==
  ASSUME NEW x, NEW i, MayForward(x, i), NEW y, y = ToSwitch(x, i), Net(y)
  PROVE  Conveys(x, y)
<1>1. Stays(x, y, i) \/ Goes(x, y, i) \/ Again(x, y, i) \/ Drops(x, y, i)
  BY ToSwitchCases
<1>2. Net(x) /\ i \in Node /\ x.inputQ \in [Node -> Seq(NWmsg)]
  BY DEF MayForward, Net, Queues
<1>3. CASE Stays(x, y, i)
  <2>1. y.inputQ = x.inputQ /\ y.switchQ = x.switchQ /\ y.outputQ = x.outputQ
    BY <1>3 DEF Stays, Same, Fields
  <2>2. \A j \in Node : /\ Msgs(y.inputQ[j]) = Msgs(x.inputQ[j])
                        /\ Msgs(y.switchQ[j]) = Msgs(x.switchQ[j]) /\ Msgs(y.outputQ[j]) = Msgs(x.outputQ[j])
    BY <2>1
  <2> QED BY <1>2, <2>2, ConveysSame
<1>4. CASE Again(x, y, i)
  <2>1. y.switchQ = x.switchQ /\ y.outputQ = x.outputQ /\ y.inputQ = [x.inputQ EXCEPT ![i] = y.inputQ[i]]
        /\ Msgs(y.inputQ[i]) = Msgs(x.inputQ[i])
    BY <1>4 DEF Again, Starts, Same, Fields
  <2>3. \A j \in Node : j # i => y.inputQ[j] = x.inputQ[j]
    BY <1>2, <2>1
  <2>2. \A j \in Node : /\ Msgs(y.inputQ[j]) = Msgs(x.inputQ[j])
                        /\ Msgs(y.switchQ[j]) = Msgs(x.switchQ[j]) /\ Msgs(y.outputQ[j]) = Msgs(x.outputQ[j])
    BY <2>1, <2>3
  <2> QED BY <1>2, <2>2, ConveysSame
<1> QED BY <1>1, <1>3, <1>4, GoesConveys, DropsConveys

LEMMA ToReceiverConveys ==
  ASSUME NEW x, NEW r, MayReceive(x, r), NEW y, y = ToReceiver(x, r), Net(y)
  PROVE  Conveys(x, y)
<1>1. Remains(x, y, r) \/ Comes(x, y, r)
  BY ToReceiverCases
<1>2. /\ Net(x) /\ r \in Node /\ x.switchQ \in [Node -> Seq(NWmsg)] /\ x.outputQ \in [Node -> Seq(NWmsg)]
      /\ x.switchQ[r] # << >>
  BY DEF MayReceive, Net, Queues
<1>3. CASE Remains(x, y, r)
  <2>1. y.inputQ = x.inputQ /\ y.switchQ = x.switchQ /\ y.outputQ = x.outputQ
    BY <1>3 DEF Remains, Same, Fields
  <2>2. \A j \in Node : /\ Msgs(y.inputQ[j]) = Msgs(x.inputQ[j])
                        /\ Msgs(y.switchQ[j]) = Msgs(x.switchQ[j]) /\ Msgs(y.outputQ[j]) = Msgs(x.outputQ[j])
    BY <2>1
  <2> QED BY <1>2, <2>2, ConveysSame
<1>4. CASE Comes(x, y, r)
  <2>1. y.inputQ = x.inputQ /\ y.switchQ = [x.switchQ EXCEPT ![r] = Tail(x.switchQ[r])]
    BY <1>4 DEF Comes, Same, Fields
  <2>2. PICK z \in MsgTo(r) : z.msg = Head(x.switchQ[r]).msg
                              /\ y.outputQ = [x.outputQ EXCEPT ![r] = Append(x.outputQ[r], z)]
    BY <1>4 DEF Comes
  <2>3. z \in NWmsg
    BY MsgFacts
  <2> SUFFICES ASSUME NEW a \in Node, NEW b \in Node
               PROVE  /\ IsSubsequence(SwitchView(y, a, b), SwitchView(x, a, b))
                      /\ SwitchView(y, a, b) = SwitchView(x, a, b)
    BY DEF Conveys
  <2>4. Ahead(y, a, b) = Ahead(x, a, b)
    <3>1. CASE b # r
      <4>1. y.outputQ[b] = x.outputQ[b] /\ y.switchQ[b] = x.switchQ[b]
        BY <1>2, <2>1, <2>2, <3>1
      <4> QED BY <4>1 DEF Ahead
    <3>2. CASE b = r
      <4> DEFINE out == x.outputQ[r]
                 sw == x.switchQ[r]
                 X == From(a, out)
                 w == From(a, <<Head(sw)>>)
                 V == From(a, Tail(sw))
      <4>1. y.outputQ[b] = Append(out, z) /\ y.switchQ[b] = Tail(sw) /\ out \in Seq(NWmsg)
            /\ sw \in Seq(NWmsg) /\ sw # << >> /\ z.msg = Head(sw).msg
        BY <1>2, <2>1, <2>2, <3>2
      <4>2. /\ From(a, sw) = w \o V /\ w \in Seq(Message) /\ V \in Seq(Message)
            /\ w = IF Sender[Head(sw).msg] = a THEN <<Head(sw).msg>> ELSE << >>
        BY <4>1, FromHead
      <4>8. OneMore(a, out, z)
        BY <2>3, <4>1, AppendOne
      <4>3. /\ From(a, Append(out, z)) = X \o From(a, <<z>>)
            /\ From(a, <<z>>) = IF Sender[z.msg] = a THEN <<z.msg>> ELSE << >>
        BY <4>8 DEF OneMore
      <4>4. From(a, <<z>>) = w
        BY <4>1, <4>2, <4>3
      <4>5. X \in Seq(Message)
        BY <1>2, ViewFacts
      <4>6. Ahead(y, a, b) = (X \o w) \o V /\ Ahead(x, a, b) = X \o (w \o V)
        BY <3>2, <4>1, <4>2, <4>3, <4>4 DEF Ahead
      <4> HIDE DEF X, w, V
      <4>7. Regroups(X, w, V)
        BY <4>2, <4>5, ConcatRegroups
      <4> QED BY <4>6, <4>7 DEF Regroups
    <3> QED BY <3>1, <3>2
  <2>5. SwitchView(y, a, b) = SwitchView(x, a, b)
    BY <2>1, <2>4 DEF SwitchView
  <2>6. SwitchView(x, a, b) \in Seq(Message)
    BY <1>2, SwitchViewTypes
  <2> QED BY <2>5, <2>6, SubsequenceSelf
<1> QED BY <1>1, <1>3, <1>4

LEMMA ForwardLoopConveys ==
  ASSUME NEW t, NEW q, MayForwardAll(t, q), NEW x, x = FoldLeft(ToSwitch, t, q)
  PROVE  Conveys(t, x)
<1>1. PICK a : ForwardsInTurn(t, x, q, a)
  BY ForwardLoop
<1> DEFINE Fine(n) == Net(a[n]) /\ Conveys(t, a[n]) /\ a[n].overflow = t.overflow
           Good == {n \in Nat : n <= Len(q) => Fine(n)}
<1>7. Net(t)
  BY DEF MayForwardAll
<1>2. 0 \in Good
  <2>1. \A i \in Node : /\ Msgs(t.inputQ[i]) = Msgs(t.inputQ[i])
                        /\ Msgs(t.switchQ[i]) = Msgs(t.switchQ[i]) /\ Msgs(t.outputQ[i]) = Msgs(t.outputQ[i])
    OBVIOUS
  <2>2. Conveys(t, t)
    BY <1>7, <2>1, ConveysSame
  <2>3. a[0] = t
    BY <1>1 DEF ForwardsInTurn
  <2> QED BY <1>7, <2>2, <2>3
<1>3. ASSUME NEW n \in Nat, n \in Good PROVE n + 1 \in Good
  <2> SUFFICES ASSUME n + 1 <= Len(q) PROVE Fine(n + 1)
    OBVIOUS
  <2>1. Len(q) \in Nat
    BY DEF MayForwardAll
  <2>2. n + 1 \in 1 .. Len(q) /\ n + 1 - 1 = n /\ n <= Len(q)
    BY <2>1
  <2>3. Net(a[n]) /\ Conveys(t, a[n]) /\ a[n].overflow = t.overflow
    BY <1>3, <2>2
  <2> DEFINE k == n + 1
  <2>4. k \in 1 .. Len(q) /\ k - 1 = n
    BY <2>2
  <2> HIDE DEF k
  <2>5. a[k] = ToSwitch(a[n], q[k]) /\ MayForward(a[n], q[k]) /\ Forwarded(a[n], a[k], q[k])
    BY <1>1, <2>4 DEF ForwardsInTurn
  <2>6. Net(a[k]) /\ a[k].overflow = a[n].overflow
    BY <2>5 DEF Forwarded, Same, Fields, SwitchFields
  <2>7. Conveys(a[n], a[k])
    BY <2>5, <2>6, ToSwitchConveys
  <2>8. Conveys(t, a[k])
    BY <1>7, <2>3, <2>6, <2>7, ConveysOn
  <2>9. Fine(k)
    BY <2>3, <2>6, <2>8
  <2> QED BY <2>9 DEF k
<1>4. Nat \subseteq Good
  <2> HIDE DEF Good
  <2> QED BY <1>2, <1>3, AllNumbers
<1>5. Len(q) \in Nat
  BY DEF MayForwardAll
<1>6. Fine(Len(q))
  BY <1>4, <1>5
<1> QED BY <1>1, <1>6 DEF ForwardsInTurn

LEMMA ReceiveLoopConveys ==
  ASSUME NEW t, NEW q, MayReceiveAll(t, q), NEW x, x = FoldLeft(ToReceiver, t, q)
  PROVE  Conveys(t, x)
<1>1. PICK a : ReceivesInTurn(t, x, q, a)
  BY ReceiveLoop
<1> DEFINE Fine(n) == Net(a[n]) /\ Conveys(t, a[n]) /\ a[n].overflow = t.overflow
           Good == {n \in Nat : n <= Len(q) => Fine(n)}
<1>7. Net(t)
  BY DEF MayReceiveAll
<1>2. 0 \in Good
  <2>1. \A i \in Node : /\ Msgs(t.inputQ[i]) = Msgs(t.inputQ[i])
                        /\ Msgs(t.switchQ[i]) = Msgs(t.switchQ[i]) /\ Msgs(t.outputQ[i]) = Msgs(t.outputQ[i])
    OBVIOUS
  <2>2. Conveys(t, t)
    BY <1>7, <2>1, ConveysSame
  <2>3. a[0] = t
    BY <1>1 DEF ReceivesInTurn
  <2> QED BY <1>7, <2>2, <2>3
<1>3. ASSUME NEW n \in Nat, n \in Good PROVE n + 1 \in Good
  <2> SUFFICES ASSUME n + 1 <= Len(q) PROVE Fine(n + 1)
    OBVIOUS
  <2>1. Len(q) \in Nat
    BY DEF MayReceiveAll
  <2>2. n + 1 \in 1 .. Len(q) /\ n + 1 - 1 = n /\ n <= Len(q)
    BY <2>1
  <2>3. Net(a[n]) /\ Conveys(t, a[n]) /\ a[n].overflow = t.overflow
    BY <1>3, <2>2
  <2> DEFINE k == n + 1
  <2>4. k \in 1 .. Len(q) /\ k - 1 = n
    BY <2>2
  <2> HIDE DEF k
  <2>5. a[k] = ToReceiver(a[n], q[k]) /\ MayReceive(a[n], q[k]) /\ Received(a[n], a[k], q[k])
    BY <1>1, <2>4 DEF ReceivesInTurn
  <2>6. Net(a[k]) /\ a[k].overflow = a[n].overflow
    BY <2>5 DEF Received, Same, Fields, ReceiveFields
  <2>7. Conveys(a[n], a[k])
    BY <2>5, <2>6, ToReceiverConveys
  <2>8. Conveys(t, a[k])
    BY <1>7, <2>3, <2>6, <2>7, ConveysOn
  <2>9. Fine(k)
    BY <2>3, <2>6, <2>8
  <2> QED BY <2>9 DEF k
<1>4. Nat \subseteq Good
  <2> HIDE DEF Good
  <2> QED BY <1>2, <1>3, AllNumbers
<1>5. Len(q) \in Nat
  BY DEF MayReceiveAll
<1>6. Fine(Len(q))
  BY <1>4, <1>5
<1> QED BY <1>1, <1>6 DEF ReceivesInTurn

LEMMA SFDSEConveys ==
  ASSUME NEW S, Net(S), Lines(S), Outputs(S), S.type = "SFDSE", NEW e \in Nat, NEW s, s = SFDSE(S, e)
  PROVE  Conveys(S, s)
<1>1. PICK t, u, v, w, y : SFDSESteps(S, e, t, u, v, w, y, s)
  BY SFDSEInSteps
<1> DEFINE q == ForNodes(NodesOf(S.state))
           p == ForNodes(NodesOf(v.swstate))
<1>2. q = ForNodes(NodesOf(S.state)) /\ p = ForNodes(NodesOf(v.swstate))
  OBVIOUS
<1> HIDE DEF q, p
<1>3. /\ t = Spend(S, NodesOf(S.state), e) /\ u = FoldLeft(ToSwitch, t, q) /\ v = StartAll(u)
  BY <1>1, <1>2 DEF SFDSESteps
<1>4. /\ Same(S, t, {"inputQ"}) /\ Net(t) /\ MayForwardAll(t, q) /\ Same(t, u, SwitchFields)
      /\ Same(u, v, {"state", "nextHit"}) /\ \A i \in Node : Msgs(t.inputQ[i]) = Msgs(S.inputQ[i])
      /\ Net(u) /\ Net(v) /\ Lines(v) /\ Timely(v) /\ Outputs(v)
  BY <1>2, <1>3, SFDSEForwards
<1>5. Same(S, v, {"inputQ"} \cup SwitchFields)
  BY <1>4 DEF Same, SwitchFields
<1>6. v.swstate = S.swstate /\ v.type = "SFDSE"
  BY <1>5 DEF Same, Fields, SwitchFields
<1>7. /\ w = SwitchSpent(v, NodesOf(v.swstate), e) /\ y = FoldLeft(ToReceiver, w, p)
      /\ s = StartToReceivers(y)
  BY <1>1, <1>2, <1>6 DEF SFDSESteps
<1>8. /\ Same(v, w, {"switchQ"}) /\ \A i \in Node : Msgs(w.switchQ[i]) = Msgs(v.switchQ[i])
      /\ Net(w) /\ MayReceiveAll(w, p) /\ Same(w, y, ReceiveFields) /\ Same(y, s, {"swstate", "nextHit"})
      /\ Net(y) /\ Net(s)
  BY <1>2, <1>4, <1>6, <1>7, SFDSEReceives
<1>9. /\ t.overflow = S.overflow /\ u.overflow = S.overflow /\ v.overflow = S.overflow
      /\ w.overflow = S.overflow /\ y.overflow = S.overflow
  BY <1>4, <1>8 DEF Same, Fields, SwitchFields, ReceiveFields
<1>10. Conveys(S, t)
  <2>1. t.switchQ = S.switchQ /\ t.outputQ = S.outputQ
    BY <1>4 DEF Same, Fields
  <2>2. \A i \in Node : /\ Msgs(t.inputQ[i]) = Msgs(S.inputQ[i])
                        /\ Msgs(t.switchQ[i]) = Msgs(S.switchQ[i]) /\ Msgs(t.outputQ[i]) = Msgs(S.outputQ[i])
    BY <1>4, <2>1
  <2> QED BY <1>4, <2>2, ConveysSame
<1>11. Conveys(t, u)
  BY <1>3, <1>4, ForwardLoopConveys
<1>12. Conveys(u, v)
  <2>1. v.switchQ = u.switchQ /\ v.outputQ = u.outputQ /\ v.inputQ = u.inputQ
    BY <1>4 DEF Same, Fields
  <2>2. \A i \in Node : /\ Msgs(v.inputQ[i]) = Msgs(u.inputQ[i])
                        /\ Msgs(v.switchQ[i]) = Msgs(u.switchQ[i]) /\ Msgs(v.outputQ[i]) = Msgs(u.outputQ[i])
    BY <2>1
  <2> QED BY <1>4, <2>2, ConveysSame
<1>13. Conveys(v, w)
  <2>1. w.inputQ = v.inputQ /\ w.outputQ = v.outputQ
    BY <1>8 DEF Same, Fields
  <2>2. \A i \in Node : /\ Msgs(w.inputQ[i]) = Msgs(v.inputQ[i])
                        /\ Msgs(w.switchQ[i]) = Msgs(v.switchQ[i]) /\ Msgs(w.outputQ[i]) = Msgs(v.outputQ[i])
    BY <1>8, <2>1
  <2> QED BY <1>4, <1>8, <2>2, ConveysSame
<1>14. Conveys(w, y)
  BY <1>7, <1>8, ReceiveLoopConveys
<1>15. Conveys(y, s)
  <2>1. s.switchQ = y.switchQ /\ s.outputQ = y.outputQ /\ s.inputQ = y.inputQ
    BY <1>8 DEF Same, Fields
  <2>2. \A i \in Node : /\ Msgs(s.inputQ[i]) = Msgs(y.inputQ[i])
                        /\ Msgs(s.switchQ[i]) = Msgs(y.switchQ[i]) /\ Msgs(s.outputQ[i]) = Msgs(y.outputQ[i])
    BY <2>1
  <2> QED BY <1>8, <2>2, ConveysSame
<1>16. Conveys(S, u)
  BY <1>4, <1>9, <1>10, <1>11, ConveysOn
<1>17. Conveys(S, v)
  BY <1>4, <1>9, <1>12, <1>16, ConveysOn
<1>18. Conveys(S, w)
  BY <1>4, <1>8, <1>9, <1>13, <1>17, ConveysOn
<1>19. Conveys(S, y)
  BY <1>8, <1>9, <1>14, <1>18, ConveysOn
<1> QED BY <1>8, <1>9, <1>15, <1>19, ConveysOn

\* A part of what is on the way has been lost, and none unless the switch drops.
Brings(S, s) ==
  \A a, r \in Node : /\ IsSubsequence(LinkView(s, a, r), LinkView(S, a, r))
                     /\ S.overflow = "BUFFULLRETRY" => LinkView(s, a, r) = LinkView(S, a, r)

LEMMA SFDSEBrings ==
  ASSUME NEW S, Net(S), Lines(S), Outputs(S), S.type = "SFDSE", NEW e \in Nat, NEW s, s = SFDSE(S, e)
  PROVE  Brings(S, s)
<1>1. Net(s) /\ Same(S, s, SFDSEFields) /\ Conveys(S, s)
  BY SFDSEFacts, SFDSEConveys
<1>2. s.preprocQ = S.preprocQ /\ s.statinputQ = S.statinputQ /\ s.statpreprocQ = S.statpreprocQ
  BY <1>1 DEF Same, Fields, SFDSEFields
<1> SUFFICES ASSUME NEW a \in Node, NEW r \in Node
             PROVE  /\ IsSubsequence(LinkView(s, a, r), LinkView(S, a, r))
                    /\ S.overflow = "BUFFULLRETRY" => LinkView(s, a, r) = LinkView(S, a, r)
  BY DEF Brings
<1> DEFINE x == SwitchView(S, a, r)
           y == SwitchView(s, a, r)
           z == Rest(S, a, r)
<1>3. /\ x \in Seq(Message) /\ y \in Seq(Message) /\ z \in Seq(Message)
      /\ LinkView(S, a, r) = x \o z
  BY <1>1, SwitchViewTypes
<1>4. LinkView(s, a, r) = y \o z
  <2>1. LinkView(s, a, r) = y \o Rest(s, a, r)
    BY <1>1, SwitchViewTypes
  <2>2. Rest(s, a, r) = z
    BY <1>2 DEF Rest
  <2> QED BY <2>1, <2>2
<1>5. IsSubsequence(y, x) /\ (S.overflow = "BUFFULLRETRY" => y = x)
  BY <1>1 DEF Conveys
<1> HIDE DEF x, y, z
<1>6. IsSubsequence(z, z)
  BY <1>3, SubsequenceSelf
<1>7. IsSubsequence(y \o z, x \o z)
  BY <1>3, <1>5, <1>6, SubsequenceConcat
<1> QED BY <1>3, <1>4, <1>5, <1>7

LEMMA OrderDue ==
  ASSUME NEW S, Net(S), SwitchOrder(S, S.time, S.time), NEW r \in Node
  PROVE  DueInFront(S, r)
<1> DEFINE q == S.outputQ[r]
           D == {m \in ToSet(q) : m.waituntil <= S.time}
<1>1. HasWaited(q, S.time)
  BY DEF SwitchOrder
<1>2. q \in Seq(NWmsg)
  BY DEF Net, Queues
<1> SUFFICES ASSUME NEW a PROVE InFront(q, D, MsgFrom(a))
  BY DEF DueInFront
<1>3. ASSUME NEW j \in 1 .. Len(q), NEW k \in 1 .. Len(q), j < k, q[j] \in MsgFrom(a), q[k] \in MsgFrom(a)
      PROVE  q[j] \in D
  <2>1. SameSender(q[j], q[k])
    BY <1>3 DEF MsgFrom, SameSender
  <2>2. q[j].waituntil <= S.time
    BY <1>1, <1>3, <2>1 DEF HasWaited
  <2>3. q[j] \in ToSet(q)
    BY DEF ToSet
  <2> QED BY <2>2, <2>3
<1>4. q = S.outputQ[r]
  OBVIOUS
<1> HIDE DEF q, D
<1> QED BY <1>3 DEF InFront

\* A part of what was in order is in order.
LEMMA OrderParted ==
  ASSUME NEW q \in Seq(NWmsg), NEW p \in Seq(NWmsg), IsSubsequence(p, q)
  PROVE  /\ \A t : HasWaited(q, t) => HasWaited(p, t)
         /\ \A sw, n, i, o : Behind(q, sw, n, i, o) => Behind(p, sw, n, i, o)
         /\ \A t : WaitsUpTo(q, t) => WaitsUpTo(p, t)
         /\ \A a, S, i : BehindAll(q, a, S, i) => BehindAll(p, a, S, i)
<1>1. PICK place \in [1 .. Len(p) -> 1 .. Len(q)] :
        \A i \in 1 .. Len(p) : p[i] = q[place[i]] /\ \A j \in 1 .. i - 1 : place[j] < place[i]
  BY DEF IsSubsequence
<1>2. Len(p) \in Nat /\ Len(q) \in Nat
  OBVIOUS
<1>3. \A i \in 1 .. Len(p) : place[i] \in 1 .. Len(q) /\ p[i] = q[place[i]]
  BY <1>1
<1>4. \A j, k \in 1 .. Len(p) : j < k => place[j] < place[k]
  <2> SUFFICES ASSUME NEW j \in 1 .. Len(p), NEW k \in 1 .. Len(p), j < k PROVE place[j] < place[k]
    OBVIOUS
  <2>1. j \in 1 .. k - 1
    OBVIOUS
  <2> QED BY <1>1, <2>1
<1>5. ASSUME NEW t, HasWaited(q, t) PROVE HasWaited(p, t)
  BY <1>3, <1>4, <1>5 DEF HasWaited
<1>6. ASSUME NEW sw, NEW n, NEW i, NEW o, Behind(q, sw, n, i, o) PROVE Behind(p, sw, n, i, o)
  BY <1>3, <1>6 DEF Behind
<1>7. ASSUME NEW t, WaitsUpTo(q, t) PROVE WaitsUpTo(p, t)
  BY <1>3, <1>7 DEF WaitsUpTo
<1>8. ASSUME NEW a, NEW S, NEW i, BehindAll(q, a, S, i) PROVE BehindAll(p, a, S, i)
  BY <1>3, <1>8 DEF BehindAll
<1> QED BY <1>5, <1>6, <1>7, <1>8

LEMMA PostprocessOrder ==
  ASSUME NEW S, Net(S), NEW t, SwitchOrder(S, t, t), NEW lost, NEW s, s = Postprocess(S, lost)
  PROVE  SwitchOrder(s, t, t) /\ s.time = S.time
<1>1. /\ Same(S, s, {"outputQ", "postprocQ", "outputs", "nextHit"})
      /\ \A r \in Node : s.outputQ[r] = Later(S, r)
  BY PostprocessFacts
<1>2. /\ s.switchQ = S.switchQ /\ s.swstate = S.swstate /\ s.state = S.state /\ s.inputQ = S.inputQ
      /\ s.time = S.time
  BY <1>1 DEF Same, Fields
<1>3. /\ \A r \in Node : ReceiverOrder(S, r, t, t)
      /\ \A a \in Node : WaitsUpTo(S.inputQ[a], S.time)
  BY OrderParts
<1>4. ASSUME NEW r \in Node PROVE ReceiverOrder(s, r, t, t)
  <2> DEFINE q == S.outputQ[r]
             p == Later(S, r)
  <2>1. q \in Seq(NWmsg) /\ p \in Seq(NWmsg)
    BY LaterFacts DEF Net, Queues
  <2>2. IsSubsequence(p, q)
    <3> HIDE DEF q
    <3>1. p = Among(q, {m \in ToSet(q) : m.waituntil > S.time})
      BY DEF Later, q
    <3> QED BY <2>1, <3>1, AmongSubsequence
  <2>3. s.outputQ[r] = p
    BY <1>1
  <2>4. ReceiverOrder(S, r, t, t)
    BY <1>3
  <2> HIDE DEF p
  <2>5. /\ HasWaited(p, t) /\ Behind(p, S.switchQ[r], S.swstate[r], t, t) /\ WaitsUpTo(p, t + Postdelay[r])
        /\ \A a : BehindAll(q, a, S, t) => BehindAll(p, a, S, t)
    <3>1. HasWaited(q, t) /\ Behind(q, S.switchQ[r], S.swstate[r], t, t) /\ WaitsUpTo(q, t + Postdelay[r])
      BY <2>4 DEF ReceiverOrder
    <3> HIDE DEF q
    <3> QED BY <2>1, <2>2, <3>1, OrderParted
  <2>6. \A x, a : BehindAll(x, a, S, t) => BehindAll(x, a, s, t)
    BY <1>2 DEF BehindAll
  <2> QED BY <1>2, <2>3, <2>4, <2>5, <2>6 DEF ReceiverOrder
<1>5. SwitchOrder(s, t, t)
  BY <1>2, <1>3, <1>4, OrderParts
<1> QED BY <1>2, <1>5

LEMMA ScanWaits ==
  ASSUME NEW S, S.time \in Nat, NEW hit, NEW p \in Seq(NWmsg), NEW q \in Seq(NWmsg), NEW p2, NEW q2,
         Scanned(S, hit, p, q, p2, q2), WaitsUpTo(q, S.time)
  PROVE  WaitsUpTo(q2, S.time)
<1>1. CASE q2 = q
  BY <1>1
<1>2. CASE \E k \in 1 .. Len(p) :
             /\ p[k].waituntil <= S.time
             /\ q2 = q \o <<[p[k] EXCEPT !.remaining = Frame(p[k].msg)]>>
  <2>1. PICK k \in 1 .. Len(p) :
             /\ p[k].waituntil <= S.time
             /\ q2 = q \o <<[p[k] EXCEPT !.remaining = Frame(p[k].msg)]>>
    BY <1>2
  <2> DEFINE y == p[k]
             z == [y EXCEPT !.remaining = Frame(y.msg)]
  <2>2. y \in NWmsg /\ y.waituntil <= S.time /\ q2 = q \o <<z>>
    BY <2>1
  <2> HIDE DEF y
  <2>3. Frame(y.msg) \in Int
    BY <2>2, MsgFacts, FrameFacts
  <2>4. z \in NWmsg /\ z.waituntil = y.waituntil
    BY <2>2, <2>3, MsgExcept
  <2> HIDE DEF z
  <2>5. q2 = Append(q, z) /\ z.waituntil <= S.time
    BY <2>2, <2>4
  <2> QED BY <2>4, <2>5, WaitsMore
<1> QED BY <1>1, <1>2 DEF Scanned

LEMMA PreprocessOrder ==
  ASSUME NEW S, Net(S), Lines(S), S.type = "SFDSE", NEW t, SwitchOrder(S, t, t), NEW s, s = Preprocess(S)
  PROVE  SwitchOrder(s, t, t) /\ s.time = S.time
<1>1. /\ Same(S, s, {"preprocQ", "inputQ", "statpreprocQ", "statinputQ", "nextHit"})
      /\ \A i \in Node : /\ Grows(MsgFrom(i), S.inputQ[i], s.inputQ[i])
                         /\ Scanned(S, s.nextHit, S.preprocQ[i], S.inputQ[i], s.preprocQ[i], s.inputQ[i])
  BY PreprocessGrows
<1>2. /\ s.outputQ = S.outputQ /\ s.switchQ = S.switchQ /\ s.swstate = S.swstate /\ s.state = S.state
      /\ s.time = S.time
  BY <1>1 DEF Same, Fields
<1>3. /\ \A r \in Node : ReceiverOrder(S, r, t, t)
      /\ \A a \in Node : WaitsUpTo(S.inputQ[a], S.time)
  BY OrderParts
<1>4. \A a \in Node : s.state[a] = 1 => S.state[a] = 1 /\ Head(s.inputQ[a]) = Head(S.inputQ[a])
  <2> SUFFICES ASSUME NEW a \in Node, s.state[a] = 1 PROVE Head(s.inputQ[a]) = Head(S.inputQ[a])
    BY <1>2
  <2>1. Busy(MsgFrom(a), S.inputQ[a])
    BY <1>2 DEF Lines, Line, Sends
  <2>2. MsgFrom(a) \subseteq NWmsg /\ Grows(MsgFrom(a), S.inputQ[a], s.inputQ[a])
    BY <1>1, MsgFacts
  <2> QED BY <2>1, <2>2, GrowsFacts
<1>5. ASSUME NEW r \in Node PROVE ReceiverOrder(s, r, t, t)
  BY <1>2, <1>3, <1>4, ReceiverOrderSame
<1>6. ASSUME NEW a \in Node PROVE WaitsUpTo(s.inputQ[a], s.time)
  <2>1. S.time \in Nat /\ S.preprocQ[a] \in Seq(NWmsg) /\ S.inputQ[a] \in Seq(NWmsg)
    BY NetFacts, ViewFacts
  <2>2. /\ Scanned(S, s.nextHit, S.preprocQ[a], S.inputQ[a], s.preprocQ[a], s.inputQ[a])
        /\ WaitsUpTo(S.inputQ[a], S.time)
    BY <1>1, <1>3
  <2>3. WaitsUpTo(s.inputQ[a], S.time)
    BY <2>1, <2>2, ScanWaits
  <2> QED BY <1>2, <2>3
<1>7. SwitchOrder(s, t, t)
  BY <1>5, <1>6, OrderParts
<1> QED BY <1>2, <1>7

-----------------------------------------------------------------------------
(***************************************************************************)
(* The network as a FIFO link: what its queues need for that, call by call. *)
(***************************************************************************)

\* What the links of the network S need, whose last call was at the time last
LinkSound(S, last) ==
  /\ WaitsInOrder(S) /\ OneSegment(S)
  /\ S.type # "SFDSE" => BusLinks(S)
  /\ S.type = "SFDSE" => ShortPostdelay /\ SwitchOrder(S, last, last)

LEMMA LinkSoundSame ==
  ASSUME NEW S, NEW last, LinkSound(S, last), NEW s, NEW F, Same(S, s, F),
         F \cap {"type", "time", "preprocQ", "inputQ", "statpreprocQ", "statinputQ", "outputQ", "switchQ",
                 "state", "swstate"} = {}
  PROVE  /\ LinkSound(s, last)
         /\ \A a, r \in Node : LinkView(s, a, r) = LinkView(S, a, r)
<1>1. /\ s.type = S.type /\ s.time = S.time /\ s.preprocQ = S.preprocQ /\ s.inputQ = S.inputQ
      /\ s.statpreprocQ = S.statpreprocQ /\ s.statinputQ = S.statinputQ /\ s.outputQ = S.outputQ
      /\ s.switchQ = S.switchQ /\ s.state = S.state /\ s.swstate = S.swstate
  BY DEF Same, Fields
<1>2. WaitsInOrder(s) /\ OneSegment(s)
  BY <1>1 DEF LinkSound, WaitsInOrder, OneSegment
<1>3. S.type # "SFDSE" => BusLinks(s)
  BY <1>1, <1>2 DEF LinkSound, BusLinks
<1>4. S.type = "SFDSE" => SwitchOrder(s, last, last)
  BY <1>1 DEF LinkSound, SwitchOrder, BehindAll
<1>5. \A a, r \in Node : LinkView(s, a, r) = LinkView(S, a, r)
  BY <1>1 DEF LinkView, Ahead, LineOf
<1> QED BY <1>1, <1>2, <1>3, <1>4, <1>5 DEF LinkSound

LEMMA PreprocessLinkSound ==
  ASSUME NEW S, NEW last, Sound(S, last), LinkSound(S, last), NEW s, s = Preprocess(S)
  PROVE  /\ LinkSound(s, last)
         /\ \A a, r \in Node : LinkView(s, a, r) = LinkView(S, a, r)
<1>1. Net(S) /\ WaitsInOrder(S) /\ OneSegment(S)
  BY SoundFacts DEF LinkSound
<1>2. /\ WaitsInOrder(s) /\ OneSegment(s)
      /\ \A a, r \in Node : LinkView(s, a, r) = LinkView(S, a, r)
  BY <1>1, PreprocessLinks
<1>3. Same(S, s, {"preprocQ", "inputQ", "statpreprocQ", "statinputQ", "nextHit"})
  BY <1>1, PreprocessGrows
<1>4. s.type = S.type /\ s.switchQ = S.switchQ /\ s.outputQ = S.outputQ /\ s.time = S.time
  BY <1>3 DEF Same, Fields
<1>5. S.type # "SFDSE" => BusLinks(s)
  BY <1>2, <1>4 DEF LinkSound, BusLinks
<1>6. ASSUME S.type = "SFDSE" PROVE ShortPostdelay /\ SwitchOrder(s, last, last)
  <2>1. Lines(S) /\ SwitchOrder(S, last, last) /\ ShortPostdelay
    BY <1>6 DEF Sound, LinkSound
  <2> QED BY <1>1, <1>6, <2>1, PreprocessOrder
<1> QED BY <1>2, <1>4, <1>5, <1>6 DEF LinkSound

\* On every link, the messages that arrive were the first of those on the way; a
\* lossy network may have lost some of these or of those that still are.
Lossless(S) == ~ (S.lossprob = 1 \/ (S.type = "SFDSE" /\ S.overflow = "BUFFULLDROP"))
BringsIn(S, s, a, r) ==
  \E C \in Seq(Message) :
    /\ From(a, s.postprocQ[r]) = From(a, S.postprocQ[r]) \o C
    /\ IsSubsequence(C \o LinkView(s, a, r), LinkView(S, a, r))
    /\ Lossless(S) => C \o LinkView(s, a, r) = LinkView(S, a, r)

\* The protocol has run, and then Postprocess.
LEMMA BusBringsIn ==
  ASSUME NEW p, NEW last, Sound(p, last), LinkSound(p, last), p.type # "SFDSE", NEW s, Ran(p, s), BusCarries(p, s),
         NEW lost, NEW x, x = Postprocess(s, lost)
  PROVE  /\ LinkSound(x, x.time)
         /\ \A a, r \in Node : Arrives(From(a, Come(s, lost, r)), LinkView(x, a, r), LinkView(p, a, r), lost = {})
<1>1. BusLinks(p)
  BY DEF LinkSound
<1>2. BusLinks(s) /\ \A a, r \in Node : LinkView(s, a, r) = LinkView(p, a, r)
  BY <1>1, ProtocolLinks
<1>3. Net(s) /\ s.type # "SFDSE"
  <2>1. Sound(s, s.time) /\ Same(p, s, RunFields)
    BY DEF Ran
  <2> QED BY <2>1, SoundFacts DEF Same, Fields, RunFields
<1>4. BusLinks(x) /\ \A r \in Node : DueInFront(s, r)
  BY <1>2, <1>3, PostBusLinks
<1>5. x.type # "SFDSE"
  <2>1. Same(s, x, {"outputQ", "postprocQ", "outputs", "nextHit"})
    BY <1>3, PostprocessFacts
  <2> QED BY <1>3, <2>1 DEF Same, Fields
<1>6. LinkSound(x, x.time)
  BY <1>4, <1>5 DEF LinkSound, BusLinks
<1>7. ASSUME NEW a \in Node, NEW r \in Node
      PROVE  Arrives(From(a, Come(s, lost, r)), LinkView(x, a, r), LinkView(p, a, r), lost = {})
  <2>1. Arrives(From(a, Come(s, lost, r)), LinkView(x, a, r), LinkView(s, a, r), lost = {})
    BY <1>3, <1>4, PostArrives
  <2> QED BY <1>2, <2>1
<1> QED BY <1>6, <1>7

LEMMA SwitchBringsIn ==
  ASSUME NEW p, NEW tau \in Int, NEW e \in Nat, p.time = tau + e, Sound(p, tau), LinkSound(p, tau), p.type = "SFDSE",
         NEW s, s = SFDSE(p, e), NEW lost, NEW x, x = Postprocess(s, lost)
  PROVE  /\ LinkSound(x, x.time)
         /\ \A a, r \in Node :
              Arrives(From(a, Come(s, lost, r)), LinkView(x, a, r), LinkView(p, a, r),
                      lost = {} /\ p.overflow = "BUFFULLRETRY")
<1>1. Net(p) /\ Lines(p) /\ Outputs(p) /\ ShortPostdelay /\ SwitchOrder(p, tau, tau)
      /\ WaitsInOrder(p) /\ OneSegment(p)
  BY SoundFacts DEF Sound, LinkSound
<1>2. SwitchOrder(s, s.time, s.time)
  BY <1>1, SFDSEOrder
<1>3. Net(s) /\ Same(p, s, SFDSEFields) /\ Brings(p, s)
  BY <1>1, SFDSEFacts, SFDSEBrings
<1>4. SwitchOrder(x, s.time, s.time) /\ x.time = s.time
  BY <1>2, <1>3, PostprocessOrder
<1>5. Net(x) /\ Same(s, x, {"outputQ", "postprocQ", "outputs", "nextHit"})
  BY <1>3, PostprocessFacts
<1>6. /\ x.type = p.type /\ x.preprocQ = p.preprocQ /\ x.statpreprocQ = p.statpreprocQ
      /\ x.statinputQ = p.statinputQ /\ x.time = p.time
  BY <1>3, <1>5 DEF Same, Fields, SFDSEFields
<1>7. WaitsInOrder(x) /\ OneSegment(x)
  BY <1>1, <1>6 DEF WaitsInOrder, OneSegment
<1>8. LinkSound(x, x.time)
  BY <1>1, <1>4, <1>6, <1>7 DEF LinkSound
<1>9. ASSUME NEW a \in Node, NEW r \in Node
      PROVE  Arrives(From(a, Come(s, lost, r)), LinkView(x, a, r), LinkView(p, a, r),
                     lost = {} /\ p.overflow = "BUFFULLRETRY")
  <2> DEFINE C == From(a, Come(s, lost, r))
             V == LinkView(x, a, r)
             W == LinkView(s, a, r)
             U == LinkView(p, a, r)
  <2>1. DueInFront(s, r)
    BY <1>2, <1>3, OrderDue
  <2>2. Arrives(C, V, W, lost = {}) /\ C \in Seq(Message)
    BY <1>3, <2>1, PostArrives
  <2>3. V \in Seq(Message) /\ W \in Seq(Message) /\ U \in Seq(Message)
    BY <1>1, <1>3, <1>5, ViewTypes
  <2>4. IsSubsequence(W, U) /\ (p.overflow = "BUFFULLRETRY" => W = U)
    BY <1>3 DEF Brings
  <2> HIDE DEF C, V, W, U
  <2>5. IsSubsequence(C \o V, W) /\ (lost = {} => C \o V = W)
    BY <2>2 DEF Arrives
  <2>6. C \o V \in Seq(Message)
    BY <2>2, <2>3
  <2>7. IsSubsequence(C \o V, U)
    BY <2>3, <2>4, <2>5, <2>6, SubsequenceTransitive
  <2>8. Arrives(C, V, U, lost = {} /\ p.overflow = "BUFFULLRETRY")
    BY <2>4, <2>5, <2>7 DEF Arrives
  <2> QED BY <2>8 DEF C, V, U
<1> QED BY <1>8, <1>9

\* The links are sound at every step.
LinkInv == LinkSound(nwsys, nwsys.prevHit) /\ nwsys.overflow \in {"BUFFULLDROP", "BUFFULLRETRY"}

SameLoss(S, s) == s.lossprob = S.lossprob /\ s.type = S.type /\ s.overflow = S.overflow

LEMMA RunLinks ==
  ASSUME NetInv, LinkInv, RunNetwork
  PROVE  /\ LinkInv' /\ SameLoss(nwsys, nwsys')
         /\ \A a, r \in Node : BringsIn(nwsys, nwsys', a, r)
<1> DEFINE last == nwsys.prevHit
           x == nwsys'
<1>1. PICK S, p, e, s, lost : RunSteps(S, p, e, s, lost)
  BY RunInSteps
<1>2. /\ Sound(S, last) /\ Same(nwsys, S, {"prevHit", "nextHit"}) /\ p = Preprocess(S)
      /\ Sound(p, p.time - e) /\ e \in Nat /\ nwsys.time = last + e
      /\ Same(S, p, {"preprocQ", "inputQ", "statpreprocQ", "statinputQ", "nextHit"})
      /\ s \in Drawn(Protocol(p, e)) /\ Ran(p, s)
      /\ s.time = nwsys.time /\ s.prevHit = nwsys.time /\ s.type = nwsys.type
      /\ lost \in Losses(s) /\ x = Postprocess(s, lost)
  BY <1>1 DEF RunSteps
<1>3. /\ Net(nwsys) /\ Net(S) /\ Net(p) /\ Net(s) /\ last \in Int
  <2>1. Sound(nwsys, last) /\ Sound(s, s.time)
    BY <1>2 DEF NetInv, Ran
  <2>2. Net(nwsys) /\ nwsys.prevHit \in Nat
    BY <2>1, SoundFacts
  <2>3. Net(S) /\ Net(p) /\ Net(s)
    BY <1>2, <2>1, SoundFacts
  <2> QED BY <2>2, <2>3
<1>4. /\ LinkSound(S, last) /\ \A a, r \in Node : LinkView(S, a, r) = LinkView(nwsys, a, r)
  <2> DEFINE F == {"prevHit", "nextHit"}
  <2>1. F \cap {"type", "time", "preprocQ", "inputQ", "statpreprocQ", "statinputQ", "outputQ", "switchQ",
                 "state", "swstate"} = {}
    OBVIOUS
  <2>2. Same(nwsys, S, F)
    BY <1>2
  <2>3. LinkSound(nwsys, last)
    BY DEF LinkInv
  <2> HIDE DEF F, last
  <2> QED BY <2>1, <2>2, <2>3, LinkSoundSame
<1>5. /\ LinkSound(p, last) /\ \A a, r \in Node : LinkView(p, a, r) = LinkView(S, a, r)
  BY <1>2, <1>4, PreprocessLinkSound
<1>6. /\ p.time = last + e /\ p.type = nwsys.type /\ p.overflow = nwsys.overflow
      /\ p.lossprob = nwsys.lossprob /\ p.postprocQ = nwsys.postprocQ
  BY <1>2 DEF Same, Fields
<1>7. Sound(p, last)
  <2>1. p.time - e = last
    BY <1>2, <1>3, <1>6
  <2> QED BY <1>2, <2>1
<1>8. /\ s.lossprob = nwsys.lossprob /\ s.overflow = nwsys.overflow /\ s.postprocQ = nwsys.postprocQ
  <2>1. Same(p, s, RunFields)
    BY <1>2 DEF Ran
  <2> QED BY <1>6, <2>1 DEF Same, Fields, RunFields
<1>9. /\ Net(x) /\ Same(s, x, {"outputQ", "postprocQ", "outputs", "nextHit"})
      /\ \A r \in Node : x.postprocQ[r] = s.postprocQ[r] \o Come(s, lost, r)
  BY <1>2, <1>3, PostprocessFacts
<1>10. /\ x.lossprob = nwsys.lossprob /\ x.overflow = nwsys.overflow /\ x.type = nwsys.type
       /\ x.time = nwsys.time /\ x.prevHit = x.time
  BY <1>2, <1>8, <1>9 DEF Same, Fields
<1>11. nwsys.lossprob # 1 => lost = {}
  BY <1>2, <1>8 DEF Losses
<1>12. /\ LinkSound(x, x.time)
       /\ \A a, r \in Node :
            Arrives(From(a, Come(s, lost, r)), LinkView(x, a, r), LinkView(p, a, r), Lossless(nwsys))
  <2>1. CASE nwsys.type # "SFDSE"
    <3>1. BusCarries(p, s)
      BY <1>2, <1>6, <2>1, ProtocolCarries
    <3>2. /\ LinkSound(x, x.time)
          /\ \A a, r \in Node : Arrives(From(a, Come(s, lost, r)), LinkView(x, a, r), LinkView(p, a, r), lost = {})
      BY <1>2, <1>5, <1>6, <1>7, <2>1, <3>1, BusBringsIn
    <3>3. Lossless(nwsys) => lost = {}
      BY <1>11 DEF Lossless
    <3> QED BY <3>2, <3>3 DEF Arrives
  <2>2. CASE nwsys.type = "SFDSE"
    <3>1. s = SFDSE(p, e)
      <4>1. Protocol(p, e) = SFDSE(p, e) /\ p.type = "SFDSE"
        BY <1>6, <2>2 DEF Protocol
      <4> DEFINE P == SFDSE(p, e)
      <4>2. Lines(p) /\ Outputs(p) /\ P = SFDSE(p, e)
        BY <1>7, <4>1 DEF Sound
      <4> HIDE DEF P
      <4>3. Same(p, P, SFDSEFields)
        BY <1>2, <1>3, <4>1, <4>2, SFDSEFacts
      <4>4. P.type = "SFDSE"
        BY <4>1, <4>3 DEF Same, Fields, SFDSEFields
      <4>5. s \in Drawn(P)
        BY <1>2, <4>1, <4>2
      <4>6. s = P
        BY <4>4, <4>5 DEF Drawn
      <4> QED BY <4>2, <4>6
    <3>2. p.time = last + e /\ p.type = "SFDSE" /\ e \in Nat /\ last \in Int
      BY <1>2, <1>3, <1>6, <2>2
    <3> HIDE DEF last
    <3>3. /\ LinkSound(x, x.time)
          /\ \A a, r \in Node :
               Arrives(From(a, Come(s, lost, r)), LinkView(x, a, r), LinkView(p, a, r),
                       lost = {} /\ p.overflow = "BUFFULLRETRY")
      BY <1>2, <1>5, <1>7, <3>1, <3>2, SwitchBringsIn
    <3>4. Lossless(nwsys) => lost = {} /\ p.overflow = "BUFFULLRETRY"
      BY <1>6, <1>11, <2>2 DEF Lossless, LinkInv
    <3> QED BY <3>3, <3>4 DEF Arrives
  <2> QED BY <2>1, <2>2
<1>13. ASSUME NEW a \in Node, NEW r \in Node PROVE BringsIn(nwsys, x, a, r)
  <2> DEFINE C == From(a, Come(s, lost, r))
  <2>1. C \in Seq(Message)
    <3>1. Come(s, lost, r) \in Seq(NWmsg)
      BY <1>3, LaterFacts
    <3>2. << >> \in Seq(NWmsg)
      OBVIOUS
    <3> QED BY <3>1, <3>2, FromConcat
  <2>2. From(a, x.postprocQ[r]) = From(a, nwsys.postprocQ[r]) \o C
    <3>1. Come(s, lost, r) \in Seq(NWmsg)
      BY <1>3, LaterFacts
    <3>2. nwsys.postprocQ[r] \in Seq(NWmsg)
      BY <1>3, ViewFacts
    <3>3. x.postprocQ[r] = nwsys.postprocQ[r] \o Come(s, lost, r)
      BY <1>8, <1>9
    <3> HIDE DEF x
    <3>4. From(a, nwsys.postprocQ[r] \o Come(s, lost, r)) = From(a, nwsys.postprocQ[r]) \o C
      BY <3>1, <3>2, FromConcat
    <3> QED BY <3>3, <3>4
  <2>3. Arrives(C, LinkView(x, a, r), LinkView(p, a, r), Lossless(nwsys))
    BY <1>12
  <2>4. LinkView(p, a, r) = LinkView(nwsys, a, r)
    BY <1>4, <1>5
  <2> HIDE DEF C
  <2> QED BY <2>1, <2>2, <2>3, <2>4 DEF BringsIn, Arrives
<1>14. LinkInv'
  BY <1>10, <1>12 DEF LinkInv
<1> QED BY <1>10, <1>13, <1>14 DEF SameLoss

\* What is on the way and what has arrived are as before.
ViewsSame(S, s)    == \A a, r \in Node : LinkView(s, a, r) = LinkView(S, a, r)
ArrivedSame(S, s)  == \A r \in Node : s.postprocQ[r] = S.postprocQ[r]

LEMMA AdvanceLinks ==
  ASSUME NetInv, LinkInv, Advance
  PROVE  LinkInv' /\ SameLoss(nwsys, nwsys') /\ ViewsSame(nwsys, nwsys') /\ ArrivedSame(nwsys, nwsys')
<1>1. Net(nwsys) /\ IsNet(nwsys) /\ nwsys.time \in Nat
  BY SoundFacts DEF NetInv
<1>2. nwsys' = [nwsys EXCEPT !.time = @ + 1]
  BY DEF Advance
<1>3. /\ nwsys'.type = nwsys.type /\ nwsys'.preprocQ = nwsys.preprocQ /\ nwsys'.inputQ = nwsys.inputQ
      /\ nwsys'.statpreprocQ = nwsys.statpreprocQ /\ nwsys'.statinputQ = nwsys.statinputQ
      /\ nwsys'.outputQ = nwsys.outputQ /\ nwsys'.switchQ = nwsys.switchQ /\ nwsys'.state = nwsys.state
      /\ nwsys'.swstate = nwsys.swstate /\ nwsys'.prevHit = nwsys.prevHit /\ nwsys'.time = nwsys.time + 1
      /\ nwsys'.postprocQ = nwsys.postprocQ /\ nwsys'.lossprob = nwsys.lossprob
      /\ nwsys'.overflow = nwsys.overflow
  BY <1>1, <1>2 DEF IsNet, Fields
<1> DEFINE S == nwsys
           s == nwsys'
           last == nwsys.prevHit
<1>4. LinkSound(S, last)
  BY DEF LinkInv
<1>5. s.time \in Int /\ S.time \in Int /\ S.time <= s.time
  BY <1>1, <1>3
<1> HIDE DEF S, s, last
<1>6. ASSUME NEW q \in Seq(NWmsg), NEW d \in Nat, UpTo(q, S.time + d) PROVE UpTo(q, s.time + d)
  <2>1. S.time + d \in Int /\ s.time + d \in Int /\ S.time + d <= s.time + d
    BY <1>5
  <2> QED BY <1>6, <2>1, UpToLater
<1>7. /\ \A i \in Node : S.preprocQ[i] \in Seq(NWmsg) /\ S.statpreprocQ[i] \in Seq(NWmsg)
                         /\ S.outputQ[i] \in Seq(NWmsg) /\ S.inputQ[i] \in Seq(NWmsg)
      /\ \A i \in Node : Predelay[i] \in Nat /\ Postdelay[i] \in Nat
  BY <1>1, ViewFacts, NodeFacts DEF S
<1>8. s.preprocQ = S.preprocQ /\ s.statpreprocQ = S.statpreprocQ /\ s.outputQ = S.outputQ /\ s.inputQ = S.inputQ
      /\ s.statinputQ = S.statinputQ /\ s.switchQ = S.switchQ /\ s.type = S.type /\ s.state = S.state
      /\ s.swstate = S.swstate /\ s.postprocQ = S.postprocQ /\ s.prevHit = last /\ s.lossprob = S.lossprob
      /\ s.overflow = S.overflow
  BY <1>3 DEF S, s, last
<1>9. WaitsInOrder(s) /\ OneSegment(s)
  BY <1>4, <1>6, <1>7, <1>8 DEF LinkSound, WaitsInOrder, OneSegment
<1>10. s.type # "SFDSE" => BusLinks(s)
  BY <1>4, <1>6, <1>7, <1>8, <1>9 DEF LinkSound, BusLinks
<1>11. ASSUME s.type = "SFDSE" PROVE ShortPostdelay /\ SwitchOrder(s, last, last)
  <2>1. SwitchOrder(S, last, last) /\ ShortPostdelay
    BY <1>4, <1>8, <1>11 DEF LinkSound
  <2>2. \A r \in Node : ReceiverOrder(S, r, last, last)
    BY <2>1, OrderParts
  <2>3. ASSUME NEW r \in Node PROVE ReceiverOrder(s, r, last, last)
    BY <1>8, <2>2, ReceiverOrderSame
  <2>4. ASSUME NEW a \in Node PROVE WaitsUpTo(s.inputQ[a], s.time)
    <3>1. WaitsUpTo(S.inputQ[a], S.time)
      BY <2>1, OrderParts
    <3>2. \A k \in 1 .. Len(S.inputQ[a]) : S.inputQ[a][k].waituntil \in Nat
      BY <1>7, ElementsOf
    <3> QED BY <1>5, <1>8, <3>1, <3>2 DEF WaitsUpTo
  <2> QED BY <2>1, <2>3, <2>4, OrderParts
<1>12. LinkSound(s, s.prevHit)
  BY <1>8, <1>9, <1>10, <1>11 DEF LinkSound
<1>13. LinkInv'
  BY <1>3, <1>12 DEF LinkInv, s
<1>14. ViewsSame(S, s) /\ ArrivedSame(S, s) /\ SameLoss(S, s)
  BY <1>8 DEF ViewsSame, LinkView, Ahead, LineOf, ArrivedSame, SameLoss
<1> QED BY <1>13, <1>14 DEF S, s

LEMMA NextNodeLinks ==
  ASSUME NetInv, LinkInv, NEW i \in Node, SetNextNode(i)
  PROVE  LinkInv' /\ SameLoss(nwsys, nwsys') /\ ViewsSame(nwsys, nwsys') /\ ArrivedSame(nwsys, nwsys')
<1>1. IsNet(nwsys)
  BY SoundFacts DEF NetInv
<1>2. nwsys' = [nwsys EXCEPT !.nextNode = i]
  BY DEF SetNextNode
<1> DEFINE F == {"nextNode"}
<1>3. Same(nwsys, nwsys', F) /\ nwsys'.prevHit = nwsys.prevHit
  BY <1>1, <1>2 DEF Same, IsNet, Fields
<1>4. SameLoss(nwsys, nwsys') /\ ArrivedSame(nwsys, nwsys')
  BY <1>3 DEF Same, Fields, SameLoss, ArrivedSame
<1>5. F \cap {"type", "time", "preprocQ", "inputQ", "statpreprocQ", "statinputQ", "outputQ", "switchQ",
                 "state", "swstate"} = {}
  OBVIOUS
<1>6. LinkSound(nwsys, nwsys.prevHit)
  BY DEF LinkInv
<1> HIDE DEF F
<1>7. LinkSound(nwsys', nwsys.prevHit) /\ \A a, r \in Node : LinkView(nwsys', a, r) = LinkView(nwsys, a, r)
  BY <1>3, <1>5, <1>6, LinkSoundSame
<1> QED BY <1>3, <1>4, <1>7 DEF LinkInv, ViewsSame, SameLoss

\* A node fetches the first message that has arrived.
LEMMA GetMsgLinks ==
  ASSUME NetInv, LinkInv, NEW r \in Node, GetMsg(r)
  PROVE  /\ LinkInv' /\ SameLoss(nwsys, nwsys') /\ ViewsSame(nwsys, nwsys')
         /\ \E b \in Node :
              /\ From(b, nwsys.postprocQ[r]) # << >>
              /\ \A a, n \in Node : From(a, nwsys'.postprocQ[n]) =
                   IF a = b /\ n = r THEN Tail(From(b, nwsys.postprocQ[r])) ELSE From(a, nwsys.postprocQ[n])
<1>1. IsNet(nwsys) /\ nwsys.postprocQ \in [Node -> Seq(NWmsg)]
  BY SoundFacts DEF NetInv, Queues
<1>2. nwsys' = [nwsys EXCEPT !.postprocQ[r] = Tail(@)] /\ nwsys.postprocQ[r] # << >>
  BY DEF GetMsg, Dequeue
<1> DEFINE F == {"postprocQ"}
           q == nwsys.postprocQ[r]
           b == Sender[Head(q).msg]
<1>3. /\ Same(nwsys, nwsys', F) /\ nwsys'.prevHit = nwsys.prevHit
      /\ nwsys'.postprocQ = [nwsys.postprocQ EXCEPT ![r] = Tail(q)]
  BY <1>1, <1>2 DEF Same, IsNet, Fields
<1>4. SameLoss(nwsys, nwsys')
  BY <1>3 DEF Same, Fields, SameLoss
<1>5. F \cap {"type", "time", "preprocQ", "inputQ", "statpreprocQ", "statinputQ", "outputQ", "switchQ",
                 "state", "swstate"} = {}
  OBVIOUS
<1>6. LinkSound(nwsys, nwsys.prevHit)
  BY DEF LinkInv
<1> HIDE DEF F
<1>7. LinkSound(nwsys', nwsys.prevHit) /\ \A a, n \in Node : LinkView(nwsys', a, n) = LinkView(nwsys, a, n)
  BY <1>3, <1>5, <1>6, LinkSoundSame
<1>8. q \in Seq(NWmsg) /\ q # << >>
  BY <1>1, <1>2
<1>9. Head(q).msg \in Message /\ b \in Node
  <2>1. Head(q) \in NWmsg
    BY <1>8, HeadAndTail
  <2>2. Head(q).msg \in Message
    BY <2>1, MsgFacts
  <2> QED BY <2>2, NodeFacts
<1>10. \A n \in Node : nwsys'.postprocQ[n] = IF n = r THEN Tail(q) ELSE nwsys.postprocQ[n]
  BY <1>1, <1>3
<1>11. \A a : /\ From(a, q) = From(a, <<Head(q)>>) \o From(a, Tail(q))
              /\ From(a, <<Head(q)>>) = IF b = a THEN <<Head(q).msg>> ELSE << >>
              /\ From(a, Tail(q)) \in Seq(Message)
  <2> TAKE a
  <2>1. /\ From(a, q) = From(a, <<Head(q)>>) \o From(a, Tail(q))
        /\ From(a, <<Head(q)>>) = IF Sender[Head(q).msg] = a THEN <<Head(q).msg>> ELSE << >>
        /\ From(a, Tail(q)) \in Seq(Message)
    BY <1>8, FromHead
  <2> QED BY <2>1
<1> HIDE DEF q, b
<1>12. From(b, q) # << >> /\ From(b, Tail(q)) = Tail(From(b, q))
  <2> DEFINE m == Head(q).msg
             t == From(b, Tail(q))
  <2>1. From(b, q) = <<m>> \o t /\ t \in Seq(Message) /\ m \in Message
    BY <1>9, <1>11
  <2> HIDE DEF m, t
  <2>2. <<m>> \o t # << >> /\ Tail(<<m>> \o t) = t
    BY <2>1
  <2> QED BY <2>1, <2>2 DEF t
<1>13. \A a : a # b => From(a, Tail(q)) = From(a, q)
  <2> SUFFICES ASSUME NEW a, a # b PROVE From(a, Tail(q)) = From(a, q)
    OBVIOUS
  <2>1. From(a, q) = << >> \o From(a, Tail(q)) /\ From(a, Tail(q)) \in Seq(Message)
    BY <1>11
  <2> DEFINE t == From(a, Tail(q))
  <2>2. << >> \o t = t
    <3>1. t \in Seq(Message)
      BY <2>1
    <3> HIDE DEF t
    <3> QED BY <3>1
  <2> QED BY <2>1, <2>2
<1>14. ASSUME NEW a \in Node, NEW n \in Node
       PROVE  From(a, nwsys'.postprocQ[n]) =
                IF a = b /\ n = r THEN Tail(From(b, q)) ELSE From(a, nwsys.postprocQ[n])
  <2>1. CASE n = r
    <3>1. nwsys'.postprocQ[n] = Tail(q) /\ nwsys.postprocQ[n] = q
      BY <1>10, <2>1 DEF q
    <3> QED BY <1>12, <1>13, <2>1, <3>1
  <2>2. CASE n # r
    <3>1. nwsys'.postprocQ[n] = nwsys.postprocQ[n]
      BY <1>10, <2>2
    <3> QED BY <2>2, <3>1
  <2> QED BY <2>1, <2>2
<1>15. \E c \in Node :
         /\ From(c, nwsys.postprocQ[r]) # << >>
         /\ \A a, n \in Node : From(a, nwsys'.postprocQ[n]) =
              IF a = c /\ n = r THEN Tail(From(c, nwsys.postprocQ[r])) ELSE From(a, nwsys.postprocQ[n])
  <2>1. q = nwsys.postprocQ[r]
    BY DEF q
  <2> QED BY <1>9, <1>12, <1>14, <2>1
<1>16. LinkInv' /\ ViewsSame(nwsys, nwsys')
  BY <1>3, <1>4, <1>7 DEF LinkInv, ViewsSame, SameLoss
<1> QED BY <1>4, <1>15, <1>16

\* A message more waits behind a line.
WaitsLast(q, p, p2, x, r) ==
  /\ LineOf(q, p2, r) = LineOf(q, p, r) \o To(r, <<x>>)
  /\ To(r, <<x>>) = IF r \in Receivers(x.msg) THEN <<x.msg>> ELSE << >>
  /\ To(r, <<x>>) \in Seq(Message)

LEMMA LineAppend ==
  ASSUME NEW r, NEW q \in Seq(NWmsg), NEW p \in Seq(NWmsg), NEW x \in NWmsg, NEW p2, p2 = Append(p, x)
  PROVE  WaitsLast(q, p, p2, x, r)
<1>1. <<x>> \in Seq(NWmsg) /\ p2 = p \o <<x>>
  OBVIOUS
<1>2. To(r, p \o <<x>>) = To(r, p) \o To(r, <<x>>)
  BY <1>1, FromConcat
<1>3. To(r, q) \in Seq(Message) /\ To(r, p) \in Seq(Message) /\ To(r, <<x>>) \in Seq(Message)
  <2>1. To(r, q) \in Seq(Message) /\ To(r, p) \in Seq(Message)
    BY LineTypes
  <2>2. To(r, <<x>>) \in Seq(Message)
    BY <1>1, LineTypes
  <2> QED BY <2>1, <2>2
<1>4. To(r, <<x>>) = IF r \in Receivers(x.msg) THEN <<x.msg>> ELSE << >>
  BY FromSmall, Zenon
<1>5. Regroups(To(r, q), To(r, p), To(r, <<x>>))
  BY <1>3, ConcatRegroups
<1>6. LineOf(q, p2, r) = LineOf(q, p, r) \o To(r, <<x>>)
  <2> DEFINE u == To(r, q)
             v == To(r, p)
             w == To(r, <<x>>)
  <2>1. LineOf(q, p2, r) = u \o (v \o w) /\ LineOf(q, p, r) = u \o v
    BY <1>1, <1>2 DEF LineOf
  <2>2. (u \o v) \o w = u \o (v \o w)
    BY <1>5 DEF Regroups
  <2> HIDE DEF u, v, w
  <2>3. LineOf(q, p2, r) = LineOf(q, p, r) \o w
    BY <2>1, <2>2
  <2> QED BY <2>3 DEF w
<1> QED BY <1>3, <1>4, <1>6 DEF WaitsLast

\* On a link with messages to r, x comes last.
Sends1(x, r, V, W) == W = IF r \in Receivers(x.msg) THEN Append(V, x.msg) ELSE V

LEMMA LastOnLink ==
  ASSUME NEW r, NEW x \in NWmsg, NEW A \in Seq(Message), NEW q \in Seq(NWmsg), NEW p \in Seq(NWmsg),
         NEW p2, p2 = Append(p, x), NEW V, V = A \o LineOf(q, p, r), NEW W, W = A \o LineOf(q, p2, r)
  PROVE  Sends1(x, r, V, W)
<1>0. WaitsLast(q, p, p2, x, r)
  BY LineAppend
<1> DEFINE L == LineOf(q, p, r)
           w == To(r, <<x>>)
<1>1. /\ LineOf(q, p2, r) = L \o w /\ w \in Seq(Message)
      /\ w = IF r \in Receivers(x.msg) THEN <<x.msg>> ELSE << >>
  BY <1>0 DEF WaitsLast
<1>2. L \in Seq(Message) /\ x.msg \in Message
  BY LineTypes, MsgFacts
<1> HIDE DEF L, w
<1>3. Regroups(A, L, w)
  BY <1>1, <1>2, ConcatRegroups
<1>4. W = V \o w
  BY <1>1, <1>3 DEF Regroups, L
<1>5. V \in Seq(Message)
  BY <1>2 DEF L
<1>6. V \o <<x.msg>> = Append(V, x.msg) /\ V \o << >> = V
  <2> DEFINE n == x.msg
  <2>1. n \in Message
    BY <1>2
  <2> HIDE DEF n
  <2>2. V \o <<n>> = Append(V, n) /\ V \o << >> = V
    BY <1>5, <2>1
  <2> QED BY <2>2 DEF n
<1> QED BY <1>1, <1>4, <1>6 DEF Sends1

LEMMA UpToLast ==
  ASSUME NEW q \in Seq(NWmsg), NEW x \in NWmsg, NEW t \in Nat, x.waituntil = t, UpTo(q, t)
  PROVE  UpTo(Append(q, x), t)
<1> DEFINE u == <<x>>
<1>1. u \in Seq(NWmsg) /\ (\A k \in 1 .. Len(u) : u[k].waituntil = t) /\ t <= t /\ t \in Int
  OBVIOUS
<1>2. Append(q, x) = q \o u
  OBVIOUS
<1> HIDE DEF u
<1>3. UpTo(q \o u, t)
  BY <1>1, UpToMore
<1> QED BY <1>2, <1>3

\* The waiting messages of a node change, and nothing else that links look at.
LEMMA LinkSoundSent ==
  ASSUME NEW S, NEW last, LinkSound(S, last), NEW s, NEW F, Same(S, s, F), WaitsInOrder(s), OneSegment(s),
         F \cap {"type", "time", "inputQ", "statinputQ", "outputQ", "switchQ", "state", "swstate"} = {}
  PROVE  LinkSound(s, last)
<1>1. /\ s.type = S.type /\ s.time = S.time /\ s.inputQ = S.inputQ /\ s.outputQ = S.outputQ
      /\ s.switchQ = S.switchQ /\ s.state = S.state /\ s.swstate = S.swstate
  BY DEF Same, Fields
<1>2. S.type # "SFDSE" => BusLinks(s)
  BY <1>1 DEF LinkSound, BusLinks
<1>3. S.type = "SFDSE" => SwitchOrder(s, last, last)
  BY <1>1 DEF LinkSound, SwitchOrder, BehindAll
<1> QED BY <1>1, <1>2, <1>3 DEF LinkSound

LEMMA StaticSender ==
  ASSUME NEW m \in Message
  PROVE  StaticNode(Sender[m]) <=> m \in Static
  BY StaticAssumption DEF StaticNode

LEMMA SendMsgLinks ==
  ASSUME NetInv, NetInv', LinkInv, NEW m \in Message, SendMsg(m)
  PROVE  /\ LinkInv' /\ SameLoss(nwsys, nwsys') /\ ArrivedSame(nwsys, nwsys')
         /\ \A a, r \in Node : LinkView(nwsys', a, r) =
              IF a = Sender[m] /\ r \in Receivers(m) THEN Append(LinkView(nwsys, a, r), m)
              ELSE LinkView(nwsys, a, r)
<1> DEFINE S == nwsys
           s == nwsys'
           i == Sender[m]
           x == [msg |-> m, remaining |-> 0, timestamp |-> nwsys.time,
                 waituntil |-> nwsys.time + Predelay[Sender[m]]]
<1>1. Net(S) /\ IsNet(S) /\ S.time \in Nat /\ Queues(S) /\ Net(s)
  <2>1. Sound(S, S.prevHit) /\ Sound(s, s.prevHit)
    BY DEF NetInv
  <2> QED BY <2>1, SoundFacts
<1>2. s = Enqueue(S, m)
  BY DEF SendMsg
<1>3. i \in Node /\ x \in NWmsg /\ x.msg = m /\ x.waituntil = S.time + Predelay[i] /\ S.time + Predelay[i] \in Nat
  <2>1. i \in Node /\ Predelay[i] \in Nat
    BY NodeFacts
  <2> QED BY <1>1, <2>1 DEF NWmsg
<1>4. /\ S.type = "FLEXRAY" /\ m \in Static =>
           s = [S EXCEPT !.statpreprocQ[i] = Append(S.statpreprocQ[i], x)]
      /\ ~ (S.type = "FLEXRAY" /\ m \in Static) =>
           s = [S EXCEPT !.preprocQ[i] = Append(S.preprocQ[i], x)]
  BY <1>2 DEF Enqueue, EnqueueMsg, EnqueueStatic, NewFrame
<1>5. LinkSound(S, S.prevHit) /\ WaitsInOrder(S) /\ OneSegment(S)
  BY DEF LinkInv, LinkSound
<1>6. S.preprocQ \in [Node -> Seq(NWmsg)] /\ S.statpreprocQ \in [Node -> Seq(NWmsg)]
  BY <1>1 DEF Queues
<1>7. StaticNode(i) <=> m \in Static
  BY StaticSender
<1> HIDE DEF S, s, i, x
<1>8. /\ LinkSound(s, S.prevHit) /\ s.prevHit = S.prevHit /\ SameLoss(S, s) /\ ArrivedSame(S, s)
      /\ \A a, r \in Node : a # i => LinkView(s, a, r) = LinkView(S, a, r)
      /\ \A r \in Node : Sends1(x, r, LinkView(S, i, r), LinkView(s, i, r))
  <2>1. CASE S.type = "FLEXRAY" /\ m \in Static
    <3> DEFINE q == Append(S.statpreprocQ[i], x)
               F == {"statpreprocQ"}
    <3>1. s = [S EXCEPT !.statpreprocQ[i] = q]
      BY <1>4, <2>1
    <3>2. q \in Seq(NWmsg) /\ q = Append(S.statpreprocQ[i], x) /\ S.statpreprocQ[i] \in Seq(NWmsg)
      BY <1>3, <1>6
    <3> HIDE DEF q
    <3>3. Same(S, s, F) /\ s.statpreprocQ = [S.statpreprocQ EXCEPT ![i] = q]
      BY <1>1, <3>1 DEF Same, IsNet, Fields
    <3>4. /\ s.type = S.type /\ s.time = S.time /\ s.preprocQ = S.preprocQ /\ s.inputQ = S.inputQ
          /\ s.statinputQ = S.statinputQ /\ s.outputQ = S.outputQ /\ s.switchQ = S.switchQ
          /\ s.prevHit = S.prevHit /\ SameLoss(S, s) /\ ArrivedSame(S, s)
      BY <3>3 DEF Same, Fields, SameLoss, ArrivedSame
    <3>5. s.statpreprocQ[i] = q /\ \A j \in Node : j # i => s.statpreprocQ[j] = S.statpreprocQ[j]
      BY <1>3, <1>6, <3>3
    <3>6. UpTo(q, S.time + Predelay[i])
      <4>1. UpTo(S.statpreprocQ[i], S.time + Predelay[i])
        BY <1>3, <1>5 DEF WaitsInOrder
      <4> QED BY <1>3, <3>2, <4>1, UpToLast
    <3>7. WaitsInOrder(s)
      <4> SUFFICES ASSUME NEW j \in Node
                   PROVE  UpTo(s.preprocQ[j], s.time + Predelay[j]) /\ UpTo(s.statpreprocQ[j], s.time + Predelay[j])
        BY DEF WaitsInOrder
      <4>1. UpTo(S.preprocQ[j], S.time + Predelay[j]) /\ UpTo(S.statpreprocQ[j], S.time + Predelay[j])
        BY <1>5 DEF WaitsInOrder
      <4> QED BY <3>4, <3>5, <3>6, <4>1
    <3>8. OneSegment(s)
      BY <1>5, <1>7, <2>1, <3>4, <3>5 DEF OneSegment
    <3>9. F \cap {"type", "time", "inputQ", "statinputQ", "outputQ", "switchQ", "state", "swstate"} = {}
      OBVIOUS
    <3> HIDE DEF F
    <3>10. LinkSound(s, S.prevHit)
      <4> DEFINE last == S.prevHit
      <4>1. LinkSound(S, last)
        BY <1>5
      <4> HIDE DEF last
      <4>2. LinkSound(s, last)
        BY <3>3, <3>7, <3>8, <3>9, <4>1, LinkSoundSent
      <4> QED BY <4>2 DEF last
    <3>11. ASSUME NEW a \in Node, NEW r \in Node, a # i PROVE LinkView(s, a, r) = LinkView(S, a, r)
      BY <3>4, <3>5, <3>11 DEF LinkView, Ahead, LineOf
    <3>12. ASSUME NEW r \in Node PROVE Sends1(x, r, LinkView(S, i, r), LinkView(s, i, r))
      <4> DEFINE V == LinkView(S, i, r)
                 W == LinkView(s, i, r)
                 A == Ahead(S, i, r)
      <4>1. V = A \o LineOf(S.statinputQ[i], S.statpreprocQ[i], r)
        BY <1>1, <1>3, <1>5, <1>7, <2>1, SegmentView
      <4>2. W = Ahead(s, i, r) \o LineOf(s.statinputQ[i], s.statpreprocQ[i], r)
        BY <1>1, <1>3, <1>7, <2>1, <3>4, <3>8, SegmentView
      <4>3. Ahead(s, i, r) = A
        BY <3>4 DEF Ahead
      <4>4. W = A \o LineOf(S.statinputQ[i], q, r)
        BY <3>4, <3>5, <4>2, <4>3
      <4>5. A \in Seq(Message) /\ S.statinputQ[i] \in Seq(NWmsg)
        BY <1>1, <1>3, ViewTypes, ViewFacts
      <4> HIDE DEF V, W, A
      <4>6. Sends1(x, r, V, W)
        BY <1>3, <3>2, <4>1, <4>4, <4>5, LastOnLink
      <4> QED BY <4>6 DEF V, W
    <3> QED BY <3>4, <3>10, <3>11, <3>12
  <2>2. CASE ~ (S.type = "FLEXRAY" /\ m \in Static)
    <3> DEFINE q == Append(S.preprocQ[i], x)
               F == {"preprocQ"}
    <3>1. s = [S EXCEPT !.preprocQ[i] = q]
      BY <1>4, <2>2
    <3>2. q \in Seq(NWmsg) /\ q = Append(S.preprocQ[i], x) /\ S.preprocQ[i] \in Seq(NWmsg)
      BY <1>3, <1>6
    <3> HIDE DEF q
    <3>3. Same(S, s, F) /\ s.preprocQ = [S.preprocQ EXCEPT ![i] = q]
      BY <1>1, <3>1 DEF Same, IsNet, Fields
    <3>4. /\ s.type = S.type /\ s.time = S.time /\ s.statpreprocQ = S.statpreprocQ /\ s.inputQ = S.inputQ
          /\ s.statinputQ = S.statinputQ /\ s.outputQ = S.outputQ /\ s.switchQ = S.switchQ
          /\ s.prevHit = S.prevHit /\ SameLoss(S, s) /\ ArrivedSame(S, s)
      BY <3>3 DEF Same, Fields, SameLoss, ArrivedSame
    <3>5. s.preprocQ[i] = q /\ \A j \in Node : j # i => s.preprocQ[j] = S.preprocQ[j]
      BY <1>3, <1>6, <3>3
    <3>6. UpTo(q, S.time + Predelay[i])
      <4>1. UpTo(S.preprocQ[i], S.time + Predelay[i])
        BY <1>3, <1>5 DEF WaitsInOrder
      <4> QED BY <1>3, <3>2, <4>1, UpToLast
    <3>7. WaitsInOrder(s)
      <4> SUFFICES ASSUME NEW j \in Node
                   PROVE  UpTo(s.preprocQ[j], s.time + Predelay[j]) /\ UpTo(s.statpreprocQ[j], s.time + Predelay[j])
        BY DEF WaitsInOrder
      <4>1. UpTo(S.preprocQ[j], S.time + Predelay[j]) /\ UpTo(S.statpreprocQ[j], S.time + Predelay[j])
        BY <1>5 DEF WaitsInOrder
      <4> QED BY <3>4, <3>5, <3>6, <4>1
    <3>8. OneSegment(s)
      BY <1>5, <1>7, <2>2, <3>4, <3>5 DEF OneSegment
    <3>9. F \cap {"type", "time", "inputQ", "statinputQ", "outputQ", "switchQ", "state", "swstate"} = {}
      OBVIOUS
    <3> HIDE DEF F
    <3>10. LinkSound(s, S.prevHit)
      <4> DEFINE last == S.prevHit
      <4>1. LinkSound(S, last)
        BY <1>5
      <4> HIDE DEF last
      <4>2. LinkSound(s, last)
        BY <3>3, <3>7, <3>8, <3>9, <4>1, LinkSoundSent
      <4> QED BY <4>2 DEF last
    <3>11. ASSUME NEW a \in Node, NEW r \in Node, a # i PROVE LinkView(s, a, r) = LinkView(S, a, r)
      BY <3>4, <3>5, <3>11 DEF LinkView, Ahead, LineOf
    <3>12. ASSUME NEW r \in Node PROVE Sends1(x, r, LinkView(S, i, r), LinkView(s, i, r))
      <4> DEFINE V == LinkView(S, i, r)
                 W == LinkView(s, i, r)
                 A == Ahead(S, i, r)
      <4>1. V = A \o LineOf(S.inputQ[i], S.preprocQ[i], r)
        BY <1>1, <1>3, <1>5, <1>7, <2>2, SegmentView
      <4>2. W = Ahead(s, i, r) \o LineOf(s.inputQ[i], s.preprocQ[i], r)
        BY <1>1, <1>3, <1>7, <2>2, <3>4, <3>8, SegmentView
      <4>3. Ahead(s, i, r) = A
        BY <3>4 DEF Ahead
      <4>4. W = A \o LineOf(S.inputQ[i], q, r)
        BY <3>4, <3>5, <4>2, <4>3
      <4>5. A \in Seq(Message) /\ S.inputQ[i] \in Seq(NWmsg)
        BY <1>1, <1>3, ViewTypes, ViewFacts
      <4> HIDE DEF V, W, A
      <4>6. Sends1(x, r, V, W)
        BY <1>3, <3>2, <4>1, <4>4, <4>5, LastOnLink
      <4> QED BY <4>6 DEF V, W
    <3> QED BY <3>4, <3>10, <3>11, <3>12
  <2> QED BY <2>1, <2>2
<1>9. ASSUME NEW a \in Node, NEW r \in Node
      PROVE  LinkView(s, a, r) = IF a = i /\ r \in Receivers(m) THEN Append(LinkView(S, a, r), m)
                                 ELSE LinkView(S, a, r)
  <2>1. CASE a # i
    BY <1>8, <2>1
  <2>2. CASE a = i
    <3>1. Sends1(x, r, LinkView(S, i, r), LinkView(s, i, r))
      BY <1>8
    <3> QED BY <1>3, <2>2, <3>1 DEF Sends1
  <2> QED BY <2>1, <2>2
<1>10. LinkInv'
  <2>1. s.overflow = S.overflow /\ S.overflow \in {"BUFFULLDROP", "BUFFULLRETRY"}
    BY <1>8 DEF SameLoss, LinkInv, S
  <2> QED BY <1>8, <2>1 DEF LinkInv, s
<1> QED BY <1>8, <1>9, <1>10 DEF S, s, i

\* Of a line, a node keeps the whole, the first frame or nothing, and none of what waits.
KeptOf(k, q) == k = q \/ k = << >> \/ (q # << >> /\ k = <<Head(q)>>)

LEMMA KeptOnLink ==
  ASSUME NEW r, NEW q \in Seq(NWmsg), NEW p \in Seq(NWmsg), NEW k \in Seq(NWmsg), KeptOf(k, q),
         NEW A \in Seq(Message), NEW B \in Seq(Message),
         NEW V, V = A \o (LineOf(q, p, r) \o B), NEW W, W = A \o (LineOf(k, << >>, r) \o B)
  PROVE  IsSubsequence(W, V)
<1>1. /\ << >> \in Seq(NWmsg) /\ << >> \in Seq(Message)
      /\ To(r, k) \in Seq(Message) /\ To(r, q) \in Seq(Message) /\ To(r, p) \in Seq(Message)
      /\ To(r, << >>) \in Seq(Message)
  BY EmptySeq, LineTypes
<1>2. IsSubsequence(To(r, k), To(r, q))
  <2>1. CASE k = q
    BY <1>1, <2>1, SubsequenceSelf
  <2>2. CASE k = << >>
    BY <2>2, SubsequenceEmpty, FromSmall
  <2>3. CASE q # << >> /\ k = <<Head(q)>>
    <3> DEFINE s == To(r, <<Head(q)>>)
               t == To(r, Tail(q))
    <3>1. To(r, q) = s \o t /\ s \in Seq(Message) /\ t \in Seq(Message)
      BY <2>3, ToHead
    <3> HIDE DEF s, t
    <3>2. IsSubsequence(s, s \o t)
      BY <3>1, SubsequenceOfFront
    <3>3. To(r, k) = s
      BY <2>3 DEF s
    <3> QED BY <3>1, <3>2, <3>3
  <2> QED BY <2>1, <2>2, <2>3 DEF KeptOf
<1>3. IsSubsequence(To(r, << >>), To(r, p))
  BY SubsequenceEmpty, FromSmall
<1>4. IsSubsequence(LineOf(k, << >>, r), LineOf(q, p, r))
  <2> DEFINE a == To(r, k)
             b == To(r, q)
             c == To(r, << >>)
             d == To(r, p)
  <2>1. /\ a \in Seq(Message) /\ b \in Seq(Message) /\ c \in Seq(Message) /\ d \in Seq(Message)
        /\ IsSubsequence(a, b) /\ IsSubsequence(c, d)
    BY <1>1, <1>2, <1>3
  <2> HIDE DEF a, b, c, d
  <2>2. IsSubsequence(a \o c, b \o d)
    BY <2>1, SubsequenceConcat
  <2> QED BY <2>2 DEF LineOf, a, b, c, d
<1> DEFINE x == LineOf(k, << >>, r)
           y == LineOf(q, p, r)
<1>5. x \in Seq(Message) /\ y \in Seq(Message) /\ IsSubsequence(x, y) /\ W = A \o (x \o B) /\ V = A \o (y \o B)
  BY <1>1, <1>4, LineTypes
<1>6. IsSubsequence(A, A) /\ IsSubsequence(B, B)
  BY SubsequenceSelf
<1> HIDE DEF x, y
<1>7. IsSubsequence(x \o B, y \o B)
  BY <1>5, <1>6, SubsequenceConcat
<1> DEFINE u == x \o B
           v == y \o B
<1>8. u \in Seq(Message) /\ v \in Seq(Message) /\ IsSubsequence(u, v) /\ W = A \o u /\ V = A \o v
  BY <1>5, <1>7, ConcatProperties
<1> HIDE DEF u, v
<1>9. IsSubsequence(A \o u, A \o v)
  BY <1>6, <1>8, SubsequenceConcat
<1> QED BY <1>8, <1>9

LEMMA DiscardLinks ==
  ASSUME NetInv, NetInv', LinkInv, NEW i \in Node, DiscardUnsent(i)
  PROVE  /\ LinkInv' /\ SameLoss(nwsys, nwsys') /\ ArrivedSame(nwsys, nwsys')
         /\ \A a, r \in Node : /\ a # i => LinkView(nwsys', a, r) = LinkView(nwsys, a, r)
                               /\ a = i => IsSubsequence(LinkView(nwsys', a, r), LinkView(nwsys, a, r))
<1> DEFINE S == nwsys
           s == nwsys'
           k == KeptLine(nwsys, i)
<1>1. Net(S) /\ Queues(S) /\ Net(s) /\ Sound(S, S.prevHit) /\ S.type \in Kinds
  <2>1. Sound(nwsys, nwsys.prevHit) /\ Sound(nwsys', nwsys'.prevHit)
    BY DEF NetInv
  <2> QED BY <2>1, SoundFacts
<1>2. /\ S.type \notin {"FDMA", "TDMA", "SFDSE"} /\ Same(S, s, {"preprocQ", "inputQ"})
      /\ s.preprocQ = [S.preprocQ EXCEPT ![i] = << >>] /\ s.inputQ = [S.inputQ EXCEPT ![i] = k]
  BY DiscardFacts
<1>3. /\ s.type = S.type /\ s.time = S.time /\ s.statpreprocQ = S.statpreprocQ
      /\ s.statinputQ = S.statinputQ /\ s.outputQ = S.outputQ /\ s.switchQ = S.switchQ
      /\ s.prevHit = S.prevHit /\ SameLoss(S, s) /\ ArrivedSame(S, s)
  BY <1>2 DEF Same, Fields, SameLoss, ArrivedSame
<1>4. /\ S.preprocQ \in [Node -> Seq(NWmsg)] /\ S.inputQ \in [Node -> Seq(NWmsg)]
      /\ S.preprocQ[i] \in Seq(NWmsg) /\ S.inputQ[i] \in Seq(NWmsg)
  BY <1>1 DEF Queues
<1>5. LinkSound(S, S.prevHit) /\ WaitsInOrder(S) /\ OneSegment(S) /\ BusLinks(S)
  BY <1>2 DEF LinkInv, LinkSound
<1>6. KeptOf(k, S.inputQ[i]) /\ (S.type \in {"NCM", "FLEXRAY"} => k = S.inputQ[i])
  <2>1. CASE S.type \in {"NCM", "FLEXRAY"}
    BY <2>1 DEF KeptLine, KeptOf
  <2>2. CASE S.type \notin {"NCM", "FLEXRAY"} /\ S.sending # i
    BY <2>2 DEF KeptLine, KeptOf
  <2>3. CASE S.type \notin {"NCM", "FLEXRAY"} /\ S.sending = i
    <3>1. S.type \in {"CSMACD", "CSMAAMP", "RR"} /\ Lines(S) /\ OneSends(S)
      BY <1>1, <1>2, <2>3 DEF Kinds, Sound, OneMedium
    <3>2. S.state[i] = 1
      BY <2>3, <3>1 DEF OneSends
    <3>3. Busy(MsgFrom(i), S.inputQ[i])
      BY <3>1, <3>2 DEF Lines, Line, Sends
    <3>4. S.inputQ[i] # << >>
      BY <3>3 DEF Busy
    <3> QED BY <2>3, <3>4 DEF KeptLine, KeptOf
  <2> QED BY <2>1, <2>2, <2>3
<1> HIDE DEF S, s, k
<1>7. k \in Seq(NWmsg)
  <2>1. S.inputQ[i] # << >> => <<Head(S.inputQ[i])>> \in Seq(NWmsg)
    <3>1. S.inputQ[i] # << >> => Head(S.inputQ[i]) \in NWmsg
      BY <1>4, HeadAndTail
    <3> QED BY <3>1
  <2> QED BY <1>4, <1>6, <2>1, EmptySeq DEF KeptOf
<1>8. /\ s.inputQ[i] = k /\ s.preprocQ[i] = << >>
      /\ \A j \in Node : j # i => s.inputQ[j] = S.inputQ[j] /\ s.preprocQ[j] = S.preprocQ[j]
  BY <1>2, <1>4
<1>9. WaitsInOrder(s)
  <2> SUFFICES ASSUME NEW j \in Node
               PROVE  UpTo(s.preprocQ[j], s.time + Predelay[j]) /\ UpTo(s.statpreprocQ[j], s.time + Predelay[j])
    BY DEF WaitsInOrder
  <2>1. UpTo(S.preprocQ[j], S.time + Predelay[j]) /\ UpTo(S.statpreprocQ[j], S.time + Predelay[j])
    BY <1>5 DEF WaitsInOrder
  <2>2. \A t : UpTo(<< >>, t)
    BY DEF UpTo
  <2> QED BY <1>3, <1>8, <2>1, <2>2
<1>10. OneSegment(s)
  BY <1>3, <1>5, <1>6, <1>8 DEF OneSegment
<1>11. BusLinks(s)
  BY <1>3, <1>5, <1>9, <1>10 DEF BusLinks
<1>12. LinkSound(s, s.prevHit)
  BY <1>2, <1>3, <1>9, <1>10, <1>11 DEF LinkSound
<1>13. LinkInv'
  <2>1. s.overflow = S.overflow /\ S.overflow \in {"BUFFULLDROP", "BUFFULLRETRY"}
    BY <1>3 DEF SameLoss, LinkInv, S
  <2> QED BY <1>12, <2>1 DEF LinkInv, s
<1>14. ASSUME NEW a \in Node, NEW r \in Node, a # i PROVE LinkView(s, a, r) = LinkView(S, a, r)
  BY <1>3, <1>8, <1>14 DEF LinkView, Ahead, LineOf
<1>15. ASSUME NEW r \in Node PROVE IsSubsequence(LinkView(s, i, r), LinkView(S, i, r))
  <2> DEFINE A == Ahead(S, i, r)
             B == LineOf(S.statinputQ[i], S.statpreprocQ[i], r)
             q == S.inputQ[i]
             p == S.preprocQ[i]
             V == LinkView(S, i, r)
             W == LinkView(s, i, r)
  <2>1. A \in Seq(Message) /\ B \in Seq(Message)
    BY <1>1, ViewTypes
  <2>2. V = A \o (LineOf(q, p, r) \o B)
    BY DEF LinkView
  <2>3. W = A \o (LineOf(k, << >>, r) \o B)
    BY <1>3, <1>8 DEF LinkView, Ahead
  <2>4. q \in Seq(NWmsg) /\ p \in Seq(NWmsg) /\ KeptOf(k, q)
    BY <1>4, <1>6
  <2> HIDE DEF A, B, q, p, V, W
  <2>5. IsSubsequence(W, V)
    BY <1>7, <2>1, <2>2, <2>3, <2>4, KeptOnLink
  <2> QED BY <2>5 DEF V, W
<1> QED BY <1>3, <1>13, <1>14, <1>15 DEF S, s

\* What a network with a switch needs
ShortIfSwitched == (\E b \in Scenario : b.type = "SFDSE") => ShortPostdelay

\* At first nothing is on the way.
Nothing(S) == \A a, r \in Node : LinkView(S, a, r) = << >> /\ From(a, S.postprocQ[r]) = << >>

LEMMA InitLinks ==
  ASSUME Init, ShortIfSwitched
  PROVE  LinkInv /\ Nothing(nwsys)
<1>1. PICK b \in Scenario, hit \in {0, MaxTimestep} :
       /\ unsent = b.sends /\ discards = b.discards
       /\ nwsys = [type |-> b.type, buftype |-> b.buftype, overflow |-> b.overflow,
                lossprob |-> b.lossprob, schedule |-> b.schedule,
                time |-> 0, prevHit |-> 0, nextHit |-> hit,
                preprocQ  |-> [i \in Node |-> << >>], inputQ |-> [i \in Node |-> << >>],
                statpreprocQ |-> [i \in Node |-> << >>], statinputQ |-> [i \in Node |-> << >>],
                outputQ   |-> [i \in Node |-> << >>], switchQ |-> [i \in Node |-> << >>],
                postprocQ |-> [i \in Node |-> << >>], outputs |-> [i \in Node |-> 0],
                state |-> [i \in Node |-> 0], swstate |-> [i \in Node |-> 0],
                collisions |-> [i \in Node |-> 0], until |-> [i \in Node |-> 0],
                switchmem |-> SwitchMem, nodemem |-> [i \in Node |-> SwitchMem \div NbrOfNodes],
                sending |-> -1, waituntil |-> 0, lasttime |-> -1,
                rrturn |-> NbrOfNodes - 1, nextNode |-> 0,
                slotcount |-> -1, currslottime |-> -SlotTime,
                miniSlotCount |-> -1, msgMiniSlots |-> 0, idleUntil |-> MaxTimestep]
  BY DEF Init
<1>2. b.overflow \in {"BUFFULLDROP", "BUFFULLRETRY"}
  BY ScenarioAssumption
<1>3. /\ nwsys.type = b.type /\ nwsys.overflow = b.overflow /\ nwsys.time = 0 /\ nwsys.prevHit = 0
      /\ \A i \in Node : /\ nwsys.preprocQ[i] = << >> /\ nwsys.inputQ[i] = << >>
                         /\ nwsys.statpreprocQ[i] = << >> /\ nwsys.statinputQ[i] = << >>
                         /\ nwsys.outputQ[i] = << >> /\ nwsys.switchQ[i] = << >> /\ nwsys.postprocQ[i] = << >>
                         /\ nwsys.state[i] = 0 /\ nwsys.swstate[i] = 0
  BY <1>1
<1>4. \A t : UpTo(<< >>, t) /\ WaitsUpTo(<< >>, t) /\ HasWaited(<< >>, t) /\ InLine(<< >>, t)
  BY DEF UpTo, WaitsUpTo, HasWaited, InLine
<1>5. \A n, t, o : Behind(<< >>, << >>, n, t, o)
  BY DEF Behind
<1>6. WaitsInOrder(nwsys) /\ OneSegment(nwsys)
  BY <1>3, <1>4 DEF WaitsInOrder, OneSegment
<1>7. BusLinks(nwsys)
  BY <1>3, <1>4, <1>6 DEF BusLinks
<1>8. SwitchOrder(nwsys, nwsys.prevHit, nwsys.prevHit)
  BY <1>3, <1>4, <1>5 DEF SwitchOrder
<1>9. nwsys.type = "SFDSE" => ShortPostdelay
  BY <1>3 DEF ShortIfSwitched
<1>10. LinkInv
  BY <1>2, <1>3, <1>6, <1>7, <1>8, <1>9 DEF LinkInv, LinkSound
<1>11. ASSUME NEW a \in Node, NEW r \in Node
       PROVE  LinkView(nwsys, a, r) = << >> /\ From(a, nwsys.postprocQ[r]) = << >>
  <2>1. From(a, << >>) = << >> /\ LineOf(<< >>, << >>, r) = << >>
    BY FromSmall, EmptyLine
  <2>2. << >> \o << >> = << >>
    BY EmptySeq, ConcatEmptySeq
  <2> QED BY <1>3, <2>1, <2>2 DEF LinkView, Ahead
<1> QED BY <1>10, <1>11 DEF Nothing

\* The parts of a link, one after the other
Flat(o, s, i, p, si, sp) == ((((o \o s) \o i) \o p) \o si) \o sp
Paired(o, s, i, p, si, sp) == (o \o s) \o ((i \o p) \o (si \o sp))
SameParts(o, s, i, p, si, sp) == Flat(o, s, i, p, si, sp) = Paired(o, s, i, p, si, sp)

LEMMA PartsRegroup ==
  ASSUME NEW A, NEW o \in Seq(A), NEW s \in Seq(A), NEW i \in Seq(A), NEW p \in Seq(A),
         NEW si \in Seq(A), NEW sp \in Seq(A)
  PROVE  SameParts(o, s, i, p, si, sp)
<1> DEFINE x == o \o s
           y == i \o p
           z == si \o sp
           w == x \o y
<1>1. x \in Seq(A) /\ y \in Seq(A) /\ z \in Seq(A)
  BY ConcatProperties
<1> HIDE DEF x, y, z
<1>2. Regroups(x, i, p)
  BY <1>1, ConcatRegroups
<1>3. (x \o i) \o p = w
  BY <1>2 DEF Regroups, y
<1>4. w \in Seq(A)
  BY <1>1, ConcatProperties
<1>5. Regroups(x, y, z)
  BY <1>1, ConcatRegroups
<1>6. w \o z = x \o (y \o z)
  BY <1>5 DEF Regroups
<1> HIDE DEF w
<1>7. Regroups(w, si, sp)
  BY <1>4, ConcatRegroups
<1>8. (w \o si) \o sp = w \o z
  BY <1>7 DEF Regroups, z
<1> QED BY <1>3, <1>6, <1>8 DEF SameParts, Flat, Paired, x, y, z

TransitOf(S, a, r) == Flat(From(a, S.outputQ[r]), From(a, S.switchQ[r]), To(r, S.inputQ[a]), To(r, S.preprocQ[a]),
                           To(r, S.statinputQ[a]), To(r, S.statpreprocQ[a]))

LEMMA TransitIsView ==
  ASSUME NEW S, Net(S), NEW a \in Node, NEW r \in Node
  PROVE  TransitOf(S, a, r) = LinkView(S, a, r)
<1> DEFINE o == From(a, S.outputQ[r])
           s == From(a, S.switchQ[r])
           i == To(r, S.inputQ[a])
           p == To(r, S.preprocQ[a])
           si == To(r, S.statinputQ[a])
           sp == To(r, S.statpreprocQ[a])
<1>1. /\ o \in Seq(Message) /\ s \in Seq(Message) /\ i \in Seq(Message) /\ p \in Seq(Message)
      /\ si \in Seq(Message) /\ sp \in Seq(Message)
  BY ViewFacts
<1> HIDE DEF o, s, i, p, si, sp
<1>2. SameParts(o, s, i, p, si, sp)
  BY <1>1, PartsRegroup
<1>3. TransitOf(S, a, r) = Flat(o, s, i, p, si, sp)
  BY DEF TransitOf, o, s, i, p, si, sp
<1>4. LinkView(S, a, r) = Paired(o, s, i, p, si, sp)
  BY DEF LinkView, Ahead, LineOf, Paired, o, s, i, p, si, sp
<1> QED BY <1>2, <1>3, <1>4 DEF SameParts

LEMMA TransitAt ==
  ASSUME NetInv, NEW a \in Node, NEW r \in Node
  PROVE  /\ Transit[<<a, r>>] = LinkView(nwsys, a, r)
         /\ Arrived[<<a, r>>] = From(a, nwsys.postprocQ[r])
<1>1. Net(nwsys)
  BY SoundFacts DEF NetInv
<1>2. TransitOf(nwsys, a, r) = LinkView(nwsys, a, r)
  BY <1>1, TransitIsView
<1>3. Transit[<<a, r>>] = TransitOf(nwsys, a, r)
  BY DEF Transit, TransitOf, Flat
<1> QED BY <1>2, <1>3 DEF Arrived

LEMMA TransitNext ==
  ASSUME NetInv', NEW a \in Node, NEW r \in Node
  PROVE  /\ Transit'[<<a, r>>] = LinkView(nwsys', a, r)
         /\ Arrived'[<<a, r>>] = From(a, nwsys'.postprocQ[r])
<1>1. Net(nwsys')
  <2>1. Sound(nwsys', nwsys'.prevHit)
    BY DEF NetInv
  <2> QED BY <2>1, SoundFacts
<1> DEFINE S == nwsys'
<1>2. Net(S)
  BY <1>1
<1>3. /\ Transit'[<<a, r>>] = TransitOf(S, a, r)
      /\ Arrived'[<<a, r>>] = From(a, S.postprocQ[r])
  BY DEF Transit, TransitOf, Flat, Arrived
<1> HIDE DEF S
<1>4. TransitOf(S, a, r) = LinkView(S, a, r)
  BY <1>2, TransitIsView
<1> QED BY <1>3, <1>4 DEF S

\* What comes behind what has arrived
Continues(was, C, now) == /\ Links!IsPrefix(was, now)
                          /\ SubSeq(now, Len(was) + 1, Len(now)) = C

LEMMA ComesBehind ==
  ASSUME NEW A, NEW was \in Seq(A), NEW C \in Seq(A), NEW now, now = was \o C
  PROVE  Continues(was, C, now)
<1>1. /\ now \in Seq(A) /\ Len(now) = Len(was) + Len(C) /\ Len(was) \in Nat /\ Len(C) \in Nat
      /\ \A k \in 1 .. Len(was) : now[k] = was[k]
      /\ \A k \in 1 .. Len(C) : now[Len(was) + k] = C[k]
  BY ConcatProperties, LenProperties
<1>2. Links!IsPrefix(was, now)
  <2>1. SubSeq(was, 1, Len(was)) = was
    OBVIOUS
  <2>2. SubSeq(now, 1, Len(was)) = was
    BY <1>1
  <2> QED BY <1>1, <2>1, <2>2 DEF Links!IsPrefix
<1>3. SubSeq(now, Len(was) + 1, Len(now)) = C
  <2> DEFINE d == SubSeq(now, Len(was) + 1, Len(now))
  <2>1. d \in Seq(A) /\ Len(d) = Len(C) /\ \A k \in 1 .. Len(C) : d[k] = now[Len(was) + k]
    BY <1>1
  <2> HIDE DEF d
  <2>2. \A k \in 1 .. Len(C) : d[k] = C[k]
    BY <1>1, <2>1
  <2>3. d = C
    BY <2>1, <2>2, SeqEqual
  <2> QED BY <2>3 DEF d
<1> QED BY <1>2, <1>3 DEF Continues

LossMay(S) == S.lossprob = 1 \/ (S.type = "SFDSE" /\ S.overflow = "BUFFULLDROP")

LEMMA CarryStep ==
  ASSUME NetInv, NetInv', SameLoss(nwsys, nwsys'), \A a, r \in Node : BringsIn(nwsys, nwsys', a, r)
  PROVE  Links!Carry
<1>1. LossMay(nwsys') = LossMay(nwsys)
  BY DEF LossMay, SameLoss
<1>2. ASSUME NEW l \in Links!Link
      PROVE  /\ Links!IsPrefix(Arrived[l], Arrived'[l])
             /\ LET C == SubSeq(Arrived'[l], Len(Arrived[l]) + 1, Len(Arrived'[l])) \o Transit'[l]
                IN  C = Transit[l] \/ (LossMay(nwsys) /\ Links!IsSubsequence(C, Transit[l]))
  <2>1. PICK a \in Node, r \in Node : l = <<a, r>>
    BY DEF Links!Link
  <2> DEFINE was == From(a, nwsys.postprocQ[r])
             now == From(a, nwsys'.postprocQ[r])
             V == LinkView(nwsys', a, r)
             W == LinkView(nwsys, a, r)
  <2>2. Arrived[l] = was /\ Arrived'[l] = now /\ Transit[l] = W /\ Transit'[l] = V
    BY <2>1, TransitAt, TransitNext
  <2>3. PICK C \in Seq(Message) : now = was \o C /\ IsSubsequence(C \o V, W) /\ (Lossless(nwsys) => C \o V = W)
    BY DEF BringsIn
  <2>4. was \in Seq(Message)
    <3>1. Net(nwsys)
      BY SoundFacts DEF NetInv
    <3> QED BY <3>1, ViewFacts
  <2>5. Lossless(nwsys) <=> ~ LossMay(nwsys)
    BY DEF Lossless, LossMay
  <2> HIDE DEF was, now, V, W
  <2>6. Continues(was, C, now)
    BY <2>3, <2>4, ComesBehind
  <2>7. Links!IsSubsequence(C \o V, W)
    BY <2>3 DEF IsSubsequence, Links!IsSubsequence
  <2> QED BY <2>2, <2>3, <2>5, <2>6, <2>7 DEF Continues
<1> QED BY <1>1, <1>2 DEF Links!Carry, LossMay

LEMMA SendStep ==
  ASSUME NetInv, NetInv', SameLoss(nwsys, nwsys'), ArrivedSame(nwsys, nwsys'), NEW m \in Message,
         \A a, r \in Node : LinkView(nwsys', a, r) =
              IF a = Sender[m] /\ r \in Receivers(m) THEN Append(LinkView(nwsys, a, r), m)
              ELSE LinkView(nwsys, a, r)
  PROVE  Links!LinkSend(m)
<1>1. LossMay(nwsys') = LossMay(nwsys)
  BY DEF LossMay, SameLoss
<1>2. ASSUME NEW a \in Node, NEW r \in Node
      PROVE  /\ Arrived'[<<a, r>>] = Arrived[<<a, r>>]
             /\ Transit'[<<a, r>>] = IF a = Sender[m] /\ r \in Receivers(m) THEN Append(Transit[<<a, r>>], m)
                                     ELSE Transit[<<a, r>>]
  <2>1. Transit[<<a, r>>] = LinkView(nwsys, a, r) /\ Arrived[<<a, r>>] = From(a, nwsys.postprocQ[r])
    BY TransitAt
  <2>2. Transit'[<<a, r>>] = LinkView(nwsys', a, r) /\ Arrived'[<<a, r>>] = From(a, nwsys'.postprocQ[r])
    BY TransitNext
  <2>3. nwsys'.postprocQ[r] = nwsys.postprocQ[r]
    BY DEF ArrivedSame
  <2>4. LinkView(nwsys', a, r) = IF a = Sender[m] /\ r \in Receivers(m) THEN Append(LinkView(nwsys, a, r), m)
                                 ELSE LinkView(nwsys, a, r)
    OBVIOUS
  <2> QED BY <2>1, <2>2, <2>3, <2>4, Zenon
<1>3. Arrived' = Arrived
  BY <1>2 DEF Arrived, ArrivedSame
<1>4. Transit' = [l \in Node \X Node |-> IF l[1] = Sender[m] /\ l[2] \in Receivers(m)
                                         THEN Append(Transit[l], m) ELSE Transit[l]]
  <2>1. \A l \in Node \X Node : Transit'[l] = IF l[1] = Sender[m] /\ l[2] \in Receivers(m)
                                              THEN Append(Transit[l], m) ELSE Transit[l]
    BY <1>2
  <2>2. Transit' = [l \in Node \X Node |-> Transit'[l]]
    BY DEF Transit
  <2> QED BY <2>1, <2>2
<1> QED BY <1>1, <1>3, <1>4 DEF Links!LinkSend, Links!Link, LossMay

LEMMA SameStep ==
  ASSUME NetInv, NetInv', SameLoss(nwsys, nwsys'), ArrivedSame(nwsys, nwsys'), ViewsSame(nwsys, nwsys')
  PROVE  UNCHANGED Links!linkVars
<1>1. LossMay(nwsys') = LossMay(nwsys)
  BY DEF LossMay, SameLoss
<1>2. Arrived' = Arrived
  BY DEF Arrived, ArrivedSame
<1>3. Transit' = Transit
  <2>1. \A l \in Node \X Node : Transit'[l] = Transit[l]
    BY TransitAt, TransitNext DEF ViewsSame
  <2>2. Transit' = [l \in Node \X Node |-> Transit'[l]] /\ Transit = [l \in Node \X Node |-> Transit[l]]
    BY DEF Transit
  <2> QED BY <2>1, <2>2
<1> QED BY <1>1, <1>2, <1>3 DEF Links!linkVars, LossMay

LEMMA GetStep ==
  ASSUME NetInv, NetInv', SameLoss(nwsys, nwsys'), ViewsSame(nwsys, nwsys'), NEW r \in Node, NEW b \in Node,
         From(b, nwsys.postprocQ[r]) # << >>,
         \A a, n \in Node : From(a, nwsys'.postprocQ[n]) =
                   IF a = b /\ n = r THEN Tail(From(b, nwsys.postprocQ[r])) ELSE From(a, nwsys.postprocQ[n])
  PROVE  Links!LinkGet
<1>1. LossMay(nwsys') = LossMay(nwsys)
  BY DEF LossMay, SameLoss
<1>2. Transit' = Transit
  <2>1. \A l \in Node \X Node : Transit'[l] = Transit[l]
    BY TransitAt, TransitNext DEF ViewsSame
  <2>2. Transit' = [l \in Node \X Node |-> Transit'[l]] /\ Transit = [l \in Node \X Node |-> Transit[l]]
    BY DEF Transit
  <2> QED BY <2>1, <2>2
<1>3. Arrived[<<b, r>>] # << >>
  BY TransitAt
<1>4. Arrived' = [Arrived EXCEPT ![<<b, r>>] = Tail(Arrived[<<b, r>>])]
  <2>1. ASSUME NEW a \in Node, NEW n \in Node
        PROVE  Arrived'[<<a, n>>] = IF a = b /\ n = r THEN Tail(Arrived[<<b, r>>]) ELSE Arrived[<<a, n>>]
    <3>1. Arrived[<<a, n>>] = From(a, nwsys.postprocQ[n]) /\ Arrived[<<b, r>>] = From(b, nwsys.postprocQ[r])
      BY TransitAt
    <3>2. Arrived'[<<a, n>>] = From(a, nwsys'.postprocQ[n])
      BY TransitNext
    <3>3. From(a, nwsys'.postprocQ[n]) =
            IF a = b /\ n = r THEN Tail(From(b, nwsys.postprocQ[r])) ELSE From(a, nwsys.postprocQ[n])
      OBVIOUS
    <3> QED BY <3>1, <3>2, <3>3, Zenon
  <2>2. \A l \in Node \X Node : Arrived'[l] = IF l = <<b, r>> THEN Tail(Arrived[<<b, r>>]) ELSE Arrived[l]
    BY <2>1
  <2>3. /\ Arrived' = [l \in Node \X Node |-> Arrived'[l]] /\ Arrived = [l \in Node \X Node |-> Arrived[l]]
    BY DEF Arrived
  <2> QED BY <2>2, <2>3
<1>5. <<b, r>> \in Links!Link
  BY DEF Links!Link
<1> QED BY <1>1, <1>2, <1>3, <1>4, <1>5 DEF Links!LinkGet, LossMay

LEMMA DiscardStep ==
  ASSUME NetInv, NetInv', SameLoss(nwsys, nwsys'), ArrivedSame(nwsys, nwsys'), NEW i \in Node,
         \A a, r \in Node : /\ a # i => LinkView(nwsys', a, r) = LinkView(nwsys, a, r)
                            /\ a = i => IsSubsequence(LinkView(nwsys', a, r), LinkView(nwsys, a, r))
  PROVE  Links!LinkDiscard
<1>1. LossMay(nwsys') = LossMay(nwsys)
  BY DEF LossMay, SameLoss
<1>2. Arrived' = Arrived
  BY DEF Arrived, ArrivedSame
<1>3. ASSUME NEW l \in Node \X Node
      PROVE  IF l[1] = i THEN Links!IsSubsequence(Transit'[l], Transit[l]) ELSE Transit'[l] = Transit[l]
  <2>1. PICK a \in Node, r \in Node : l = <<a, r>>
    OBVIOUS
  <2> DEFINE V == LinkView(nwsys', a, r)
             W == LinkView(nwsys, a, r)
  <2>2. Transit[l] = W /\ Transit'[l] = V
    BY <2>1, TransitAt, TransitNext
  <2>3. (a # i => V = W) /\ (a = i => IsSubsequence(V, W))
    OBVIOUS
  <2> HIDE DEF V, W
  <2>4. a = i => Links!IsSubsequence(V, W)
    BY <2>3 DEF IsSubsequence, Links!IsSubsequence
  <2>5. l[1] = a
    BY <2>1
  <2> QED BY <2>2, <2>3, <2>4, <2>5
<1> QED BY <1>1, <1>2, <1>3 DEF Links!LinkDiscard, Links!Link, LossMay

LEMMA NextLinks ==
  ASSUME NetInv, NetInv', LinkInv, [Next]_vars
  PROVE  LinkInv' /\ [Links!LinksNext]_(Links!linkVars)
<1>1. CASE RunNetwork
  <2>1. LinkInv' /\ SameLoss(nwsys, nwsys') /\ \A a, r \in Node : BringsIn(nwsys, nwsys', a, r)
    BY <1>1, RunLinks
  <2>2. Links!Carry
    BY <2>1, CarryStep
  <2> QED BY <2>1, <2>2 DEF Links!LinksNext
<1>2. CASE Advance
  <2>1. LinkInv' /\ SameLoss(nwsys, nwsys') /\ ViewsSame(nwsys, nwsys') /\ ArrivedSame(nwsys, nwsys')
    BY <1>2, AdvanceLinks
  <2>2. UNCHANGED Links!linkVars
    BY <2>1, SameStep
  <2> QED BY <2>1, <2>2
<1>3. ASSUME NEW m \in Message, SendMsg(m)
      PROVE  LinkInv' /\ [Links!LinksNext]_(Links!linkVars)
  <2>1. /\ LinkInv' /\ SameLoss(nwsys, nwsys') /\ ArrivedSame(nwsys, nwsys')
        /\ \A a, r \in Node : LinkView(nwsys', a, r) =
             IF a = Sender[m] /\ r \in Receivers(m) THEN Append(LinkView(nwsys, a, r), m)
             ELSE LinkView(nwsys, a, r)
    BY <1>3, SendMsgLinks
  <2>2. Links!LinkSend(m)
    BY <2>1, SendStep
  <2> QED BY <2>1, <2>2 DEF Links!LinksNext
<1>4. ASSUME NEW r \in Node, GetMsg(r)
      PROVE  LinkInv' /\ [Links!LinksNext]_(Links!linkVars)
  <2>1. LinkInv' /\ SameLoss(nwsys, nwsys') /\ ViewsSame(nwsys, nwsys')
    BY <1>4, GetMsgLinks
  <2>2. PICK b \in Node :
          /\ From(b, nwsys.postprocQ[r]) # << >>
          /\ \A a, n \in Node : From(a, nwsys'.postprocQ[n]) =
               IF a = b /\ n = r THEN Tail(From(b, nwsys.postprocQ[r])) ELSE From(a, nwsys.postprocQ[n])
    BY <1>4, GetMsgLinks
  <2>3. Links!LinkGet
    BY <2>1, <2>2, GetStep
  <2> QED BY <2>1, <2>3 DEF Links!LinksNext
<1>5. ASSUME NEW i \in Node, DiscardUnsent(i)
      PROVE  LinkInv' /\ [Links!LinksNext]_(Links!linkVars)
  <2>1. /\ LinkInv' /\ SameLoss(nwsys, nwsys') /\ ArrivedSame(nwsys, nwsys')
        /\ \A a, r \in Node : /\ a # i => LinkView(nwsys', a, r) = LinkView(nwsys, a, r)
                              /\ a = i => IsSubsequence(LinkView(nwsys', a, r), LinkView(nwsys, a, r))
    BY <1>5, DiscardLinks
  <2>2. Links!LinkDiscard
    BY <2>1, DiscardStep
  <2> QED BY <2>1, <2>2 DEF Links!LinksNext
<1>6. ASSUME NEW i \in Node, SetNextNode(i)
      PROVE  LinkInv' /\ [Links!LinksNext]_(Links!linkVars)
  <2>1. LinkInv' /\ SameLoss(nwsys, nwsys') /\ ViewsSame(nwsys, nwsys') /\ ArrivedSame(nwsys, nwsys')
    BY <1>6, NextNodeLinks
  <2>2. UNCHANGED Links!linkVars
    BY <2>1, SameStep
  <2> QED BY <2>1, <2>2
<1>7. CASE UNCHANGED vars
  <2>1. nwsys' = nwsys
    BY <1>7 DEF vars
  <2>2. LinkInv' /\ SameLoss(nwsys, nwsys') /\ ViewsSame(nwsys, nwsys') /\ ArrivedSame(nwsys, nwsys')
    BY <2>1 DEF LinkInv, SameLoss, ViewsSame, ArrivedSame
  <2>3. UNCHANGED Links!linkVars
    BY <2>2, SameStep
  <2> QED BY <2>2, <2>3
<1> QED BY <1>1, <1>2, <1>3, <1>4, <1>5, <1>6, <1>7 DEF Next

LEMMA LinksAtFirst ==
  ASSUME NetInv, LinkInv, Nothing(nwsys)
  PROVE  Links!LinksInit
<1>1. \A l \in Node \X Node : Transit[l] = << >> /\ Arrived[l] = << >>
  BY TransitAt DEF Nothing
<1>2. /\ Transit = [l \in Node \X Node |-> << >>]
      /\ Arrived = [l \in Node \X Node |-> << >>]
  <2>1. Transit = [l \in Node \X Node |-> Transit[l]]
    BY DEF Transit
  <2>2. Arrived = [l \in Node \X Node |-> Arrived[l]]
    BY DEF Arrived
  <2> QED BY <1>1, <2>1, <2>2
<1> QED BY <1>2 DEF Links!LinksInit, Links!Link

\* Between any two nodes the network is a FIFO link that neither duplicates nor
\* invents a message, and loses one only where the block is told to or its sender
\* discards it: in every protocol, through the switch where the delay behind it is
\* shorter than the sending of two shortest frames.
THEOREM NetworkLinks ==
  ASSUME DiscardsElsewhere, ShortIfSwitched
  PROVE  Spec => LinksSpec
<1>1. Init => NetInv
  BY InitSound
<1>2. NetInv /\ [Next]_vars => NetInv'
  BY NextSound
<1>3. Init => LinkInv /\ Links!LinksInit
  <2> SUFFICES ASSUME Init PROVE LinkInv /\ Links!LinksInit
    OBVIOUS
  <2>1. LinkInv /\ Nothing(nwsys)
    BY InitLinks
  <2> QED BY <1>1, <2>1, LinksAtFirst
<1>4. NetInv /\ NetInv' /\ LinkInv /\ [Next]_vars => LinkInv' /\ [Links!LinksNext]_(Links!linkVars)
  BY NextLinks
<1> QED BY <1>1, <1>2, <1>3, <1>4, PTL DEF Spec, LinksSpec, Links!LinksSpec
=============================================================================
