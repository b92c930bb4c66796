------------------------- MODULE TTProtocols_proofs -------------------------
(***************************************************************************)
(* What the protocols of the wired network block do to a network, proved   *)
(* for every network: every operator of TTFrames, TTContention, TTSlots,   *)
(* TTFlexRay and TTSwitch keeps the types of the fields, the lines of      *)
(* frames and "sending" in step, asks to be called in time for what it     *)
(* leaves to be done, and gives back the memory of the switch that it took.*)
(***************************************************************************)
EXTENDS TTContention, TTFlexRay, TTSwitch, QueueLemmas, FiniteSetTheorems

-----------------------------------------------------------------------------
(***************************************************************************)
(* Frames and lines of frames.                                             *)
(***************************************************************************)
MsgFrom(i) == {x \in NWmsg : Sender[x.msg] = i}
MsgTo(r)   == {x \in NWmsg : r \in Receivers(x.msg)}
Whole(A)   == {x \in A : x.remaining = Frame(x.msg)}

\* q holds frames of A that are whole, or all but the first, which is being sent.
Idle(A, q) == q \in Seq(Whole(A))
Busy(A, q) == q \in Seq(A) /\ q # << >> /\ Tail(q) \in Seq(Whole(A)) /\ Head(q).remaining > 0

LEMMA NodeFacts ==
  /\ \A m \in Message : Sender[m] \in Node /\ Receivers(m) \in SUBSET Node
  /\ NbrOfNodes \in Nat \ {0} /\ Node \subseteq Nat /\ -1 \notin Node /\ Node # {} /\ 0 \in Node
  /\ MaxTimestep \in Nat \ {0}
  /\ \A i \in Node : Predelay[i] \in Nat /\ Postdelay[i] \in Nat
<1>1. NbrOfNodes \in Nat \ {0}
  BY MessagesAssumption
<1>2. Node \subseteq Nat /\ -1 \notin Node /\ 0 \in Node
  BY <1>1 DEF Node
<1>3. \A m \in Message : Sender[m] \in Node /\ Receiver[m] \in Node \cup {-1}
  BY MessagesAssumption
<1> QED BY <1>1, <1>2, <1>3, MessagesAssumption DEF Receivers

LEMMA FrameFacts ==
  /\ Minsize \in Nat \ {0} /\ Datarate \in Nat \ {0}
  /\ \A m \in Message : Length[m] \in Nat /\ Frame(m) \in Nat \ {0} /\ Frame(m) % Datarate = 0
  BY MessagesAssumption, DatarateAssumption DEF Frame

LEMMA MsgFacts ==
  /\ \A i : MsgFrom(i) \subseteq NWmsg /\ MsgTo(i) \subseteq NWmsg
  /\ \A A : Whole(A) \subseteq A
  /\ \A x \in NWmsg : x.msg \in Message /\ x.remaining \in Int /\ x.timestamp \in Nat /\ x.waituntil \in Nat
  BY DEF MsgFrom, MsgTo, Whole, NWmsg

LEMMA MsgExcept ==
  ASSUME NEW x \in NWmsg, NEW n \in Int
  PROVE  /\ [x EXCEPT !.remaining = n] \in NWmsg
         /\ [x EXCEPT !.remaining = n].msg = x.msg
         /\ [x EXCEPT !.remaining = n].remaining = n
         /\ [x EXCEPT !.remaining = n].waituntil = x.waituntil
  BY DEF NWmsg

LEMMA MsgWaits ==
  ASSUME NEW x \in NWmsg, NEW w \in Nat
  PROVE  /\ [x EXCEPT !.waituntil = w] \in NWmsg
         /\ [x EXCEPT !.waituntil = w].msg = x.msg
         /\ [x EXCEPT !.waituntil = w].waituntil = w
         /\ [x EXCEPT !.waituntil = w].remaining = x.remaining
  BY DEF NWmsg

\* A is a set of frames that does not look at what remains of them.
Frames(A) == A \subseteq NWmsg /\ \A x \in A, n \in Int : [x EXCEPT !.remaining = n] \in A

LEMMA FramesFacts ==
  \A i : Frames(MsgFrom(i)) /\ Frames(MsgTo(i))
  BY MsgExcept DEF Frames, MsgFrom, MsgTo

LEMMA LineFacts ==
  ASSUME NEW A, NEW q, A \subseteq NWmsg, Idle(A, q) \/ Busy(A, q)
  PROVE  q \in Seq(A)
<1>1. Whole(A) \subseteq A
  BY DEF Whole
<1> QED BY <1>1, SeqMonotonic DEF Idle, Busy

LEMMA IdleStarts ==
  ASSUME NEW A, NEW q, A \subseteq NWmsg, Idle(A, q), q # << >>
  PROVE  Busy(A, q) /\ Head(q) \in Whole(A) /\ Head(q).remaining = Frame(Head(q).msg)
<1>1. Whole(A) \subseteq A
  BY DEF Whole
<1>2. q \in Seq(A)
  BY <1>1, SeqMonotonic DEF Idle
<1>3. Tail(q) \in Seq(Whole(A)) /\ Head(q) \in Whole(A)
  BY HeadAndTail DEF Idle
<1>4. Head(q).remaining = Frame(Head(q).msg) /\ Head(q).msg \in Message
  BY <1>3, MsgFacts DEF Whole
<1> QED BY <1>2, <1>3, <1>4, FrameFacts DEF Busy

LEMMA LineMore ==
  ASSUME NEW A, NEW q, NEW r \in Seq(Whole(A)), A \subseteq NWmsg
  PROVE  /\ Idle(A, q) => Idle(A, q \o r)
         /\ Busy(A, q) => Busy(A, q \o r)
<1>1. Whole(A) \subseteq A
  BY DEF Whole
<1>2. r \in Seq(A)
  BY <1>1, SeqMonotonic
<1>3. ASSUME Idle(A, q) PROVE Idle(A, q \o r)
  BY <1>3, ConcatProperties DEF Idle
<1>4. ASSUME Busy(A, q) PROVE Busy(A, q \o r)
  <2>1. q \in Seq(A) /\ q # << >> /\ Tail(q) \in Seq(Whole(A)) /\ Head(q).remaining > 0
    BY <1>4 DEF Busy
  <2>2. q = <<Head(q)>> \o Tail(q) /\ Head(q) \in A /\ <<Head(q)>> \in Seq(A) /\ Tail(q) \in Seq(A)
    BY <2>1, HeadAndTail
  <2>3. q \o r \in Seq(A) /\ Tail(q) \o r \in Seq(Whole(A)) /\ Tail(q) \o r \in Seq(A)
    BY <2>1, <2>2, <1>2, ConcatProperties
  <2> DEFINE h == Head(q)
             t == Tail(q)
  <2>4. q \o r = <<h>> \o (t \o r)
    <3> HIDE DEF h, t
    <3>1. (<<h>> \o t) \o r = <<h>> \o (t \o r)
      BY <1>2, <2>2, ConcatAssociative DEF h, t
    <3> QED BY <2>2, <3>1 DEF h, t
  <2>5. \A u \in Seq(A) : Head(<<h>> \o u) = h /\ Tail(<<h>> \o u) = u /\ <<h>> \o u # << >>
    BY <2>2
  <2> QED BY <2>1, <2>3, <2>4, <2>5 DEF Busy
<1> QED BY <1>3, <1>4

\* What becomes of a line whose first frame is (partly) sent or to be sent again
LEMMA LineSpent ==
  ASSUME NEW A, NEW q, A \subseteq NWmsg, q \in Seq(A), q # << >>, Tail(q) \in Seq(Whole(A)),
         NEW h \in A, h.msg = Head(q).msg, NEW p, p = <<h>> \o Tail(q)
  PROVE  /\ p \in Seq(A) /\ p # << >> /\ Tail(p) = Tail(q) /\ Len(p) = Len(q) /\ Head(p) = h
         /\ h.remaining > 0 => Busy(A, p)
         /\ h.remaining = Frame(Head(q).msg) => Idle(A, p)
<1>1. Head(q) \in A /\ Tail(q) \in Seq(A) /\ Len(q) \in Nat \ {0} /\ Len(Tail(q)) = Len(q) - 1
  BY HeadAndTail
<1>2. p \in Seq(A) /\ p # << >> /\ Tail(p) = Tail(q) /\ Head(p) = h /\ Len(p) = 1 + Len(Tail(q))
  BY <1>1
<1>3. h.remaining > 0 => Busy(A, p)
  BY <1>2 DEF Busy
<1>4. ASSUME h.remaining = Frame(Head(q).msg) PROVE Idle(A, p)
  <2>1. h \in Whole(A)
    BY <1>4 DEF Whole
  <2> QED BY <2>1 DEF Idle
<1>5. Len(p) = Len(q)
  BY <1>1, <1>2
<1> QED BY <1>2, <1>3, <1>4, <1>5

-----------------------------------------------------------------------------
(***************************************************************************)
(* The structure RTnetwork.                                                *)
(***************************************************************************)
Fields == {"type", "buftype", "overflow", "lossprob", "schedule", "time", "prevHit", "nextHit",
           "preprocQ", "inputQ", "statpreprocQ", "statinputQ", "outputQ", "switchQ", "postprocQ",
           "outputs", "state", "swstate", "collisions", "until", "switchmem", "nodemem",
           "sending", "waituntil", "lasttime", "rrturn", "nextNode", "slotcount",
           "currslottime", "miniSlotCount", "msgMiniSlots", "idleUntil"}
IsNet(S) == S = [f \in Fields |-> S[f]]

\* s differs from S in the fields F at most.
Same(S, s, F) == IsNet(s) /\ \A f \in Fields \ F : s[f] = S[f]

Kinds == {"CSMACD", "CSMAAMP", "RR", "NCM", "FDMA", "TDMA", "SFDSE", "FLEXRAY"}

Queues(S) ==
  /\ S.preprocQ \in [Node -> Seq(NWmsg)] /\ S.inputQ \in [Node -> Seq(NWmsg)]
  /\ S.statpreprocQ \in [Node -> Seq(NWmsg)] /\ S.statinputQ \in [Node -> Seq(NWmsg)]
  /\ S.outputQ \in [Node -> Seq(NWmsg)] /\ S.switchQ \in [Node -> Seq(NWmsg)]
  /\ S.postprocQ \in [Node -> Seq(NWmsg)]
  /\ \A i \in Node :
       /\ S.preprocQ[i] \in Seq(MsgFrom(i)) /\ S.inputQ[i] \in Seq(MsgFrom(i))
       /\ S.statpreprocQ[i] \in Seq(MsgFrom(i)) /\ S.statinputQ[i] \in Seq(MsgFrom(i))
       /\ S.outputQ[i] \in Seq(MsgTo(i)) /\ S.switchQ[i] \in Seq(MsgTo(i))
       /\ S.postprocQ[i] \in Seq(MsgTo(i))

Scalars(S) ==
  /\ S.type \in Kinds /\ S.schedule \in Seq(Node \cup {-1}) /\ S.schedule # << >>
  /\ S.time \in Nat /\ S.prevHit \in Nat /\ S.nextHit \in Nat
  /\ S.state \in [Node -> 0 .. 3] /\ S.swstate \in [Node -> {0, 1}]
  /\ S.collisions \in [Node -> 0 .. 10] /\ S.until \in [Node -> Nat]
  /\ S.outputs \in [Node -> {0, 1}]
  /\ S.sending \in Node \cup {-1} /\ S.waituntil \in Nat /\ S.lasttime \in Int
  /\ S.rrturn \in Node /\ S.nextNode \in Node
  /\ S.slotcount \in Int /\ S.currslottime \in Int /\ S.miniSlotCount \in Int
  /\ S.msgMiniSlots \in Nat /\ S.idleUntil \in Nat
  /\ S.switchmem \in Int /\ S.nodemem \in [Node -> Int]

LEMMA HitFacts ==
  ASSUME NEW S, IsNet(S), S.nextHit \in Nat, NEW times \in SUBSET Nat
  PROVE  /\ Same(S, Hit(S, times), {"nextHit"})
         /\ Hit(S, times).nextHit \in Nat /\ Hit(S, times).nextHit <= S.nextHit
         /\ \A t \in times : Hit(S, times).nextHit <= t
<1> DEFINE T == {S.nextHit} \cup times
           n == CHOOSE t \in T : \A u \in T : t <= u
<1>1. n = Min(T)
  BY DEF Min
<1>2. T \in SUBSET Nat /\ T # {}
  OBVIOUS
<1>3. Hit(S, times) = [S EXCEPT !.nextHit = n]
  BY DEF Hit, IsNet, Fields
<1> HIDE DEF n, T
<1>4. n \in T /\ \A u \in T : n <= u
  BY <1>1, <1>2, MinInSet
<1>5. Same(S, [S EXCEPT !.nextHit = n], {"nextHit"}) /\ [S EXCEPT !.nextHit = n].nextHit = n
  BY DEF Same, IsNet, Fields
<1>6. n \in Nat /\ n <= S.nextHit /\ \A t \in times : n <= t
  BY <1>2, <1>4 DEF T
<1> QED BY <1>3, <1>5, <1>6

LEMMA SameAgain ==
  ASSUME NEW S, NEW s, NEW r, NEW F, NEW G, Same(S, s, F), Same(s, r, G)
  PROVE  Same(S, r, F \cup G)
  BY DEF Same

-----------------------------------------------------------------------------
\* What Preprocess does to a queue p of messages that wait and the line q.
Scanned(S, hit, p, q, p2, q2) ==
  \/ p2 = p /\ q2 = q /\ \A k \in 1 .. Len(p) : p[k].waituntil > S.time /\ hit <= p[k].waituntil
  \/ \E k \in 1 .. Len(p) :
       /\ p[k].waituntil <= S.time /\ \A j \in 1 .. k - 1 : p[j].waituntil > S.time
       /\ p2 = RemoveAt(p, k)
       /\ q2 = q \o <<[p[k] EXCEPT !.remaining = Frame(p[k].msg)]>>

LEMMA FirstDueFacts ==
  ASSUME NEW S, S.time \in Nat, NEW p \in Seq(NWmsg)
  PROVE  /\ FirstDue(S, p) = 0 => \A k \in 1 .. Len(p) : p[k].waituntil > S.time
         /\ FirstDue(S, p) # 0 =>
              /\ FirstDue(S, p) \in 1 .. Len(p) /\ p[FirstDue(S, p)].waituntil <= S.time
              /\ \A j \in 1 .. FirstDue(S, p) - 1 : p[j].waituntil > S.time
<1> DEFINE I == {k \in 1 .. Len(p) : p[k].waituntil <= S.time}
<1>1. FirstDue(S, p) = IF I # {} THEN Min(I) ELSE 0
  BY DEF FirstDue, SelectInSeq
<1>2. I \in SUBSET Nat
  OBVIOUS
<1>3. \A k \in 1 .. Len(p) : p[k].waituntil \in Nat
  BY MsgFacts
<1>4. CASE I = {}
  BY <1>1, <1>3, <1>4
<1>5. CASE I # {}
  <2>1. Min(I) \in I /\ \A k \in I : Min(I) <= k
    <3> HIDE DEF I
    <3> QED BY <1>2, <1>5, MinInSet
  <2>2. FirstDue(S, p) = Min(I)
    BY <1>1, <1>5
  <2> DEFINE n == FirstDue(S, p)
  <2>3. n \in 1 .. Len(p) /\ p[n].waituntil <= S.time
    BY <2>1, <2>2
  <2>4. ASSUME NEW j \in 1 .. n - 1 PROVE p[j].waituntil > S.time
    <3>1. j \in 1 .. Len(p) /\ ~ (n <= j)
      BY <2>3
    <3>2. j \notin I
      BY <2>1, <2>2, <3>1
    <3> QED BY <1>3, <3>1, <3>2
  <2>5. n # 0
    BY <2>3
  <2> QED BY <2>3, <2>4, <2>5
<1> QED BY <1>4, <1>5

LEMMA ScanFacts ==
  ASSUME NEW S, S.time \in Nat, NEW p \in Seq(NWmsg), NEW q, q \in Seq(NWmsg), NEW hit,
         \A t \in Waits(S, p) : hit <= t
  PROVE  Scanned(S, hit, p, q, Kept(S, p), q \o Moved(S, p)) /\ Waits(S, p) \subseteq Nat
<1>1. \A k \in 1 .. Len(p) : p[k].waituntil \in Nat
  BY MsgFacts
<1>2. Len(p) \in Nat
  OBVIOUS
<1> DEFINE n == FirstDue(S, p)
<1>3. CASE n = 0
  <2>1. Kept(S, p) = p /\ q \o Moved(S, p) = q /\ Waits(S, p) = {p[k].waituntil : k \in 1 .. Len(p)}
    BY <1>3, ConcatEmptySeq DEF Kept, Moved, Waits
  <2>2. \A k \in 1 .. Len(p) : p[k].waituntil > S.time
    BY <1>3, FirstDueFacts
  <2>3. \A k \in 1 .. Len(p) : hit <= p[k].waituntil
    BY <2>1
  <2> QED BY <1>1, <2>1, <2>2, <2>3 DEF Scanned
<1>4. CASE n # 0
  <2>1. n \in 1 .. Len(p) /\ p[n].waituntil <= S.time /\ \A j \in 1 .. n - 1 : p[j].waituntil > S.time
    BY <1>4, FirstDueFacts
  <2>2. Kept(S, p) = RemoveAt(p, n) /\ Moved(S, p) = <<[p[n] EXCEPT !.remaining = Frame(p[n].msg)]>>
        /\ Waits(S, p) = {p[k].waituntil : k \in 1 .. n - 1}
    BY <1>4 DEF Kept, Moved, Waits
  <2>3. \A k \in 1 .. n - 1 : k \in 1 .. Len(p)
    BY <1>2, <2>1
  <2> HIDE DEF n
  <2> QED BY <1>1, <2>1, <2>2, <2>3 DEF Scanned
<1> QED BY <1>3, <1>4

LEMMA PreprocessFacts ==
  ASSUME NEW S, IsNet(S), Queues(S), S.time \in Nat, S.nextHit \in Nat, NEW s, s = Preprocess(S)
  PROVE  /\ Same(S, s, {"preprocQ", "inputQ", "statpreprocQ", "statinputQ", "nextHit"})
         /\ s.nextHit \in Nat /\ s.nextHit <= S.nextHit
         /\ s.preprocQ = [i \in Node |-> s.preprocQ[i]] /\ s.inputQ = [i \in Node |-> s.inputQ[i]]
         /\ s.statpreprocQ = [i \in Node |-> s.statpreprocQ[i]]
         /\ s.statinputQ = [i \in Node |-> s.statinputQ[i]]
         /\ \A i \in Node :
              /\ Scanned(S, s.nextHit, S.preprocQ[i], S.inputQ[i], s.preprocQ[i], s.inputQ[i])
              /\ Scanned(S, s.nextHit, S.statpreprocQ[i], S.statinputQ[i],
                         s.statpreprocQ[i], s.statinputQ[i])
<1> DEFINE r == [S EXCEPT !.preprocQ     = [i \in Node |-> Kept(S, @[i])],
                !.inputQ       = [i \in Node |-> @[i] \o Moved(S, S.preprocQ[i])],
                !.statpreprocQ = [i \in Node |-> Kept(S, @[i])],
                !.statinputQ   = [i \in Node |-> @[i] \o Moved(S, S.statpreprocQ[i])]]
           times == UNION {Waits(S, S.preprocQ[i]) \cup Waits(S, S.statpreprocQ[i]) : i \in Node}
<1>1. s = Hit(r, times)
  BY DEF Preprocess
<1>2. /\ Same(S, r, {"preprocQ", "inputQ", "statpreprocQ", "statinputQ"})
      /\ r.preprocQ = [i \in Node |-> Kept(S, S.preprocQ[i])]
      /\ r.inputQ = [i \in Node |-> S.inputQ[i] \o Moved(S, S.preprocQ[i])]
      /\ r.statpreprocQ = [i \in Node |-> Kept(S, S.statpreprocQ[i])]
      /\ r.statinputQ = [i \in Node |-> S.statinputQ[i] \o Moved(S, S.statpreprocQ[i])]
  BY DEF Same, IsNet, Fields
<1> HIDE DEF r
<1>3. \A i \in Node : /\ S.preprocQ[i] \in Seq(NWmsg) /\ S.statpreprocQ[i] \in Seq(NWmsg)
                      /\ S.inputQ[i] \in Seq(NWmsg) /\ S.statinputQ[i] \in Seq(NWmsg)
  BY DEF Queues
<1>4. \A p \in Seq(NWmsg) : Waits(S, p) \subseteq Nat
  <2> TAKE p \in Seq(NWmsg)
  <2>1. \A k \in 1 .. Len(p) : p[k].waituntil \in Nat
    BY MsgFacts
  <2>2. FirstDue(S, p) # 0 => FirstDue(S, p) \in 1 .. Len(p)
    BY FirstDueFacts
  <2> QED BY <2>1, <2>2 DEF Waits
<1>5. times \in SUBSET Nat
  BY <1>3, <1>4
<1>6. \A i \in Node : Waits(S, S.preprocQ[i]) \subseteq times /\ Waits(S, S.statpreprocQ[i]) \subseteq times
  OBVIOUS
<1> HIDE DEF times
<1>7. IsNet(r) /\ r.nextHit = S.nextHit /\ r.time = S.time
  BY <1>2 DEF Same, Fields
<1>8. /\ Same(r, s, {"nextHit"}) /\ s.nextHit \in Nat /\ s.nextHit <= S.nextHit
      /\ \A t \in times : s.nextHit <= t
  BY <1>1, <1>5, <1>7, HitFacts
<1>9. /\ s.preprocQ = r.preprocQ /\ s.inputQ = r.inputQ /\ s.statpreprocQ = r.statpreprocQ
      /\ s.statinputQ = r.statinputQ
  BY <1>8 DEF Same, Fields
<1>10. Same(S, s, {"preprocQ", "inputQ", "statpreprocQ", "statinputQ", "nextHit"})
  BY <1>2, <1>8 DEF Same
<1>11. ASSUME NEW i \in Node
       PROVE  /\ Scanned(S, s.nextHit, S.preprocQ[i], S.inputQ[i], s.preprocQ[i], s.inputQ[i])
              /\ Scanned(S, s.nextHit, S.statpreprocQ[i], S.statinputQ[i], s.statpreprocQ[i], s.statinputQ[i])
  <2>3. /\ r.preprocQ[i] = Kept(S, S.preprocQ[i])
        /\ r.inputQ[i] = S.inputQ[i] \o Moved(S, S.preprocQ[i])
    BY <1>2
  <2>4. /\ r.statpreprocQ[i] = Kept(S, S.statpreprocQ[i])
        /\ r.statinputQ[i] = S.statinputQ[i] \o Moved(S, S.statpreprocQ[i])
    BY <1>2
  <2>1. /\ s.preprocQ[i] = Kept(S, S.preprocQ[i])
        /\ s.inputQ[i] = S.inputQ[i] \o Moved(S, S.preprocQ[i])
        /\ s.statpreprocQ[i] = Kept(S, S.statpreprocQ[i])
        /\ s.statinputQ[i] = S.statinputQ[i] \o Moved(S, S.statpreprocQ[i])
    BY <1>9, <2>3, <2>4
  <2>2. /\ \A t \in Waits(S, S.preprocQ[i]) : s.nextHit <= t
        /\ \A t \in Waits(S, S.statpreprocQ[i]) : s.nextHit <= t
    BY <1>6, <1>8
  <2> QED BY <1>3, <2>1, <2>2, ScanFacts
<1> QED BY <1>2, <1>8, <1>9, <1>10, <1>11

LEMMA AmongDistinct ==
  ASSUME NEW A, NEW M, NEW q \in Seq(A), NoDuplicates(q)
  PROVE  NoDuplicates(Among(q, M))
<1> DEFINE Good == {r \in Seq(A) : NoDuplicates(r) => NoDuplicates(Among(r, M))}
<1>1. << >> \in Good
  BY AmongEmpty DEF NoDuplicates
<1>2. ASSUME NEW r \in Seq(A), NEW x \in A, r \in Good PROVE Append(r, x) \in Good
  <2> DEFINE s == Append(r, x)
             p == Among(r, M)
  <2>0. s \in Seq(A) /\ p \in Seq(A)
    BY AmongType, AppendProperties
  <2> SUFFICES ASSUME NoDuplicates(s) PROVE NoDuplicates(Among(s, M))
    BY <2>0
  <2>1. Len(s) = Len(r) + 1 /\ s[Len(r) + 1] = x /\ Len(r) \in Nat /\ \A k \in 1 .. Len(r) : s[k] = r[k]
    BY AppendProperties
  <2>2. Among(s, M) = IF x \in M THEN Append(p, x) ELSE p
    BY AmongAppend
  <2>3. \A k \in 1 .. Len(p) : \E j \in 1 .. Len(r) : r[j] = p[k]
    BY AmongElements
  <2> HIDE DEF s, p
  <2>4. NoDuplicates(r) /\ \A k \in 1 .. Len(r) : r[k] # x
    BY <2>1 DEF NoDuplicates
  <2>5. NoDuplicates(p) /\ \A k \in 1 .. Len(p) : p[k] # x
    BY <1>2, <2>3, <2>4 DEF p
  <2>6. NoDuplicates(Append(p, x))
    <3>1. Len(p) \in Nat /\ Len(Append(p, x)) = Len(p) + 1 /\ Append(p, x)[Len(p) + 1] = x
          /\ \A k \in 1 .. Len(p) : Append(p, x)[k] = p[k]
      BY <2>0, AppendProperties
    <3> QED BY <2>5, <3>1 DEF NoDuplicates
  <2> QED BY <2>2, <2>5, <2>6
<1> HIDE DEF Good
<1>3. Seq(A) \subseteq Good
  BY <1>1, <1>2, AllSequences
<1> QED BY <1>3 DEF Good

-----------------------------------------------------------------------------
LEMMA MsgsFacts ==
  ASSUME NEW q \in Seq(NWmsg)
  PROVE  /\ Msgs(q) \in Seq(Message) /\ Len(Msgs(q)) = Len(q)
         /\ \A k \in 1 .. Len(q) : Msgs(q)[k] = q[k].msg
<1>1. Len(q) \in Nat /\ \A k \in 1 .. Len(q) : q[k].msg \in Message
  BY MsgFacts
<1> QED BY <1>1 DEF Msgs

LEMMA MsgsConcat ==
  ASSUME NEW q \in Seq(NWmsg), NEW r \in Seq(NWmsg)
  PROVE  Msgs(q \o r) = Msgs(q) \o Msgs(r)
<1>1. /\ Msgs(q) \in Seq(Message) /\ Len(Msgs(q)) = Len(q) /\ \A k \in 1 .. Len(q) : Msgs(q)[k] = q[k].msg
      /\ Msgs(r) \in Seq(Message) /\ Len(Msgs(r)) = Len(r) /\ \A k \in 1 .. Len(r) : Msgs(r)[k] = r[k].msg
      /\ Len(q) \in Nat /\ Len(r) \in Nat
  BY MsgsFacts
<1>2. q \o r \in Seq(NWmsg) /\ Len(q \o r) = Len(q) + Len(r)
      /\ \A k \in 1 .. Len(q) + Len(r) : (q \o r)[k] = IF k <= Len(q) THEN q[k] ELSE r[k - Len(q)]
  BY ConcatProperties
<1>3. Msgs(q \o r) \in Seq(Message) /\ Len(Msgs(q \o r)) = Len(q) + Len(r)
      /\ \A k \in 1 .. Len(q) + Len(r) : Msgs(q \o r)[k] = (q \o r)[k].msg
  BY <1>2, MsgsFacts
<1> DEFINE a == Msgs(q)
           b == Msgs(r)
<1>6. /\ a \in Seq(Message) /\ Len(a) = Len(q) /\ \A k \in 1 .. Len(q) : a[k] = q[k].msg
      /\ b \in Seq(Message) /\ Len(b) = Len(r)
  BY <1>1
<1>7. \A k \in 1 .. Len(r) : b[k] = r[k].msg
  BY <1>1
<1>9. Msgs(q) = a /\ Msgs(r) = b
  OBVIOUS
<1>10. Len(q) \in Nat /\ Len(r) \in Nat
  OBVIOUS
<1> HIDE DEF a, b
<1>4. Msgs(q) \o Msgs(r) \in Seq(Message) /\ Len(Msgs(q) \o Msgs(r)) = Len(q) + Len(r)
      /\ \A k \in 1 .. Len(q) + Len(r) :
           (Msgs(q) \o Msgs(r))[k] = IF k <= Len(q) THEN Msgs(q)[k] ELSE Msgs(r)[k - Len(q)]
  <2>1. a \o b \in Seq(Message) /\ Len(a \o b) = Len(a) + Len(b)
        /\ \A k \in 1 .. Len(a) + Len(b) : (a \o b)[k] = IF k <= Len(a) THEN a[k] ELSE b[k - Len(a)]
    <3>1. a \in Seq(Message) /\ b \in Seq(Message)
      BY <1>6
    <3> QED BY <3>1, ConcatProperties
  <2> QED BY <1>6, <1>9, <2>1
<1>5. ASSUME NEW k \in 1 .. Len(q) + Len(r) PROVE Msgs(q \o r)[k] = (Msgs(q) \o Msgs(r))[k]
  <2>1. CASE k <= Len(q)
    <3>1. k \in 1 .. Len(q)
      BY <1>10, <2>1
    <3> QED BY <1>2, <1>3, <1>4, <1>6, <1>9, <2>1, <3>1
  <2>2. CASE ~ (k <= Len(q))
    <3>1. k - Len(q) \in 1 .. Len(r)
      BY <1>10, <2>2
    <3> QED BY <1>2, <1>3, <1>4, <1>7, <1>9, <2>2, <3>1
  <2> QED BY <2>1, <2>2
<1> QED BY <1>3, <1>4, <1>5, SeqEqual

LEMMA MsgsSmall ==
  /\ Msgs(<< >>) = << >>
  /\ \A x \in NWmsg : Msgs(<<x>>) = <<x.msg>>
  BY DEF Msgs

LEMMA MsgsTail ==
  ASSUME NEW q \in Seq(NWmsg), q # << >>
  PROVE  /\ Msgs(q) = <<Head(q).msg>> \o Msgs(Tail(q)) /\ Msgs(Tail(q)) = Tail(Msgs(q))
         /\ Head(q).msg = Head(Msgs(q)) /\ Msgs(q) # << >>
<1>1. q = <<Head(q)>> \o Tail(q) /\ Head(q) \in NWmsg /\ Tail(q) \in Seq(NWmsg) /\ <<Head(q)>> \in Seq(NWmsg)
  BY HeadAndTail
<1>2. Msgs(q) = Msgs(<<Head(q)>>) \o Msgs(Tail(q)) /\ Msgs(<<Head(q)>>) = <<Head(q).msg>>
  BY <1>1, MsgsConcat, MsgsSmall
<1>3. Msgs(Tail(q)) \in Seq(Message) /\ Head(q).msg \in Message
  BY <1>1, MsgsFacts, MsgFacts
<1>4. \A x, t : t \in Seq(Message) /\ x \in Message =>
        Head(<<x>> \o t) = x /\ Tail(<<x>> \o t) = t /\ <<x>> \o t # << >>
  OBVIOUS
<1>5. Msgs(q) = <<Head(q).msg>> \o Msgs(Tail(q))
  BY <1>1, <1>2
<1> QED BY <1>3, <1>4, <1>5

\* What comes from a node, and what goes to one, of two queues one behind the other
LEMMA FromConcat ==
  ASSUME NEW a, NEW q \in Seq(NWmsg), NEW r \in Seq(NWmsg)
  PROVE  /\ From(a, q \o r) = From(a, q) \o From(a, r) /\ To(a, q \o r) = To(a, q) \o To(a, r)
         /\ From(a, q) \in Seq(Message) /\ To(a, q) \in Seq(Message)
<1>1. Msgs(q) \in Seq(Message) /\ Msgs(r) \in Seq(Message) /\ Msgs(q \o r) = Msgs(q) \o Msgs(r)
  BY MsgsFacts, MsgsConcat
<1>2. \A M : Among(Msgs(q) \o Msgs(r), M) = Among(Msgs(q), M) \o Among(Msgs(r), M)
  BY <1>1, AmongConcat
<1>3. \A M : Among(Msgs(q), M) \in Seq(Message)
  BY <1>1, AmongType
<1> QED BY <1>1, <1>2, <1>3 DEF From, To

LEMMA FromSmall ==
  /\ \A a : From(a, << >>) = << >> /\ To(a, << >>) = << >>
  /\ \A a : \A x \in NWmsg :
       /\ From(a, <<x>>) = IF Sender[x.msg] = a THEN <<x.msg>> ELSE << >>
       /\ To(a, <<x>>) = IF a \in Receivers(x.msg) THEN <<x.msg>> ELSE << >>
<1>1. \A a : From(a, << >>) = << >> /\ To(a, << >>) = << >>
  BY MsgsSmall, AmongEmpty DEF From, To
<1>2. ASSUME NEW a, NEW x \in NWmsg
      PROVE  /\ From(a, <<x>>) = IF Sender[x.msg] = a THEN <<x.msg>> ELSE << >>
             /\ To(a, <<x>>) = IF a \in Receivers(x.msg) THEN <<x.msg>> ELSE << >>
  BY MsgsSmall, MsgFacts, AmongOf1 DEF From, To
<1> QED BY <1>1, <1>2, Zenon

-----------------------------------------------------------------------------
LEMMA ForNodesFacts ==
  ASSUME NEW I \in SUBSET Node
  PROVE  /\ ForNodes(I) \in Seq(I) /\ ForNodes(I) \in Seq(Node)
         /\ NoDuplicates(ForNodes(I))
         /\ \A i \in I : \E k \in 1 .. Len(ForNodes(I)) : ForNodes(I)[k] = i
<1> DEFINE all == [k \in 1 .. NbrOfNodes |-> k - 1]
<1>1. NbrOfNodes \in Nat
  BY NodeFacts
<1>2. all \in Seq(Node) /\ Len(all) = NbrOfNodes /\ \A k \in 1 .. NbrOfNodes : all[k] = k - 1
  <2>1. \A k \in 1 .. NbrOfNodes : k - 1 \in Node
    BY <1>1 DEF Node
  <2> QED BY <1>1, <2>1
<1>3. ForNodes(I) = Among(all, I)
  BY DEF ForNodes
<1> HIDE DEF all
<1>4. NoDuplicates(all)
  BY <1>1, <1>2 DEF NoDuplicates
<1>5. I \subseteq ToSet(all)
  <2> SUFFICES ASSUME NEW i \in I PROVE i \in ToSet(all)
    OBVIOUS
  <2>1. i + 1 \in 1 .. NbrOfNodes /\ (i + 1) - 1 = i
    BY <1>1 DEF Node
  <2>2. DOMAIN all = 1 .. NbrOfNodes
    BY <1>2, LenProperties
  <2> QED BY <1>2, <2>1, <2>2 DEF ToSet
<1>6. ForNodes(I) \in Seq(Node \cap I) /\ ForNodes(I) \in Seq(Node)
  BY <1>2, <1>3, AmongType
<1>7. Node \cap I = I
  OBVIOUS
<1>8. ToSet(ForNodes(I)) = ToSet(all) \cap I
  BY <1>2, <1>3, AmongElements
<1>9. \A i \in I : \E k \in 1 .. Len(ForNodes(I)) : ForNodes(I)[k] = i
  <2> TAKE i \in I
  <2>1. i \in ToSet(ForNodes(I)) /\ DOMAIN ForNodes(I) = 1 .. Len(ForNodes(I))
    BY <1>5, <1>6, <1>8, LenProperties
  <2> QED BY <2>1 DEF ToSet
<1>10. NoDuplicates(ForNodes(I))
  BY <1>2, <1>3, <1>4, AmongDistinct
<1> QED BY <1>6, <1>7, <1>9, <1>10

-----------------------------------------------------------------------------
(***************************************************************************)
(* Frames that have been sent.                                             *)
(***************************************************************************)
\* u is what reaches r at time t when the nodes F have sent their first frames.
Reaches(in, F, r, t, u) ==
  /\ u \in Seq({x \in MsgTo(r) : x.waituntil = t + Postdelay[r]})
  /\ \A a \in Node : From(a, u) = IF a \in F /\ r \in Receivers(Head(in[a]).msg)
                                  THEN <<Head(in[a]).msg>> ELSE << >>

LEMMA ArrivalsFacts ==
  ASSUME NEW S, Queues(S), S.time \in Nat, NEW F \in SUBSET Node, \A i \in F : S.inputQ[i] # << >>,
         NEW r \in Node
  PROVE  Reaches(S.inputQ, F, r, S.time, Arrivals(S, F, r))
<1> DEFINE I == {i \in F : r \in Receivers(Head(S.inputQ[i]).msg)}
           from == ForNodes(I)
           w == S.time + Postdelay[r]
           u == [k \in 1 .. Len(from) |-> [Head(S.inputQ[from[k]]) EXCEPT !.waituntil = w]]
           A == {x \in MsgTo(r) : x.waituntil = w}
<1>1. Arrivals(S, F, r) = u
  BY DEF Arrivals
<1>2. /\ from \in Seq(I) /\ NoDuplicates(from)
      /\ \A i \in I : \E k \in 1 .. Len(from) : from[k] = i
  BY ForNodesFacts
<1>3. w \in Nat
  BY NodeFacts
<1>4. \A i \in F : Head(S.inputQ[i]) \in NWmsg /\ Sender[Head(S.inputQ[i]).msg] = i
  <2> TAKE i \in F
  <2>1. S.inputQ[i] \in Seq(MsgFrom(i)) /\ S.inputQ[i] # << >>
    BY DEF Queues
  <2>2. Head(S.inputQ[i]) \in MsgFrom(i)
    BY <2>1, HeadAndTail
  <2> QED BY <2>2 DEF MsgFrom
<1> HIDE DEF from, w, u
<1>5. Len(from) \in Nat /\ \A k \in 1 .. Len(from) : from[k] \in I
  BY <1>2
<1>6. ASSUME NEW k \in 1 .. Len(from)
      PROVE  /\ u[k] \in A /\ u[k] \in NWmsg /\ u[k].msg = Head(S.inputQ[from[k]]).msg
             /\ Sender[u[k].msg] = from[k]
  <2>1. from[k] \in F /\ r \in Receivers(Head(S.inputQ[from[k]]).msg)
    BY <1>5
  <2>2. u[k] = [Head(S.inputQ[from[k]]) EXCEPT !.waituntil = w]
    BY DEF u
  <2> DEFINE h == Head(S.inputQ[from[k]])
  <2>3. h \in NWmsg /\ Sender[h.msg] = from[k] /\ r \in Receivers(h.msg)
    BY <1>4, <2>1
  <2> HIDE DEF h
  <2>4. [h EXCEPT !.waituntil = w] \in NWmsg /\ [h EXCEPT !.waituntil = w].msg = h.msg
        /\ [h EXCEPT !.waituntil = w].waituntil = w
    BY <1>3, <2>3, MsgWaits
  <2>5. u[k] = [h EXCEPT !.waituntil = w]
    BY <2>2 DEF h
  <2>6. u[k] \in NWmsg /\ u[k].msg = h.msg /\ u[k].waituntil = w
    BY <2>4, <2>5
  <2>7. u[k] \in A
    BY <2>3, <2>6 DEF MsgTo
  <2> QED BY <2>3, <2>6, <2>7 DEF h
<1>7. u \in Seq(A) /\ u \in Seq(NWmsg) /\ Len(u) = Len(from)
  <2>1. u = [k \in 1 .. Len(from) |-> u[k]]
    BY DEF u
  <2> QED BY <1>5, <1>6, <2>1
<1>8. Msgs(u) \in Seq(Message) /\ Len(Msgs(u)) = Len(from)
      /\ \A k \in 1 .. Len(from) : Msgs(u)[k] = u[k].msg
  BY <1>7, MsgsFacts
<1>9. ASSUME NEW a \in Node
      PROVE  From(a, u) = IF a \in F /\ r \in Receivers(Head(S.inputQ[a]).msg)
                          THEN <<Head(S.inputQ[a]).msg>> ELSE << >>
  <2> DEFINE M == {m \in Message : Sender[m] = a}
  <2>1. From(a, u) = Among(Msgs(u), M)
    BY DEF From
  <2>2. \A k \in 1 .. Len(from) : Msgs(u)[k] \in M <=> from[k] = a
    BY <1>6, <1>8, MsgFacts
  <2> HIDE DEF M
  <2>3. CASE a \in I
    <3>1. PICK n \in 1 .. Len(from) : from[n] = a
      BY <1>2, <2>3
    <3>2. \A k \in 1 .. Len(from) : Msgs(u)[k] \in M => k = n
      BY <1>2, <2>2, <3>1 DEF NoDuplicates
    <3>3. n \in 1 .. Len(Msgs(u)) /\ Msgs(u)[n] \in M
      BY <1>8, <2>2, <3>1
    <3>4. Among(Msgs(u), M) = <<Msgs(u)[n]>>
      BY <1>8, <3>2, <3>3, AmongOne
    <3>5. Msgs(u)[n] = Head(S.inputQ[a]).msg
      BY <1>6, <1>8, <3>1
    <3> QED BY <2>1, <2>3, <3>4, <3>5
  <2>4. CASE a \notin I
    <3>1. \A k \in 1 .. Len(Msgs(u)) : Msgs(u)[k] \notin M
      BY <1>5, <1>8, <2>2, <2>4
    <3>2. Among(Msgs(u), M) = << >>
      BY <1>8, <3>1, AmongNone
    <3> QED BY <2>1, <2>4, <3>2
  <2> QED BY <2>3, <2>4
<1>10. u \in Seq({x \in MsgTo(r) : x.waituntil = S.time + Postdelay[r]})
  BY <1>7 DEF w
<1> QED BY <1>1, <1>9, <1>10 DEF Reaches

MayDeliver(S, F) ==
  /\ IsNet(S) /\ Queues(S) /\ S.time \in Nat /\ S.nextHit \in Nat
  /\ F \in SUBSET Node /\ \A i \in F : S.inputQ[i] # << >>

LEMMA DeliverFacts ==
  ASSUME NEW S, NEW F, MayDeliver(S, F), NEW s, s = Deliver(S, F)
  PROVE  /\ Same(S, s, {"inputQ", "outputQ", "nextHit"})
         /\ s.nextHit \in Nat /\ s.nextHit <= S.nextHit
         /\ s.inputQ = [i \in Node |-> IF i \in F THEN Tail(S.inputQ[i]) ELSE S.inputQ[i]]
         /\ s.outputQ = [r \in Node |-> S.outputQ[r] \o Arrivals(S, F, r)]
         /\ \A r \in Node : Reaches(S.inputQ, F, r, S.time, Arrivals(S, F, r))
<1> DEFINE d == [S EXCEPT !.inputQ = [i \in Node |-> IF i \in F THEN Tail(@[i]) ELSE @[i]],
                          !.outputQ = [r \in Node |-> @[r] \o Arrivals(S, F, r)]]
           times == {S.time + Postdelay[r] :
                       r \in {n \in Node : Postdelay[n] # 0 /\ \E i \in F : n \in Receivers(Head(S.inputQ[i]).msg)}}
<1> USE DEF MayDeliver
<1>1. s = Hit(d, times)
  BY DEF Deliver
<1>2. /\ Same(S, d, {"inputQ", "outputQ"}) /\ IsNet(d) /\ d.nextHit = S.nextHit
      /\ d.inputQ = [i \in Node |-> IF i \in F THEN Tail(S.inputQ[i]) ELSE S.inputQ[i]]
      /\ d.outputQ = [r \in Node |-> S.outputQ[r] \o Arrivals(S, F, r)]
  BY DEF Same, IsNet, Fields
<1>3. times \in SUBSET Nat
  BY NodeFacts
<1> HIDE DEF d, times
<1>4. Same(d, s, {"nextHit"}) /\ s.nextHit \in Nat /\ s.nextHit <= S.nextHit
  BY <1>1, <1>2, <1>3, HitFacts
<1>5. s.inputQ = d.inputQ /\ s.outputQ = d.outputQ
  BY <1>4 DEF Same, Fields
<1>6. Same(S, s, {"inputQ", "outputQ", "nextHit"})
  BY <1>2, <1>4 DEF Same
<1> QED BY <1>2, <1>4, <1>5, <1>6, ArrivalsFacts

\* From in and out to in2 and out2 at time t: some of the nodes B have sent their
\* first frame, and other frames may have changed but for their message.
Carries(B, t, in, in2, out, out2) ==
  \E F \in SUBSET B :
    /\ \A i \in F : in[i] # << >> /\ Msgs(in2[i]) = Msgs(Tail(in[i]))
    /\ \A i \in Node \ F : Msgs(in2[i]) = Msgs(in[i])
    /\ \A r \in Node : \E u : Reaches(in, F, r, t, u) /\ out2[r] = out[r] \o u

\* The nodes F have started the first frames of their lines.
Heads(S, F) ==
  \A i \in F : S.inputQ[i] # << >> /\ Tail(S.inputQ[i]) \in Seq(Whole(MsgFrom(i)))

\* The first frame of the line q has become x.
NewFirst(A, q, x, p) ==
  /\ Frames(A) /\ q \in Seq(A) /\ q # << >> /\ Tail(q) \in Seq(Whole(A))
  /\ x \in A /\ x.msg = Head(q).msg /\ p = <<x>> \o Tail(q)

LEMMA NewHead ==
  ASSUME NEW A, NEW q, NEW x, NEW p, NewFirst(A, q, x, p)
  PROVE  /\ p \in Seq(A) /\ p # << >> /\ Tail(p) = Tail(q) /\ Len(p) = Len(q) /\ Head(p) = x
         /\ x.remaining > 0 => Busy(A, p)
         /\ x.remaining = Frame(Head(q).msg) => Idle(A, p)
         /\ Msgs(p) = Msgs(q)
<1>1. /\ Head(q) \in A /\ A \subseteq NWmsg /\ Head(q) \in NWmsg /\ Tail(q) \in Seq(A)
      /\ Len(q) \in Nat \ {0} /\ Len(Tail(q)) = Len(q) - 1 /\ q \in Seq(NWmsg)
  BY HeadAndTail, SeqMonotonic DEF Frames, NewFirst
<1>2. /\ x \in A /\ x.msg = Head(q).msg /\ p = <<x>> \o Tail(q) /\ q # << >> /\ q \in Seq(A)
      /\ Tail(q) \in Seq(Whole(A))
  BY DEF NewFirst
<1>3. p \in Seq(A) /\ p # << >> /\ Tail(p) = Tail(q) /\ Head(p) = x /\ Len(p) = 1 + Len(Tail(q))
  BY <1>1, <1>2
<1>4. x.remaining > 0 => Busy(A, p)
  BY <1>2, <1>3 DEF Busy
<1>5. ASSUME x.remaining = Frame(Head(q).msg) PROVE Idle(A, p)
  <2>1. x \in Whole(A)
    BY <1>2, <1>5 DEF Whole
  <2> QED BY <1>2, <2>1 DEF Idle
<1>6. p \in Seq(NWmsg)
  BY <1>1, <1>3, SeqMonotonic
<1>7. Msgs(p) = <<Head(p).msg>> \o Msgs(Tail(p)) /\ Msgs(q) = <<Head(q).msg>> \o Msgs(Tail(q))
  BY <1>1, <1>2, <1>3, <1>6, MsgsTail
<1>8. Msgs(p) = Msgs(q)
  <2>1. Head(p).msg = Head(q).msg /\ Tail(p) = Tail(q)
    BY <1>2, <1>3
  <2> QED BY <1>7, <2>1, Zenon
<1>9. Len(p) = Len(q)
  BY <1>1, <1>3
<1> QED BY <1>3, <1>4, <1>5, <1>8, <1>9

LEMMA OtherRemaining ==
  ASSUME NEW A, Frames(A), NEW x \in A, NEW n \in Int
  PROVE  /\ [x EXCEPT !.remaining = n] \in A /\ [x EXCEPT !.remaining = n].msg = x.msg
         /\ [x EXCEPT !.remaining = n].remaining = n
         /\ [x EXCEPT !.remaining = n].waituntil = x.waituntil
<1>1. [x EXCEPT !.remaining = n] \in A /\ x \in NWmsg
  BY Zenon DEF Frames
<1>2. /\ [x EXCEPT !.remaining = n].msg = x.msg /\ [x EXCEPT !.remaining = n].remaining = n
      /\ [x EXCEPT !.remaining = n].waituntil = x.waituntil
  BY <1>1, MsgExcept
<1> QED BY <1>1, <1>2

\* Only the lines have changed.
LEMMA NewLines ==
  ASSUME NEW S, Queues(S), NEW s, NEW F, Same(S, s, F),
         F \cap {"preprocQ", "statpreprocQ", "statinputQ", "outputQ", "switchQ", "postprocQ"} = {},
         s.inputQ = [i \in Node |-> s.inputQ[i]], \A i \in Node : s.inputQ[i] \in Seq(MsgFrom(i))
  PROVE  Queues(s)
<1>1. \A i \in Node : MsgFrom(i) \subseteq NWmsg
  BY MsgFacts
<1>2. s.inputQ \in [Node -> Seq(NWmsg)]
  <2>1. \A i \in Node : s.inputQ[i] \in Seq(NWmsg)
    BY <1>1, SeqMonotonic
  <2> QED BY <2>1
<1>3. \A f \in {"preprocQ", "statpreprocQ", "statinputQ", "outputQ", "switchQ", "postprocQ"} : s[f] = S[f]
  BY DEF Same, Fields
<1>4. /\ s.preprocQ = S.preprocQ /\ s.statpreprocQ = S.statpreprocQ /\ s.statinputQ = S.statinputQ
      /\ s.outputQ = S.outputQ /\ s.switchQ = S.switchQ /\ s.postprocQ = S.postprocQ
  BY <1>3
<1> QED BY <1>2, <1>4 DEF Queues

LEMMA SpendFacts ==
  ASSUME NEW S, IsNet(S), Queues(S), S.type \in Kinds, NEW F \in SUBSET Node, Heads(S, F), NEW e \in Nat,
         NEW s, s = Spend(S, F, e)
  PROVE  /\ Same(S, s, {"inputQ"}) /\ Queues(s) /\ Heads(s, F)
         /\ \A i \in F :
              /\ Tail(s.inputQ[i]) = Tail(S.inputQ[i]) /\ Len(s.inputQ[i]) = Len(S.inputQ[i])
              /\ Head(s.inputQ[i]).msg = Head(S.inputQ[i]).msg
              /\ Head(s.inputQ[i]).remaining = Head(S.inputQ[i]).remaining - Rate(S, i) * e
              /\ ~ Sent(s, i) => Busy(MsgFrom(i), s.inputQ[i])
         /\ \A i \in Node \ F : s.inputQ[i] = S.inputQ[i]
         /\ \A i \in Node : Msgs(s.inputQ[i]) = Msgs(S.inputQ[i])
<1>1. Same(S, s, {"inputQ"})
  BY DEF Spend, Same, IsNet, Fields
<1>2. s.inputQ = [i \in Node |->
        IF i \in F THEN <<[Head(S.inputQ[i]) EXCEPT !.remaining = @ - Rate(S, i) * e]>> \o Tail(S.inputQ[i])
        ELSE S.inputQ[i]]
  BY DEF Spend, IsNet, Fields
<1>3. ASSUME NEW i \in F
      PROVE  /\ s.inputQ[i] \in Seq(MsgFrom(i)) /\ s.inputQ[i] # << >>
             /\ Tail(s.inputQ[i]) \in Seq(Whole(MsgFrom(i)))
             /\ Tail(s.inputQ[i]) = Tail(S.inputQ[i]) /\ Len(s.inputQ[i]) = Len(S.inputQ[i])
             /\ Head(s.inputQ[i]).msg = Head(S.inputQ[i]).msg
             /\ Head(s.inputQ[i]).remaining = Head(S.inputQ[i]).remaining - Rate(S, i) * e
             /\ ~ Sent(s, i) => Busy(MsgFrom(i), s.inputQ[i])
             /\ Msgs(s.inputQ[i]) = Msgs(S.inputQ[i])
  <2> DEFINE q == S.inputQ[i]
             p == s.inputQ[i]
             n == Head(q).remaining - Rate(S, i) * e
             A == MsgFrom(i)
  <2>1. q \in Seq(A) /\ q # << >> /\ Tail(q) \in Seq(Whole(A)) /\ Frames(A) /\ A \subseteq NWmsg
    BY FramesFacts, MsgFacts DEF Heads, Queues
  <2>2. Head(q) \in A
    BY <2>1, HeadAndTail
  <2>3. Head(q).remaining \in Int /\ Rate(S, i) \in Nat
    BY <2>1, <2>2, MsgFacts, RatesAssumption, FrameFacts DEF Rate
  <2>4. n \in Int
    BY <2>3
  <2>5. p = <<[Head(q) EXCEPT !.remaining = n]>> \o Tail(q)
    BY <1>2
  <2>6. Sent(s, i) <=> Head(p).remaining <= 0
    BY DEF Sent
  <2>7. q = S.inputQ[i] /\ p = s.inputQ[i] /\ n = Head(S.inputQ[i]).remaining - Rate(S, i) * e /\ A = MsgFrom(i)
    OBVIOUS
  <2> DEFINE y == Head(q)
             x == [y EXCEPT !.remaining = n]
  <2>9. p = <<x>> \o Tail(q)
    BY <2>5
  <2> HIDE DEF p, q, n, A
  <2>10. y \in A /\ y = Head(q)
    BY <2>2
  <2> HIDE DEF y
  <2>11. x \in A /\ x.msg = y.msg /\ x.remaining = n
    BY <2>1, <2>4, <2>10, OtherRemaining
  <2> HIDE DEF x
  <2>8. /\ p \in Seq(A) /\ p # << >> /\ Tail(p) = Tail(q) /\ Len(p) = Len(q)
        /\ Head(p).remaining = n /\ Head(p).msg = Head(q).msg
        /\ n > 0 => Busy(A, p)
        /\ Msgs(p) = Msgs(q)
    <3>1. NewFirst(A, q, x, p)
      BY <2>1, <2>9, <2>10, <2>11 DEF NewFirst
    <3> QED BY <2>10, <2>11, <3>1, NewHead
  <2>12. ~ Sent(s, i) => n > 0
    BY <2>4, <2>6, <2>8
  <2>13. s.inputQ[i] = p /\ S.inputQ[i] = q /\ MsgFrom(i) = A
    BY <2>7
  <2> QED BY <2>1, <2>7, <2>8, <2>12, <2>13, Zenon
<1>4. \A i \in Node \ F : s.inputQ[i] = S.inputQ[i]
  BY <1>2
<1>5. \A i \in Node : s.inputQ[i] \in Seq(MsgFrom(i))
  BY <1>3, <1>4 DEF Queues
<1>6. s.inputQ = [i \in Node |-> s.inputQ[i]]
  BY <1>2
<1>7. Queues(s)
  BY <1>1, <1>5, <1>6, NewLines
<1>8. Heads(s, F)
  BY <1>3 DEF Heads
<1> QED BY <1>1, <1>3, <1>4, <1>7, <1>8

MayRestore(S, F) == IsNet(S) /\ Queues(S) /\ F \in SUBSET Node /\ Heads(S, F)

LEMMA RestoreFacts ==
  ASSUME NEW S, NEW F, MayRestore(S, F), NEW s, s = Restore(S, F)
  PROVE  /\ Same(S, s, {"inputQ"}) /\ Queues(s)
         /\ \A i \in F : Idle(MsgFrom(i), s.inputQ[i]) /\ Len(s.inputQ[i]) = Len(S.inputQ[i])
                         /\ s.inputQ[i] # << >>
         /\ \A i \in Node \ F : s.inputQ[i] = S.inputQ[i]
         /\ \A i \in Node : Msgs(s.inputQ[i]) = Msgs(S.inputQ[i])
<1> USE DEF MayRestore
<1>1. Same(S, s, {"inputQ"})
  BY DEF Restore, Same, IsNet, Fields
<1>2. s.inputQ = [i \in Node |->
        IF i \in F THEN <<[Head(S.inputQ[i]) EXCEPT !.remaining = Frame(Head(S.inputQ[i]).msg)]>> \o Tail(S.inputQ[i])
        ELSE S.inputQ[i]]
  BY DEF Restore, IsNet, Fields
<1>3. ASSUME NEW i \in F
      PROVE  /\ s.inputQ[i] \in Seq(MsgFrom(i)) /\ s.inputQ[i] # << >>
             /\ Len(s.inputQ[i]) = Len(S.inputQ[i])
             /\ Idle(MsgFrom(i), s.inputQ[i])
             /\ Msgs(s.inputQ[i]) = Msgs(S.inputQ[i])
  <2> DEFINE q == S.inputQ[i]
             p == s.inputQ[i]
             n == Frame(Head(q).msg)
             A == MsgFrom(i)
  <2>1. q \in Seq(A) /\ q # << >> /\ Tail(q) \in Seq(Whole(A)) /\ Frames(A) /\ A \subseteq NWmsg
    BY FramesFacts, MsgFacts DEF Heads, Queues
  <2>2. Head(q) \in A
    BY <2>1, HeadAndTail
  <2>4. n \in Int
    BY <2>1, <2>2, MsgFacts, FrameFacts
  <2>5. p = <<[Head(q) EXCEPT !.remaining = n]>> \o Tail(q)
    BY <1>2
  <2>7. q = S.inputQ[i] /\ p = s.inputQ[i] /\ n = Frame(Head(q).msg) /\ A = MsgFrom(i)
    OBVIOUS
  <2> DEFINE y == Head(q)
             x == [y EXCEPT !.remaining = n]
  <2>9. p = <<x>> \o Tail(q)
    BY <2>5
  <2>12. n = Frame(y.msg)
    OBVIOUS
  <2> HIDE DEF p, q, n, A
  <2>10. y \in A /\ y = Head(q)
    BY <2>2
  <2> HIDE DEF y
  <2>11. x \in A /\ x.msg = y.msg /\ x.remaining = n
    BY <2>1, <2>4, <2>10, OtherRemaining
  <2> HIDE DEF x
  <2>8. p \in Seq(A) /\ p # << >> /\ Len(p) = Len(q) /\ Idle(A, p) /\ Msgs(p) = Msgs(q)
    <3>1. NewFirst(A, q, x, p)
      BY <2>1, <2>9, <2>10, <2>11 DEF NewFirst
    <3> QED BY <2>10, <2>11, <2>12, <3>1, NewHead
  <2> QED BY <2>7, <2>8
<1>4. \A i \in Node \ F : s.inputQ[i] = S.inputQ[i]
  BY <1>2
<1>5. \A i \in Node : s.inputQ[i] \in Seq(MsgFrom(i))
  BY <1>3, <1>4 DEF Queues
<1>6. s.inputQ = [i \in Node |-> s.inputQ[i]]
  BY <1>2
<1>7. Queues(s)
  BY <1>1, <1>5, <1>6, NewLines
<1> QED BY <1>1, <1>3, <1>4, <1>7

LEMMA RemXTimeFacts ==
  ASSUME NEW S, S.type \in Kinds, S.time \in Nat, NEW i \in Node, NEW A \in SUBSET NWmsg, Busy(A, S.inputQ[i])
  PROVE  RemXTime(S, i) \in Nat /\ Finish(S, i) \in Nat
<1>1. Head(S.inputQ[i]) \in NWmsg
  BY HeadAndTail DEF Busy
<1>2. Head(S.inputQ[i]).remaining \in Nat
  BY <1>1, MsgFacts DEF Busy
<1>3. Rate(S, i) \in Nat \ {0}
  BY RatesAssumption, FrameFacts DEF Rate
<1>4. RemXTime(S, i) \in Nat
  <2> DEFINE a == Head(S.inputQ[i]).remaining
             b == Rate(S, i)
  <2>1. a \in Nat /\ b \in Nat \ {0}
    BY <1>2, <1>3
  <2> HIDE DEF a, b
  <2>2. a \div b \in Nat
    BY <2>1
  <2> QED BY <2>2 DEF a, b, RemXTime
<1> QED BY <1>4 DEF Finish

-----------------------------------------------------------------------------
(***************************************************************************)
(* The structure between the parts of a run.                               *)
(***************************************************************************)
Net(S) == IsNet(S) /\ Queues(S) /\ Scalars(S)

\* Frames that are on the medium or, in TDMA, interrupted there
Sends(S, i) == S.state[i] = 1 \/ (S.type = "TDMA" /\ S.state[i] = 2)
Line(S, i)  == IF Sends(S, i) THEN Busy(MsgFrom(i), S.inputQ[i]) ELSE Idle(MsgFrom(i), S.inputQ[i])
Lines(S)    == \A i \in Node : Line(S, i)
OneSends(S) == \A i \in Node : S.state[i] = 1 <=> S.sending = i

\* Only "nextHit" has changed.
LEMMA HitNet ==
  ASSUME NEW S, Net(S), NEW times \in SUBSET Nat, NEW s, s = Hit(S, times)
  PROVE  /\ Net(s) /\ Same(S, s, {"nextHit"}) /\ s.nextHit <= S.nextHit
         /\ \A t \in times : s.nextHit <= t
         /\ s.type = S.type /\ s.schedule = S.schedule /\ s.time = S.time /\ s.prevHit = S.prevHit
         /\ s.inputQ = S.inputQ /\ s.statinputQ = S.statinputQ /\ s.outputQ = S.outputQ
         /\ s.switchQ = S.switchQ /\ s.state = S.state /\ s.swstate = S.swstate
         /\ s.sending = S.sending /\ s.waituntil = S.waituntil /\ s.until = S.until
         /\ s.slotcount = S.slotcount /\ s.currslottime = S.currslottime
         /\ s.miniSlotCount = S.miniSlotCount /\ s.msgMiniSlots = S.msgMiniSlots
         /\ s.lasttime = S.lasttime /\ s.collisions = S.collisions
         /\ Lines(S) => Lines(s)
         /\ OneSends(S) => OneSends(s)
<1>1. IsNet(S) /\ Queues(S) /\ Scalars(S) /\ S.nextHit \in Nat
  BY DEF Net, Scalars
<1>2. Same(S, s, {"nextHit"}) /\ s.nextHit \in Nat /\ s.nextHit <= S.nextHit /\ \A t \in times : s.nextHit <= t
  BY <1>1, HitFacts
<1>3. /\ s.type = S.type /\ s.schedule = S.schedule /\ s.time = S.time /\ s.prevHit = S.prevHit
      /\ s.inputQ = S.inputQ /\ s.statinputQ = S.statinputQ /\ s.outputQ = S.outputQ
      /\ s.switchQ = S.switchQ /\ s.state = S.state /\ s.swstate = S.swstate
      /\ s.sending = S.sending /\ s.waituntil = S.waituntil /\ s.until = S.until
      /\ s.slotcount = S.slotcount /\ s.currslottime = S.currslottime
      /\ s.miniSlotCount = S.miniSlotCount /\ s.msgMiniSlots = S.msgMiniSlots
      /\ s.lasttime = S.lasttime /\ s.collisions = S.collisions
      /\ s.preprocQ = S.preprocQ /\ s.statpreprocQ = S.statpreprocQ /\ s.postprocQ = S.postprocQ
      /\ s.outputs = S.outputs /\ s.switchmem = S.switchmem /\ s.nodemem = S.nodemem
      /\ s.rrturn = S.rrturn /\ s.nextNode = S.nextNode /\ s.idleUntil = S.idleUntil
  BY <1>2 DEF Same, Fields
<1>4. Queues(s)
  BY <1>1, <1>3 DEF Queues
<1>5. Scalars(s)
  BY <1>1, <1>2, <1>3 DEF Scalars
<1>6. IsNet(s)
  BY <1>2 DEF Same
<1>7. Lines(S) => Lines(s)
  BY <1>3 DEF Lines, Line, Sends
<1>8. OneSends(S) => OneSends(s)
  BY <1>3 DEF OneSends
<1> QED BY <1>2, <1>3, <1>4, <1>5, <1>6, <1>7, <1>8 DEF Net

\* "state", "sending" and the lines may have changed, and what comes out at the
\* other end.
LEMMA MediumNet ==
  ASSUME NEW S, Net(S), NEW s,
         Same(S, s, {"inputQ", "outputQ", "state", "sending", "nextHit"}), Queues(s),
         s.nextHit \in Nat, s.state \in [Node -> 0 .. 3], s.sending \in Node \cup {-1}
  PROVE  Net(s)
<1>1. /\ s.type = S.type /\ s.schedule = S.schedule /\ s.time = S.time /\ s.prevHit = S.prevHit
      /\ s.swstate = S.swstate
      /\ s.waituntil = S.waituntil /\ s.until = S.until
      /\ s.slotcount = S.slotcount /\ s.currslottime = S.currslottime
      /\ s.miniSlotCount = S.miniSlotCount /\ s.msgMiniSlots = S.msgMiniSlots
      /\ s.lasttime = S.lasttime /\ s.collisions = S.collisions
      /\ s.outputs = S.outputs /\ s.switchmem = S.switchmem /\ s.nodemem = S.nodemem
      /\ s.rrturn = S.rrturn /\ s.nextNode = S.nextNode /\ s.idleUntil = S.idleUntil
  BY DEF Same, Fields
<1>2. Scalars(S)
  BY DEF Net
<1>3. Scalars(s)
  BY <1>1, <1>2 DEF Scalars
<1>4. IsNet(s)
  BY DEF Same
<1> QED BY <1>3, <1>4 DEF Net

NodesOf(f) == {i \in Node : f[i] = 1}

LEMMA NodesOfFacts ==
  \A f : NodesOf(f) \in SUBSET Node /\ NodesOf(f) \subseteq Node
  BY DEF NodesOf

LEMMA CarriesNothing ==
  ASSUME NEW B, NEW t \in Nat, NEW in, NEW in2, NEW out, out \in [Node -> Seq(NWmsg)],
         \A i \in Node : Msgs(in2[i]) = Msgs(in[i])
  PROVE  Carries(B, t, in, in2, out, out)
<1>1. \A r \in Node : Reaches(in, {}, r, t, << >>) /\ out[r] = out[r] \o << >>
  <2> TAKE r \in Node
  <2>1. out[r] \in Seq(NWmsg)
    OBVIOUS
  <2>2. \A a : From(a, << >>) = << >>
    BY FromSmall
  <2> QED BY <2>1, <2>2, ConcatEmptySeq DEF Reaches
<1> QED BY <1>1 DEF Carries

LEMMA CarriesOn ==
  ASSUME NEW B, NEW t, NEW in, NEW in2, NEW out, NEW out2, Carries(B, t, in, in2, out, out2),
         NEW in3, \A i \in Node : Msgs(in3[i]) = Msgs(in2[i]), NEW out3, out3 = out2,
         B \subseteq Node
  PROVE  Carries(B, t, in, in3, out, out3)
<1>1. PICK F \in SUBSET B :
        /\ \A i \in F : in[i] # << >> /\ Msgs(in2[i]) = Msgs(Tail(in[i]))
        /\ \A i \in Node \ F : Msgs(in2[i]) = Msgs(in[i])
        /\ \A r \in Node : \E u : Reaches(in, F, r, t, u) /\ out2[r] = out[r] \o u
  BY DEF Carries
<1>2. F \in SUBSET B /\ \A i \in F : i \in Node
  BY <1>1
<1>3. \A i \in F : in[i] # << >> /\ Msgs(in3[i]) = Msgs(Tail(in[i]))
  BY <1>1, <1>2, Zenon
<1>4. \A i \in Node \ F : Msgs(in3[i]) = Msgs(in[i])
  BY <1>1, Zenon
<1>5. \A r \in Node : \E u : Reaches(in, F, r, t, u) /\ out3[r] = out[r] \o u
  BY <1>1, Zenon
<1> QED BY <1>2, <1>3, <1>4, <1>5, Zenon DEF Carries

\* What was carried before the frames changed but for their messages
LEMMA CarriesAfter ==
  ASSUME NEW B \in SUBSET Node, NEW t, NEW in, NEW in1, NEW in2, NEW out, NEW out2,
         Carries(B, t, in1, in2, out, out2),
         in \in [Node -> Seq(NWmsg)], in1 \in [Node -> Seq(NWmsg)],
         \A i \in Node : Msgs(in1[i]) = Msgs(in[i])
  PROVE  Carries(B, t, in, in2, out, out2)
<1>1. PICK F \in SUBSET B :
        /\ \A i \in F : in1[i] # << >> /\ Msgs(in2[i]) = Msgs(Tail(in1[i]))
        /\ \A i \in Node \ F : Msgs(in2[i]) = Msgs(in1[i])
        /\ \A r \in Node : \E u : Reaches(in1, F, r, t, u) /\ out2[r] = out[r] \o u
  BY DEF Carries
<1>2. ASSUME NEW i \in F
      PROVE  in[i] # << >> /\ Msgs(Tail(in[i])) = Msgs(Tail(in1[i])) /\ Head(in[i]).msg = Head(in1[i]).msg
  <2>1. in1[i] \in Seq(NWmsg) /\ in1[i] # << >> /\ in[i] \in Seq(NWmsg) /\ Msgs(in1[i]) = Msgs(in[i])
    BY <1>1
  <2>2. Msgs(in1[i]) # << >>
    BY <2>1, MsgsTail
  <2>3. in[i] # << >>
    BY <2>1, <2>2, MsgsSmall
  <2>4. /\ Msgs(Tail(in[i])) = Tail(Msgs(in[i])) /\ Head(in[i]).msg = Head(Msgs(in[i]))
        /\ Msgs(Tail(in1[i])) = Tail(Msgs(in1[i])) /\ Head(in1[i]).msg = Head(Msgs(in1[i]))
    BY <2>1, <2>3, MsgsTail
  <2> QED BY <2>1, <2>3, <2>4
<1>3. \A i \in F : in[i] # << >> /\ Msgs(in2[i]) = Msgs(Tail(in[i]))
  BY <1>1, <1>2
<1>4. \A i \in Node \ F : Msgs(in2[i]) = Msgs(in[i])
  BY <1>1
<1>5. ASSUME NEW r \in Node, NEW u, Reaches(in1, F, r, t, u) PROVE Reaches(in, F, r, t, u)
  BY <1>2, <1>5 DEF Reaches
<1>6. \A r \in Node : \E u : Reaches(in, F, r, t, u) /\ out2[r] = out[r] \o u
  BY <1>1, <1>5
<1> QED BY <1>3, <1>4, <1>6 DEF Carries

LEMMA BusyHead ==
  ASSUME NEW A, A \subseteq NWmsg, NEW q, Busy(A, q)
  PROVE  Head(q) \in A /\ Head(q).remaining \in Nat \ {0} /\ q # << >> /\ Tail(q) \in Seq(Whole(A))
<1>1. Head(q) \in A /\ Head(q).remaining > 0 /\ q # << >> /\ Tail(q) \in Seq(Whole(A))
  BY HeadAndTail DEF Busy
<1> QED BY <1>1, MsgFacts

\* The protocols of a medium that one node at a time sends on
LEMMA TransmitFacts ==
  ASSUME NEW S, Net(S), Lines(S), OneSends(S), NEW e \in Nat, NEW s, s = Transmit(S, e)
  PROVE  /\ Net(s) /\ Lines(s) /\ OneSends(s)
         /\ Same(S, s, {"inputQ", "outputQ", "state", "sending", "nextHit"})
         /\ s.nextHit <= S.nextHit
         /\ Carries(NodesOf(S.state), S.time, S.inputQ, s.inputQ, S.outputQ, s.outputQ)
         /\ s.sending = -1 \/ s.sending = S.sending
         /\ s.sending = -1 => s.state = [i \in Node |-> IF i = S.sending THEN 0 ELSE S.state[i]]
         /\ s.sending # -1 =>
              /\ s.state = S.state /\ s.nextHit <= Finish(s, s.sending)
              /\ Head(s.inputQ[s.sending]).remaining
                   = Head(S.inputQ[s.sending]).remaining - Rate(S, s.sending) * e
<1> DEFINE i == S.sending
           s1 == Spend(S, {i}, e)
<1>1. /\ IsNet(S) /\ Queues(S) /\ Scalars(S) /\ S.type \in Kinds /\ S.time \in Nat /\ S.nextHit \in Nat
      /\ i \in Node \cup {-1} /\ S.state \in [Node -> 0 .. 3]
      /\ S.inputQ \in [Node -> Seq(NWmsg)] /\ S.outputQ \in [Node -> Seq(NWmsg)]
  BY DEF Net, Scalars, Queues
<1>2. CASE i = -1
  <2>1. s = S
    BY <1>2 DEF Transmit
  <2>2. Same(S, S, {"inputQ", "outputQ", "state", "sending", "nextHit"})
    BY <1>1 DEF Same
  <2>3. Carries(NodesOf(S.state), S.time, S.inputQ, S.inputQ, S.outputQ, S.outputQ)
    BY <1>1, CarriesNothing
  <2>4. S.state = [j \in Node |-> IF j = S.sending THEN 0 ELSE S.state[j]]
    BY <1>1, <1>2, NodeFacts
  <2> QED BY <1>1, <1>2, <2>1, <2>2, <2>3, <2>4
<1>3. CASE i # -1
  <2>1. i \in Node /\ S.state[i] = 1 /\ Busy(MsgFrom(i), S.inputQ[i])
    BY <1>1, <1>3 DEF OneSends, Lines, Line, Sends
  <2>2. Heads(S, {i}) /\ {i} \in SUBSET Node
    BY <2>1 DEF Heads, Busy
  <2>3. s1 = Spend(S, {i}, e)
    OBVIOUS
  <2>9. s = IF Sent(s1, i) THEN [Deliver(s1, {i}) EXCEPT !.state[i] = 0, !.sending = -1]
            ELSE Hit(s1, {Finish(s1, i)})
    BY <1>3 DEF Transmit
  <2> HIDE DEF s1
  <2>12. /\ Same(S, s1, {"inputQ"}) /\ Queues(s1) /\ Heads(s1, {i})
         /\ \A j \in {i} :
              /\ Tail(s1.inputQ[j]) = Tail(S.inputQ[j])
              /\ Head(s1.inputQ[j]).remaining = Head(S.inputQ[j]).remaining - Rate(S, j) * e
              /\ ~ Sent(s1, j) => Busy(MsgFrom(j), s1.inputQ[j])
         /\ \A j \in Node \ {i} : s1.inputQ[j] = S.inputQ[j]
         /\ \A j \in Node : Msgs(s1.inputQ[j]) = Msgs(S.inputQ[j])
    <3> DEFINE F == {i}
    <3>1. F \in SUBSET Node /\ Heads(S, F) /\ s1 = Spend(S, F, e)
      BY <2>2, <2>3
    <3> HIDE DEF F
    <3>2. /\ Same(S, s1, {"inputQ"}) /\ Queues(s1) /\ Heads(s1, F)
          /\ \A j \in F :
               /\ Tail(s1.inputQ[j]) = Tail(S.inputQ[j])
               /\ Head(s1.inputQ[j]).remaining = Head(S.inputQ[j]).remaining - Rate(S, j) * e
               /\ ~ Sent(s1, j) => Busy(MsgFrom(j), s1.inputQ[j])
          /\ \A j \in Node \ F : s1.inputQ[j] = S.inputQ[j]
          /\ \A j \in Node : Msgs(s1.inputQ[j]) = Msgs(S.inputQ[j])
      <4>1. IsNet(S) /\ Queues(S) /\ S.type \in Kinds
        BY <1>1
      <4> QED BY <3>1, <4>1, SpendFacts
    <3> QED BY <3>2 DEF F
  <2>4. /\ Same(S, s1, {"inputQ"}) /\ Queues(s1) /\ Heads(s1, {i})
        /\ Tail(s1.inputQ[i]) = Tail(S.inputQ[i])
        /\ Head(s1.inputQ[i]).remaining = Head(S.inputQ[i]).remaining - Rate(S, i) * e
        /\ ~ Sent(s1, i) => Busy(MsgFrom(i), s1.inputQ[i])
        /\ \A j \in Node \ {i} : s1.inputQ[j] = S.inputQ[j]
        /\ \A j \in Node : Msgs(s1.inputQ[j]) = Msgs(S.inputQ[j])
    BY <2>12
  <2>5. /\ s1.state = S.state /\ s1.sending = i /\ s1.nextHit = S.nextHit /\ s1.outputQ = S.outputQ
        /\ s1.time = S.time /\ s1.type = S.type /\ IsNet(s1)
    BY <2>4 DEF Same, Fields
  <2>6. Net(s1)
    <3>1. Same(S, s1, {"inputQ", "outputQ", "state", "sending", "nextHit"})
      BY <2>4 DEF Same
    <3> QED BY <1>1, <2>4, <2>5, <3>1, MediumNet
  <2>7. \A j \in Node \ {i} : Line(s1, j)
    BY <2>4, <2>5 DEF Lines, Line, Sends
  <2>8. s1.inputQ \in [Node -> Seq(NWmsg)]
    BY <2>4 DEF Queues
  <2>10. CASE ~ Sent(s1, i)
    <3>1. s = Hit(s1, {Finish(s1, i)})
      BY <2>9, <2>10
    <3>2. Finish(s1, i) \in Nat
      <4>1. MsgFrom(i) \in SUBSET NWmsg
        BY MsgFacts
      <4>2. s1.type \in Kinds /\ s1.time \in Nat /\ Busy(MsgFrom(i), s1.inputQ[i])
        BY <1>1, <2>4, <2>5, <2>10
      <4> QED BY <2>1, <4>1, <4>2, RemXTimeFacts
    <3>3. Lines(s1) /\ OneSends(s1)
      <4>1. OneSends(s1)
        BY <2>5 DEF OneSends
      <4>2. Line(s1, i)
        BY <2>1, <2>4, <2>5, <2>10 DEF Line, Sends
      <4> QED BY <2>7, <4>1, <4>2 DEF Lines
    <3>4. /\ Net(s) /\ Same(s1, s, {"nextHit"}) /\ s.nextHit <= s1.nextHit /\ s.nextHit <= Finish(s1, i)
          /\ s.time = s1.time /\ s.type = s1.type
          /\ s.inputQ = s1.inputQ /\ s.outputQ = s1.outputQ
          /\ s.state = s1.state /\ s.sending = s1.sending /\ Lines(s) /\ OneSends(s)
      <4>1. {Finish(s1, i)} \in SUBSET Nat
        BY <3>2
      <4> QED BY <2>6, <3>1, <3>3, <4>1, HitNet
    <3>5. Finish(s, i) = Finish(s1, i)
      BY <3>4 DEF Finish, RemXTime, Rate
    <3>6. Carries(NodesOf(S.state), S.time, S.inputQ, s.inputQ, S.outputQ, S.outputQ)
      BY <1>1, <2>4, <3>4, CarriesNothing
    <3>7. Same(S, s, {"inputQ", "outputQ", "state", "sending", "nextHit"})
      BY <2>4, <3>4 DEF Same
    <3>8. s.state = S.state /\ s.sending = i /\ s.nextHit <= S.nextHit /\ s.outputQ = S.outputQ
      BY <2>5, <3>4
    <3>9. Head(s.inputQ[i]).remaining = Head(S.inputQ[i]).remaining - Rate(S, i) * e
      BY <2>4, <3>4
    <3> QED BY <1>3, <3>4, <3>5, <3>6, <3>7, <3>8, <3>9
  <2>11. CASE Sent(s1, i)
    <3> DEFINE d == Deliver(s1, {i})
    <3>1. s = [d EXCEPT !.state[i] = 0, !.sending = -1]
      BY <2>9, <2>11
    <3>20. \A j \in {i} : s1.inputQ[j] # << >>
      BY <2>4 DEF Heads
    <3>21. {i} \in SUBSET Node /\ s1.time \in Nat /\ s1.nextHit \in Nat
      BY <1>1, <2>1, <2>5
    <3>22. d = Deliver(s1, {i})
      OBVIOUS
    <3> HIDE DEF d
    <3>2. /\ Same(s1, d, {"inputQ", "outputQ", "nextHit"})
          /\ d.nextHit \in Nat /\ d.nextHit <= s1.nextHit
          /\ d.inputQ = [j \in Node |-> IF j \in {i} THEN Tail(s1.inputQ[j]) ELSE s1.inputQ[j]]
          /\ d.outputQ = [r \in Node |-> s1.outputQ[r] \o Arrivals(s1, {i}, r)]
          /\ \A r \in Node : Reaches(s1.inputQ, {i}, r, s1.time, Arrivals(s1, {i}, r))
      <4> DEFINE F == {i}
      <4>1. F \in SUBSET Node /\ d = Deliver(s1, F) /\ \A j \in F : s1.inputQ[j] # << >>
        BY <3>20, <3>21, <3>22
      <4> HIDE DEF F
      <4>2. /\ Same(s1, d, {"inputQ", "outputQ", "nextHit"})
            /\ d.nextHit \in Nat /\ d.nextHit <= s1.nextHit
            /\ d.inputQ = [j \in Node |-> IF j \in F THEN Tail(s1.inputQ[j]) ELSE s1.inputQ[j]]
            /\ d.outputQ = [r \in Node |-> s1.outputQ[r] \o Arrivals(s1, F, r)]
            /\ \A r \in Node : Reaches(s1.inputQ, F, r, s1.time, Arrivals(s1, F, r))
        <5>1. IsNet(s1) /\ Queues(s1) /\ s1.time \in Nat /\ s1.nextHit \in Nat
          BY <2>4, <2>5, <3>21
        <5>2. MayDeliver(s1, F)
          BY <4>1, <5>1 DEF MayDeliver
        <5> QED BY <4>1, <5>2, DeliverFacts
      <4> QED BY <4>2 DEF F
    <3>3. d.state = S.state /\ d.sending = i /\ IsNet(d)
      BY <2>5, <3>2 DEF Same, Fields
    <3>4. /\ Same(d, s, {"state", "sending"}) /\ s.sending = -1
          /\ s.state = [j \in Node |-> IF j = i THEN 0 ELSE S.state[j]]
      <4>1. Same(d, s, {"state", "sending"}) /\ s.sending = -1 /\ s.state = [d.state EXCEPT ![i] = 0]
        BY <3>1, <3>3 DEF Same, IsNet, Fields
      <4> QED BY <1>1, <3>3, <4>1
    <3>5. /\ s.inputQ = d.inputQ /\ s.outputQ = d.outputQ /\ s.nextHit = d.nextHit /\ s.time = S.time
          /\ s.type = S.type /\ s.preprocQ = S.preprocQ
          /\ s.statpreprocQ = S.statpreprocQ /\ s.statinputQ = S.statinputQ
          /\ s.switchQ = S.switchQ /\ s.postprocQ = S.postprocQ
      <4>1. s.inputQ = d.inputQ /\ s.outputQ = d.outputQ /\ s.nextHit = d.nextHit
        BY <3>4 DEF Same, Fields
      <4>2. Same(S, s, {"inputQ", "outputQ", "nextHit", "state", "sending"})
        BY <2>4, <3>2, <3>4 DEF Same
      <4> QED BY <4>1, <4>2 DEF Same, Fields
    <3>6. s.inputQ[i] = Tail(S.inputQ[i]) /\ \A j \in Node \ {i} : s.inputQ[j] = S.inputQ[j]
      BY <2>1, <2>4, <3>2, <3>5
    <3>7. Idle(MsgFrom(i), s.inputQ[i])
      BY <2>1, <3>6 DEF Busy, Idle
    <3>8. Lines(s)
      <4>1. \A j \in Node \ {i} : Line(s, j)
        BY <3>4, <3>5, <3>6 DEF Lines, Line, Sends
      <4>2. Line(s, i)
        BY <2>1, <3>4, <3>7 DEF Line, Sends
      <4> QED BY <4>1, <4>2 DEF Lines
    <3>9. OneSends(s)
      BY <2>1, <3>4, NodeFacts DEF OneSends
    <3>10. Queues(s)
      <4>1. \A r \in Node : Arrivals(s1, {i}, r) \in Seq(MsgTo(r))
        <5> TAKE r \in Node
        <5>1. {x \in MsgTo(r) : x.waituntil = s1.time + Postdelay[r]} \subseteq MsgTo(r)
          OBVIOUS
        <5> QED BY <3>2, <5>1, SeqMonotonic DEF Reaches
      <4>2. \A r \in Node : s.outputQ[r] \in Seq(MsgTo(r))
        <5> TAKE r \in Node
        <5>1. s1.outputQ[r] \in Seq(MsgTo(r)) /\ s.outputQ[r] = s1.outputQ[r] \o Arrivals(s1, {i}, r)
          BY <2>4, <3>2, <3>5 DEF Queues
        <5> QED BY <4>1, <5>1, ConcatProperties
      <4>3. \A j \in Node : s.inputQ[j] \in Seq(MsgFrom(j))
        <5>1. s.inputQ[i] \in Seq(MsgFrom(i))
          BY <3>7, LineFacts, MsgFacts
        <5> QED BY <1>1, <3>6, <5>1 DEF Queues
      <4>4. \A j : MsgFrom(j) \subseteq NWmsg /\ MsgTo(j) \subseteq NWmsg
        BY MsgFacts
      <4>5. s.inputQ \in [Node -> Seq(NWmsg)] /\ s.outputQ \in [Node -> Seq(NWmsg)]
        <5>1. \A j \in Node : s.inputQ[j] \in Seq(NWmsg) /\ s.outputQ[j] \in Seq(NWmsg)
          BY <4>2, <4>3, <4>4, SeqMonotonic
        <5>2. s.inputQ = [j \in Node |-> s.inputQ[j]] /\ s.outputQ = [j \in Node |-> s.outputQ[j]]
          BY <3>2, <3>5
        <5> QED BY <5>1, <5>2
      <4> QED BY <1>1, <3>5, <4>2, <4>3, <4>5 DEF Queues
    <3>11. Same(S, s, {"inputQ", "outputQ", "nextHit", "state", "sending"})
      BY <2>4, <3>2, <3>4 DEF Same
    <3>12. Net(s)
      <4>1. s.nextHit \in Nat /\ s.state \in [Node -> 0 .. 3] /\ s.sending \in Node \cup {-1}
        BY <1>1, <3>2, <3>4, <3>5
      <4>2. Same(S, s, {"inputQ", "outputQ", "state", "sending", "nextHit"})
        BY <3>11 DEF Same
      <4> QED BY <3>10, <4>1, <4>2, MediumNet
    <3>13. Carries(NodesOf(S.state), S.time, S.inputQ, s.inputQ, S.outputQ, s.outputQ)
      <4>1. \A j \in {i} : s1.inputQ[j] # << >> /\ Msgs(s.inputQ[j]) = Msgs(Tail(s1.inputQ[j]))
        BY <2>1, <3>20, <3>2, <3>5
      <4>2. \A j \in Node \ {i} : Msgs(s.inputQ[j]) = Msgs(s1.inputQ[j])
        BY <2>4, <3>6
      <4>3. \A r \in Node : \E u : Reaches(s1.inputQ, {i}, r, S.time, u) /\ s.outputQ[r] = S.outputQ[r] \o u
        <5>1. \A r \in Node : /\ Reaches(s1.inputQ, {i}, r, S.time, Arrivals(s1, {i}, r))
                              /\ s.outputQ[r] = S.outputQ[r] \o Arrivals(s1, {i}, r)
          BY <2>5, <3>2, <3>5
        <5> QED BY <5>1
      <4>4. Carries(NodesOf(S.state), S.time, s1.inputQ, s.inputQ, S.outputQ, s.outputQ)
        <5>1. {i} \in SUBSET NodesOf(S.state)
          BY <2>1 DEF NodesOf
        <5> QED BY <5>1, <4>1, <4>2, <4>3 DEF Carries
      <4>5. NodesOf(S.state) \in SUBSET Node
        BY NodesOfFacts
      <4> QED BY <1>1, <2>4, <2>8, <4>4, <4>5, CarriesAfter
    <3>14. s.nextHit <= S.nextHit
      BY <2>5, <3>2, <3>5
    <3> QED BY <3>4, <3>8, <3>9, <3>11, <3>12, <3>13, <3>14 DEF Same
  <2> QED BY <2>10, <2>11
<1> QED BY <1>2, <1>3

QueueFields == {"preprocQ", "inputQ", "statpreprocQ", "statinputQ", "outputQ", "switchQ", "postprocQ"}

LEMMA NoQueueChanged ==
  ASSUME NEW S, Net(S), NEW s, NEW F, Same(S, s, F), F \cap QueueFields = {}, Scalars(s)
  PROVE  Net(s)
<1>1. /\ s.preprocQ = S.preprocQ /\ s.statpreprocQ = S.statpreprocQ /\ s.statinputQ = S.statinputQ
      /\ s.outputQ = S.outputQ /\ s.switchQ = S.switchQ /\ s.postprocQ = S.postprocQ
      /\ s.inputQ = S.inputQ
  BY DEF Same, Fields, QueueFields
<1>2. Queues(S) /\ IsNet(s)
  BY DEF Net, Same
<1>3. Queues(s)
  BY <1>1, <1>2 DEF Queues
<1> QED BY <1>2, <1>3 DEF Net

LEMMA NetFacts ==
  ASSUME NEW S, Net(S)
  PROVE  /\ IsNet(S) /\ Scalars(S) /\ Queues(S) /\ S.type \in Kinds
         /\ S.time \in Nat /\ S.prevHit \in Nat /\ S.nextHit \in Nat /\ S.waituntil \in Nat
         /\ S.inputQ \in [Node -> Seq(NWmsg)] /\ S.outputQ \in [Node -> Seq(NWmsg)]
         /\ S.statinputQ \in [Node -> Seq(NWmsg)] /\ S.switchQ \in [Node -> Seq(NWmsg)]
         /\ S.state \in [Node -> 0 .. 3] /\ S.swstate \in [Node -> {0, 1}]
         /\ S.sending \in Node \cup {-1}
         /\ S.nextNode \in Node /\ S.rrturn \in Node /\ S.lasttime \in Int
         /\ S.slotcount \in Int /\ S.currslottime \in Int /\ S.miniSlotCount \in Int
         /\ S.msgMiniSlots \in Nat /\ S.idleUntil \in Nat
  BY DEF Net, Scalars, Queues

LEMMA StateExcept ==
  ASSUME NEW f \in [Node -> 0 .. 3], NEW i, NEW n \in 0 .. 3
  PROVE  /\ [f EXCEPT ![i] = n] \in [Node -> 0 .. 3]
         /\ [f EXCEPT ![i] = n] = [j \in Node |-> IF j = i THEN n ELSE f[j]]
  OBVIOUS

\* The new values of the fields F of s are of their types.
NewScalars(s, F) ==
  /\ F \cap {"type", "schedule"} = {}
  /\ "time" \in F => s.time \in Nat
  /\ "prevHit" \in F => s.prevHit \in Nat
  /\ "nextHit" \in F => s.nextHit \in Nat
  /\ "state" \in F => s.state \in [Node -> 0 .. 3]
  /\ "swstate" \in F => s.swstate \in [Node -> {0, 1}]
  /\ "collisions" \in F => s.collisions \in [Node -> 0 .. 10]
  /\ "until" \in F => s.until \in [Node -> Nat]
  /\ "outputs" \in F => s.outputs \in [Node -> {0, 1}]
  /\ "sending" \in F => s.sending \in Node \cup {-1}
  /\ "waituntil" \in F => s.waituntil \in Nat
  /\ "lasttime" \in F => s.lasttime \in Int
  /\ "rrturn" \in F => s.rrturn \in Node
  /\ "nextNode" \in F => s.nextNode \in Node
  /\ "slotcount" \in F => s.slotcount \in Int
  /\ "currslottime" \in F => s.currslottime \in Int
  /\ "miniSlotCount" \in F => s.miniSlotCount \in Int
  /\ "msgMiniSlots" \in F => s.msgMiniSlots \in Nat
  /\ "idleUntil" \in F => s.idleUntil \in Nat
  /\ "switchmem" \in F => s.switchmem \in Int
  /\ "nodemem" \in F => s.nodemem \in [Node -> Int]

LEMMA ScalarsAgain ==
  ASSUME NEW S, Scalars(S), NEW s, NEW F, Same(S, s, F), NewScalars(s, F)
  PROVE  Scalars(s)
<1>1. s.type = S.type /\ s.schedule = S.schedule
  BY DEF Same, Fields, NewScalars
<1>2. /\ s.time \in Nat /\ s.prevHit \in Nat /\ s.nextHit \in Nat
      /\ s.state \in [Node -> 0 .. 3] /\ s.swstate \in [Node -> {0, 1}]
  BY DEF Same, Fields, NewScalars, Scalars
<1>3. /\ s.collisions \in [Node -> 0 .. 10] /\ s.until \in [Node -> Nat]
      /\ s.outputs \in [Node -> {0, 1}]
  BY DEF Same, Fields, NewScalars, Scalars
<1>4. /\ s.sending \in Node \cup {-1} /\ s.waituntil \in Nat /\ s.lasttime \in Int
      /\ s.rrturn \in Node /\ s.nextNode \in Node
  BY DEF Same, Fields, NewScalars, Scalars
<1>5. /\ s.slotcount \in Int /\ s.currslottime \in Int /\ s.miniSlotCount \in Int
      /\ s.msgMiniSlots \in Nat /\ s.idleUntil \in Nat
  BY DEF Same, Fields, NewScalars, Scalars
<1>6. s.switchmem \in Int /\ s.nodemem \in [Node -> Int]
  BY DEF Same, Fields, NewScalars, Scalars
<1> QED BY <1>1, <1>2, <1>3, <1>4, <1>5, <1>6 DEF Scalars

LEMMA NetAgain ==
  ASSUME NEW S, Net(S), NEW s, NEW F, Same(S, s, F), F \cap QueueFields = {}, NewScalars(s, F)
  PROVE  Net(s)
<1>1. Scalars(S)
  BY DEF Net
<1>2. Scalars(s)
  BY <1>1, ScalarsAgain
<1> QED BY <1>2, NoQueueChanged

\* A node that has something to send
LEMMA LineStarts ==
  ASSUME NEW S, Net(S), Lines(S), NEW i \in Node, S.inputQ[i] # << >>
  PROVE  Busy(MsgFrom(i), S.inputQ[i]) /\ RemXTime(S, i) \in Nat /\ Finish(S, i) \in Nat
<1>1. MsgFrom(i) \in SUBSET NWmsg
  BY MsgFacts
<1>2. Busy(MsgFrom(i), S.inputQ[i])
  <2>1. CASE Sends(S, i)
    BY <2>1 DEF Lines, Line
  <2>2. CASE ~ Sends(S, i)
    <3>1. Idle(MsgFrom(i), S.inputQ[i])
      BY <2>2 DEF Lines, Line
    <3> QED BY <1>1, <3>1, IdleStarts
  <2> QED BY <2>1, <2>2
<1>3. S.type \in Kinds /\ S.time \in Nat
  BY DEF Net, Scalars
<1> QED BY <1>1, <1>2, <1>3, RemXTimeFacts

LEMMA TokenTimeFacts == TokenTime \in Nat
<1>1. Minsize \in Nat /\ Datarate \in Nat \ {0}
  BY FrameFacts
<1> QED BY <1>1 DEF TokenTime

\* The token bus
LEMMA TokenBusFacts ==
  ASSUME NEW S, Net(S), Lines(S), OneSends(S), S.type \in {"RR", "NCM"}, NEW e \in Nat,
         NEW s, s = TokenBus(S, e)
  PROVE  /\ Net(s) /\ Lines(s) /\ OneSends(s)
         /\ Same(S, s, {"inputQ", "outputQ", "state", "sending", "nextHit", "rrturn", "waituntil"})
         /\ s.nextHit <= S.nextHit
         /\ Carries(NodesOf(S.state), S.time, S.inputQ, s.inputQ, S.outputQ, s.outputQ)
         /\ \A i \in Node : s.state[i] = 1 => s.nextHit <= Finish(s, i)
         /\ s.sending = -1 => s.nextHit <= s.waituntil
<1> DEFINE turn == IF S.type = "NCM" THEN S.nextNode ELSE (S.rrturn + 1) % NbrOfNodes
           passed == [S EXCEPT !.rrturn = turn]
           t == Transmit(S, e)
           G == {"inputQ", "outputQ", "state", "sending", "nextHit", "rrturn", "waituntil"}
<1>1. /\ IsNet(S) /\ Scalars(S) /\ Queues(S) /\ S.time \in Nat /\ S.waituntil \in Nat
      /\ S.inputQ \in [Node -> Seq(NWmsg)] /\ S.outputQ \in [Node -> Seq(NWmsg)]
      /\ S.state \in [Node -> 0 .. 3] /\ S.sending \in Node \cup {-1}
      /\ S.nextNode \in Node /\ S.rrturn \in Node
  BY DEF Net, Scalars, Queues
<1>2. turn \in Node
  <2>1. NbrOfNodes \in Nat \ {0} /\ S.rrturn \in Nat
    BY <1>1, NodeFacts
  <2>2. (S.rrturn + 1) % NbrOfNodes \in Node
    BY <2>1 DEF Node
  <2> QED BY <1>1, <2>2
<1>3. TokenTime \in Nat
  BY TokenTimeFacts
<1>4. s = CASE S.sending = -1 /\ S.time >= S.waituntil /\ S.inputQ[turn] # << >> ->
             Hit([passed EXCEPT !.sending = turn, !.state[turn] = 1], {Finish(S, turn)})
        [] S.sending = -1 /\ S.time >= S.waituntil /\ S.inputQ[turn] = << >> ->
             Hit([passed EXCEPT !.waituntil = S.time + TokenTime], {S.time + TokenTime})
        [] S.sending = -1 /\ S.time < S.waituntil -> Hit(S, {S.waituntil})
        [] S.sending # -1 /\ t.sending # -1 -> t
        [] S.sending # -1 /\ t.sending = -1 ->
             Hit([t EXCEPT !.waituntil = S.time + TokenTime], {S.time + TokenTime})
  BY DEF TokenBus
<1>5. t = Transmit(S, e)
  OBVIOUS
<1> HIDE DEF turn, t
<1>6. /\ Net(t) /\ Lines(t) /\ OneSends(t)
      /\ Same(S, t, {"inputQ", "outputQ", "state", "sending", "nextHit"})
      /\ t.nextHit <= S.nextHit
      /\ Carries(NodesOf(S.state), S.time, S.inputQ, t.inputQ, S.outputQ, t.outputQ)
      /\ t.sending # -1 => t.nextHit <= Finish(t, t.sending)
  BY <1>5, TransmitFacts
<1>7. Carries(NodesOf(S.state), S.time, S.inputQ, S.inputQ, S.outputQ, S.outputQ)
  BY <1>1, CarriesNothing
<1>8. CASE S.sending = -1 /\ S.time >= S.waituntil /\ S.inputQ[turn] # << >>
  <2> DEFINE r == [passed EXCEPT !.sending = turn, !.state[turn] = 1]
  <2>1. s = Hit(r, {Finish(S, turn)})
    BY <1>1, <1>4, <1>8
  <2>2. /\ Same(S, r, {"rrturn", "sending", "state"}) /\ r.sending = turn /\ r.rrturn = turn
        /\ r.state = [S.state EXCEPT ![turn] = 1]
    BY <1>1 DEF Same, IsNet, Fields
  <2> HIDE DEF r
  <2>3. /\ r.inputQ = S.inputQ /\ r.outputQ = S.outputQ /\ r.nextHit = S.nextHit /\ r.time = S.time
        /\ r.type = S.type
    BY <2>2 DEF Same, Fields
  <2>4. Busy(MsgFrom(turn), S.inputQ[turn]) /\ Finish(S, turn) \in Nat
    BY <1>2, <1>8, LineStarts
  <2>6. Net(r)
    <3>1. r.state \in [Node -> 0 .. 3]
      <4>1. S.state \in [Node -> 0 .. 3] /\ r.state = [S.state EXCEPT ![turn] = 1]
        BY <1>1, <2>2
      <4>2. 1 \in 0 .. 3
        OBVIOUS
      <4> QED BY <4>1, <4>2, Zenon
    <3>2. NewScalars(r, {"rrturn", "sending", "state"})
      BY <1>2, <2>2, <3>1 DEF NewScalars
    <3>3. {"rrturn", "sending", "state"} \cap QueueFields = {}
      BY DEF QueueFields
    <3> QED BY <2>2, <3>2, <3>3, NetAgain
  <2>7. OneSends(r)
    <3>1. \A i \in Node : S.state[i] # 1
      BY <1>8, NodeFacts DEF OneSends
    <3> QED BY <1>1, <1>2, <2>2, <3>1 DEF OneSends
  <2>8. Lines(r)
    <3>1. \A i \in Node \ {turn} : Line(r, i)
      BY <1>1, <2>2, <2>3 DEF Lines, Line, Sends
    <3>2. Line(r, turn)
      BY <1>1, <1>2, <2>2, <2>3, <2>4 DEF Line, Sends
    <3> QED BY <3>1, <3>2 DEF Lines
  <2>9. /\ Net(s) /\ Same(r, s, {"nextHit"}) /\ s.nextHit <= r.nextHit /\ s.nextHit <= Finish(S, turn)
        /\ s.inputQ = r.inputQ /\ s.outputQ = r.outputQ /\ s.sending = r.sending /\ s.time = r.time
        /\ s.type = r.type /\ s.state = r.state /\ Lines(s) /\ OneSends(s)
    <3>1. {Finish(S, turn)} \in SUBSET Nat
      BY <2>4
    <3> QED BY <2>1, <2>6, <2>7, <2>8, <3>1, HitNet
  <2>10. Same(S, s, G)
    BY <2>2, <2>9 DEF Same
  <2>11. \A i \in Node : s.state[i] = 1 => i = turn
    BY <2>2, <2>9 DEF OneSends
  <2>12. Finish(s, turn) = Finish(S, turn)
    BY <2>3, <2>9 DEF Finish, RemXTime, Rate
  <2>13. s.sending # -1
    BY <1>2, <2>2, <2>9, NodeFacts
  <2>14. Carries(NodesOf(S.state), S.time, S.inputQ, s.inputQ, S.outputQ, s.outputQ)
    BY <1>7, <2>3, <2>9
  <2> QED BY <2>3, <2>9, <2>10, <2>11, <2>12, <2>13, <2>14
<1>9. CASE S.sending = -1 /\ S.time >= S.waituntil /\ S.inputQ[turn] = << >>
  <2> DEFINE r == [passed EXCEPT !.waituntil = S.time + TokenTime]
  <2>1. s = Hit(r, {S.time + TokenTime})
    BY <1>1, <1>4, <1>9
  <2>2. /\ Same(S, r, {"rrturn", "waituntil"}) /\ r.rrturn = turn /\ r.waituntil = S.time + TokenTime
    BY <1>1 DEF Same, IsNet, Fields
  <2> HIDE DEF r
  <2>3. /\ r.inputQ = S.inputQ /\ r.outputQ = S.outputQ /\ r.nextHit = S.nextHit /\ r.time = S.time
        /\ r.type = S.type /\ r.state = S.state /\ r.sending = S.sending
    BY <2>2 DEF Same, Fields
  <2>6. Net(r)
    <3>1. {"rrturn", "waituntil"} \cap QueueFields = {}
      BY DEF QueueFields
    <3>2. NewScalars(r, {"rrturn", "waituntil"})
      BY <1>1, <1>2, <1>3, <2>2 DEF NewScalars
    <3> QED BY <2>2, <3>1, <3>2, NetAgain
  <2>7. OneSends(r) /\ Lines(r)
    BY <2>3 DEF OneSends, Lines, Line, Sends
  <2>9. /\ Net(s) /\ Same(r, s, {"nextHit"}) /\ s.nextHit <= r.nextHit /\ s.nextHit <= S.time + TokenTime
        /\ s.inputQ = r.inputQ /\ s.outputQ = r.outputQ /\ s.sending = r.sending /\ s.waituntil = r.waituntil
        /\ s.state = r.state /\ Lines(s) /\ OneSends(s)
    <3>1. {S.time + TokenTime} \in SUBSET Nat
      BY <1>1, <1>3
    <3> QED BY <2>1, <2>6, <2>7, <3>1, HitNet
  <2>10. Same(S, s, G)
    BY <2>2, <2>9 DEF Same
  <2>11. \A i \in Node : s.state[i] # 1
    BY <1>9, <2>3, <2>9, NodeFacts DEF OneSends
  <2> QED BY <1>7, <2>2, <2>3, <2>9, <2>10, <2>11
<1>10. CASE S.sending = -1 /\ S.time < S.waituntil
  <2>1. s = Hit(S, {S.waituntil})
    BY <1>1, <1>4, <1>10
  <2>9. /\ Net(s) /\ Same(S, s, {"nextHit"}) /\ s.nextHit <= S.nextHit /\ s.nextHit <= S.waituntil
        /\ s.inputQ = S.inputQ /\ s.outputQ = S.outputQ /\ s.sending = S.sending /\ s.waituntil = S.waituntil
        /\ s.state = S.state /\ Lines(s) /\ OneSends(s)
    <3>1. {S.waituntil} \in SUBSET Nat
      BY <1>1
    <3> QED BY <2>1, <3>1, HitNet
  <2>10. Same(S, s, G)
    BY <2>9 DEF Same
  <2>11. \A i \in Node : s.state[i] # 1
    BY <1>10, <2>9, NodeFacts DEF OneSends
  <2> QED BY <1>7, <2>9, <2>10, <2>11
<1>11. CASE S.sending # -1 /\ t.sending # -1
  <2>1. s = t
    BY <1>4, <1>11
  <2>2. Same(S, t, G)
    BY <1>6 DEF Same
  <2>3. \A i \in Node : t.state[i] = 1 => i = t.sending
    BY <1>6 DEF OneSends
  <2> QED BY <1>6, <1>11, <2>1, <2>2, <2>3
<1>12. CASE S.sending # -1 /\ t.sending = -1
  <2> DEFINE r == [t EXCEPT !.waituntil = S.time + TokenTime]
  <2>1. s = Hit(r, {S.time + TokenTime})
    BY <1>4, <1>12
  <2>20. IsNet(t)
    BY <1>6 DEF Same
  <2>2. Same(t, r, {"waituntil"}) /\ r.waituntil = S.time + TokenTime
    BY <2>20 DEF Same, IsNet, Fields
  <2> HIDE DEF r
  <2>3. /\ r.inputQ = t.inputQ /\ r.outputQ = t.outputQ /\ r.nextHit = t.nextHit /\ r.time = t.time
        /\ r.type = t.type /\ r.state = t.state /\ r.sending = t.sending
    BY <2>2 DEF Same, Fields
  <2>6. Net(r)
    <3>1. {"waituntil"} \cap QueueFields = {}
      BY DEF QueueFields
    <3>2. NewScalars(r, {"waituntil"})
      BY <1>1, <1>3, <2>2 DEF NewScalars
    <3>3. Net(t)
      BY <1>6
    <3> QED BY <2>2, <3>1, <3>2, <3>3, NetAgain
  <2>7. OneSends(r) /\ Lines(r)
    BY <1>6, <2>3 DEF OneSends, Lines, Line, Sends
  <2>9. /\ Net(s) /\ Same(r, s, {"nextHit"}) /\ s.nextHit <= r.nextHit /\ s.nextHit <= S.time + TokenTime
        /\ s.inputQ = r.inputQ /\ s.outputQ = r.outputQ /\ s.sending = r.sending /\ s.waituntil = r.waituntil
        /\ s.state = r.state /\ Lines(s) /\ OneSends(s)
    <3>1. {S.time + TokenTime} \in SUBSET Nat
      BY <1>1, <1>3
    <3> QED BY <2>1, <2>6, <2>7, <3>1, HitNet
  <2>10. Same(S, s, G)
    BY <1>6, <2>2, <2>9 DEF Same
  <2>11. \A i \in Node : s.state[i] # 1
    <3>1. OneSends(s) /\ s.sending = -1
      BY <1>12, <2>3, <2>9
    <3> QED BY <3>1, NodeFacts DEF OneSends
  <2>12. s.nextHit <= S.nextHit
    <3>1. s.nextHit \in Int /\ t.nextHit \in Int /\ S.nextHit \in Int
      BY <1>6, <2>9, NetFacts
    <3> QED BY <1>6, <2>3, <2>9, <3>1
  <2> QED BY <1>6, <2>2, <2>3, <2>9, <2>10, <2>11, <2>12
<1> QED
  <2>1. S.time >= S.waituntil \/ S.time < S.waituntil
    BY <1>1
  <2> QED BY <1>8, <1>9, <1>10, <1>11, <1>12, <2>1

LEMMA LastNode ==
  ASSUME NEW I \in SUBSET Node, I # {}
  PROVE  \E i \in I : \A j \in I : j <= i
<1> DEFINE T == {NbrOfNodes - i : i \in I}
<1>1. NbrOfNodes \in Nat /\ \A i \in I : i \in Nat /\ i <= NbrOfNodes
  BY NodeFacts DEF Node
<1>2. T \in SUBSET Nat /\ T # {}
  BY <1>1
<1>3. \A i \in I : NbrOfNodes - i \in T
  OBVIOUS
<1>4. \A t \in T : \E i \in I : t = NbrOfNodes - i
  OBVIOUS
<1> HIDE DEF T
<1>5. Min(T) \in T /\ \A t \in T : Min(T) <= t
  BY <1>2, MinInSet
<1>6. PICK i \in I : Min(T) = NbrOfNodes - i
  BY <1>4, <1>5
<1>7. \A j \in I : j <= i
  BY <1>1, <1>3, <1>5, <1>6
<1> QED BY <1>7

LEMMA FirstNode ==
  ASSUME NEW I \in SUBSET Node, I # {}
  PROVE  \E i \in I : \A j \in I : i <= j
<1>1. I \in SUBSET Nat
  BY NodeFacts
<1>2. Min(I) \in I /\ \A j \in I : Min(I) <= j
  BY <1>1, MinInSet
<1> QED BY <1>2

Only(i) == {i}

\* The node that sends is to send its frame from the start.
LEMMA RestoreOne ==
  ASSUME NEW S, Net(S), Lines(S), NEW i \in Node, S.state[i] = 1, NEW s, s = Restore(S, Only(i))
  PROVE  /\ Net(s) /\ Lines(s) /\ Same(S, s, {"inputQ"})
         /\ Idle(MsgFrom(i), s.inputQ[i]) /\ s.inputQ[i] # << >>
         /\ \A j \in Node \ {i} : s.inputQ[j] = S.inputQ[j]
         /\ \A j \in Node : Msgs(s.inputQ[j]) = Msgs(S.inputQ[j])
<1> DEFINE F == Only(i)
<1>1. F \in SUBSET Node /\ s = Restore(S, F)
  BY DEF Only
<1>2. Busy(MsgFrom(i), S.inputQ[i])
  BY DEF Lines, Line, Sends
<1>3. Heads(S, F)
  BY <1>2 DEF Heads, Busy, Only
<1>4. i \in F /\ \A j \in Node \ {i} : j \in Node \ F
  BY DEF Only
<1> HIDE DEF F
<1>5. IsNet(S) /\ Queues(S)
  BY DEF Net
<1>6. /\ Same(S, s, {"inputQ"}) /\ Queues(s)
      /\ \A j \in F : Idle(MsgFrom(j), s.inputQ[j]) /\ s.inputQ[j] # << >>
      /\ \A j \in Node \ F : s.inputQ[j] = S.inputQ[j]
      /\ \A j \in Node : Msgs(s.inputQ[j]) = Msgs(S.inputQ[j])
  <2>1. MayRestore(S, F)
    BY <1>1, <1>3, <1>5 DEF MayRestore
  <2> QED BY <1>1, <2>1, RestoreFacts
<1>7. Idle(MsgFrom(i), s.inputQ[i]) /\ s.inputQ[i] # << >> /\ \A j \in Node \ {i} : s.inputQ[j] = S.inputQ[j]
  BY <1>4, <1>6
<1>8. s.state = S.state /\ s.type = S.type
  BY <1>6 DEF Same, Fields
<1>9. Net(s)
  <2>1. Same(S, s, {"inputQ"}) /\ Queues(s) /\ Scalars(S) /\ IsNet(s)
    BY <1>6 DEF Net, Same
  <2>2. NewScalars(s, {"inputQ"})
    BY DEF NewScalars
  <2>3. Scalars(s)
    BY <2>1, <2>2, ScalarsAgain
  <2> QED BY <2>1, <2>3 DEF Net
<1>10. Busy(MsgFrom(i), s.inputQ[i])
  <2>1. MsgFrom(i) \subseteq NWmsg
    BY MsgFacts
  <2> QED BY <1>7, <2>1, IdleStarts
<1>11. Lines(s)
  <2>1. \A j \in Node \ {i} : Line(s, j)
    BY <1>7, <1>8 DEF Lines, Line, Sends
  <2>2. Line(s, i)
    BY <1>8, <1>10 DEF Line, Sends
  <2> QED BY <2>1, <2>2 DEF Lines
<1> QED BY <1>6, <1>7, <1>9, <1>11

LEMMA ArbitrateFacts ==
  ASSUME NEW S, Net(S), Lines(S), OneSends(S), S.type = "CSMAAMP", NEW s, s = Arbitrate(S)
  PROVE  /\ Net(s) /\ Lines(s) /\ OneSends(s)
         /\ Same(S, s, {"inputQ", "state", "sending", "nextHit", "lasttime"})
         /\ s.nextHit <= S.nextHit
         /\ \A i \in Node : Msgs(s.inputQ[i]) = Msgs(S.inputQ[i])
         /\ s.sending # -1 => s.nextHit <= Finish(s, s.sending) \/ s = S
         /\ \A i \in Node : s.state[i] = 0 /\ s.inputQ[i] # << >> => s.sending # -1
<1> DEFINE R == Ready(S)
           old == S.sending
           lost == old # -1 /\ \E i \in R : HeadPrio(S, i) <= HeadPrio(S, old)
           lead == {i \in R : /\ \A j \in R : j < i => HeadPrio(S, i) <= HeadPrio(S, j)
                              /\ old # -1 => HeadPrio(S, i) <= HeadPrio(S, old)}
           best == CHOOSE i \in lead : \A j \in lead : j <= i
           back == lost /\ old > best /\ HeadPrio(S, old) = HeadPrio(S, best)
           winner == IF lead = {} THEN old ELSE IF back THEN old ELSE best
           s0 == IF lost THEN Restore(S, {old}) ELSE S
           r == [s0 EXCEPT !.lasttime = IF old = -1 THEN S.time ELSE @,
                           !.state = [i \in Node |-> IF i = winner THEN 1 ELSE 0],
                           !.sending = winner]
           times == {Finish(s0, i) : i \in lead \cup ({winner} \ {-1})}
<1>1. s = IF ~AppearsIdle(S) \/ R = {} THEN S ELSE Hit(r, times)
  BY DEF Arbitrate
<1>2. /\ IsNet(S) /\ S.time \in Nat /\ S.nextHit \in Nat /\ S.state \in [Node -> 0 .. 3]
      /\ old \in Node \cup {-1} /\ S.lasttime \in Int
  BY NetFacts
<1>3. R \in SUBSET Node /\ \A i \in R : S.state[i] = 0 /\ S.inputQ[i] # << >>
  BY DEF Ready
<1>4. CASE ~AppearsIdle(S) \/ R = {}
  <2>1. s = S
    BY <1>1, <1>4
  <2>2. ASSUME NEW i \in Node, S.state[i] = 0, S.inputQ[i] # << >> PROVE S.sending # -1
    <3>1. i \in R
      BY <2>2 DEF Ready
    <3> QED BY <1>4, <3>1 DEF AppearsIdle
  <2>3. Same(S, S, {"inputQ", "state", "sending", "nextHit", "lasttime"})
    BY <1>2 DEF Same
  <2> QED BY <1>2, <2>1, <2>2, <2>3
<1>5. CASE ~ (~AppearsIdle(S) \/ R = {})
  <2>1. s = Hit(r, times) /\ R # {}
    BY <1>1, <1>5
  <2>2. old = -1 => lead # {}
    <3> SUFFICES ASSUME old = -1 PROVE lead # {}
      OBVIOUS
    <3> HIDE DEF R
    <3>1. PICK i \in R : \A j \in R : i <= j
      BY <1>3, <2>1, FirstNode
    <3>2. \A j \in R : ~ (j < i)
      BY <1>3, <3>1, NodeFacts
    <3>3. i \in lead
      BY <3>2
    <3> QED BY <3>3
  <2>3. lead \in SUBSET R
    OBVIOUS
  <2>4. lead # {} => best \in lead
    <3> HIDE DEF lead
    <3>1. lead # {} => \E i \in lead : \A j \in lead : j <= i
      BY <1>3, <2>3, LastNode
    <3> QED BY <3>1
  <2>5. \A i \in lead : old # -1 => lost
    BY <2>3
  <2>6. lost => old # -1
    OBVIOUS
  <2>7. winner = old \/ (winner = best /\ lead # {})
    OBVIOUS
  <2>8. winner \in Node /\ (winner # old => winner \in R /\ (old # -1 => lost))
    <3>1. winner = old => old # -1
      <4> SUFFICES ASSUME winner = old, old = -1 PROVE FALSE
        OBVIOUS
      <4>1. lead # {} /\ ~ back /\ best \in Node /\ winner = best
        BY <1>3, <2>2, <2>3, <2>4
      <4> QED BY <4>1, NodeFacts
    <3>2. winner # old => winner \in lead
      BY <2>4, <2>7
    <3> HIDE DEF lead, winner, best, lost
    <3> QED BY <1>2, <1>3, <2>3, <2>5, <3>1, <3>2
  <2>9. s0 = IF lost THEN Restore(S, {old}) ELSE S
    OBVIOUS
  <2> HIDE DEF winner, lost, lead, best, R, s0
  <2>10. old # -1 => old \in Node /\ S.state[old] = 1
    BY <1>2 DEF OneSends
  <2>11. /\ Net(s0) /\ Lines(s0) /\ Same(S, s0, {"inputQ"})
         /\ lost => Idle(MsgFrom(old), s0.inputQ[old])
         /\ \A j \in Node \ {old} : s0.inputQ[j] = S.inputQ[j]
         /\ \A j \in Node : Msgs(s0.inputQ[j]) = Msgs(S.inputQ[j])
    <3>1. CASE lost
      <4> DEFINE o == old
      <4>1. s0 = Restore(S, {old}) /\ old \in Node /\ S.state[old] = 1
        BY <2>6, <2>9, <2>10, <3>1
      <4>2. s0 = Restore(S, Only(o)) /\ o \in Node /\ S.state[o] = 1
        BY <4>1 DEF Only
      <4>3. o = old
        OBVIOUS
      <4> HIDE DEF o
      <4>4. /\ Net(s0) /\ Lines(s0) /\ Same(S, s0, {"inputQ"})
            /\ Idle(MsgFrom(o), s0.inputQ[o])
            /\ \A j \in Node \ {o} : s0.inputQ[j] = S.inputQ[j]
            /\ \A j \in Node : Msgs(s0.inputQ[j]) = Msgs(S.inputQ[j])
        BY <4>2, RestoreOne
      <4> QED BY <4>3, <4>4
    <3>2. CASE ~ lost
      BY <1>2, <2>9, <3>2 DEF Same
    <3> QED BY <3>1, <3>2
  <2>12. /\ s0.state = S.state /\ s0.sending = old /\ s0.type = S.type /\ s0.time = S.time
         /\ s0.nextHit = S.nextHit /\ IsNet(s0)
    BY <2>11 DEF Same, Fields
  <2>13. \A i \in R \cup {winner} : s0.inputQ[i] # << >>
    <3>1. \A i \in R : s0.inputQ[i] # << >>
      <4>1. \A i \in R : i # old
        BY <1>3, <2>10, NodeFacts
      <4> QED BY <1>3, <2>11, <4>1
    <3>2. winner = old => s0.inputQ[old] # << >>
      <4> SUFFICES ASSUME winner = old PROVE s0.inputQ[old] # << >>
        OBVIOUS
      <4>1. Line(s0, old) /\ Sends(s0, old)
        BY <2>8, <2>10, <2>11, <2>12, NodeFacts DEF Lines, Sends
      <4> QED BY <4>1 DEF Line, Busy
    <3> QED BY <2>8, <3>1, <3>2
  <2>14. times \in SUBSET Nat /\ Finish(s0, winner) \in times
    <3>1. \A i \in lead \cup {winner} : i \in Node /\ s0.inputQ[i] # << >>
      BY <1>3, <2>3, <2>8, <2>13
    <3>2. Net(s0) /\ Lines(s0)
      BY <2>11
    <3>3. \A i \in lead \cup {winner} : Finish(s0, i) \in Nat
      BY <3>1, <3>2, LineStarts
    <3>4. winner # -1
      BY <2>8, NodeFacts
    <3> QED BY <3>3, <3>4
  <2>15. /\ Same(s0, r, {"lasttime", "state", "sending"}) /\ r.sending = winner
         /\ r.state = [i \in Node |-> IF i = winner THEN 1 ELSE 0]
         /\ r.lasttime = IF old = -1 THEN S.time ELSE s0.lasttime
    BY <2>12 DEF Same, IsNet, Fields
  <2>17. s0.lasttime \in Int
    BY <2>11, NetFacts
  <2> HIDE DEF times, r
  <2>16. /\ r.inputQ = s0.inputQ /\ r.type = S.type /\ r.time = S.time /\ r.nextHit = S.nextHit
    BY <2>12, <2>15 DEF Same, Fields
  <2>18. Net(r)
    <3>1. r.state \in [Node -> 0 .. 3]
      BY <2>15
    <3>2. NewScalars(r, {"lasttime", "state", "sending"})
      BY <1>2, <2>8, <2>15, <2>17, <3>1 DEF NewScalars
    <3>3. {"lasttime", "state", "sending"} \cap QueueFields = {}
      BY DEF QueueFields
    <3>4. Net(s0)
      BY <2>11
    <3> QED BY <2>15, <3>2, <3>3, <3>4, NetAgain
  <2>19. OneSends(r)
    BY <2>8, <2>15 DEF OneSends
  <2>20. Lines(r)
    <3>1. ASSUME NEW j \in Node, j # winner PROVE Line(r, j)
      <4>1. Idle(MsgFrom(j), s0.inputQ[j])
        <5>1. CASE j = old
          <6>1. winner # old /\ old # -1
            BY <3>1, <5>1, NodeFacts
          <6> QED BY <2>8, <2>11, <5>1, <6>1
        <5>2. CASE j # old
          <6>1. S.state[j] # 1
            BY <5>2 DEF OneSends
          <6>2. Idle(MsgFrom(j), S.inputQ[j])
            BY <6>1 DEF Lines, Line, Sends
          <6> QED BY <2>11, <5>2, <6>2
        <5> QED BY <5>1, <5>2
      <4>2. ~ Sends(r, j)
        BY <2>15, <2>16, <3>1 DEF Sends
      <4> QED BY <2>16, <4>1, <4>2 DEF Line
    <3>2. Line(r, winner)
      <4>1. Busy(MsgFrom(winner), s0.inputQ[winner])
        <5>1. Net(s0) /\ Lines(s0) /\ winner \in Node /\ s0.inputQ[winner] # << >>
          BY <2>8, <2>11, <2>13
        <5> QED BY <5>1, LineStarts
      <4>2. Sends(r, winner)
        BY <2>8, <2>15 DEF Sends
      <4> QED BY <2>16, <4>1, <4>2 DEF Line
    <3> QED BY <3>1, <3>2 DEF Lines
  <2>21. /\ Net(s) /\ Same(r, s, {"nextHit"}) /\ s.nextHit <= r.nextHit /\ s.nextHit <= Finish(s0, winner)
         /\ s.inputQ = r.inputQ /\ s.sending = r.sending /\ s.time = r.time /\ s.type = r.type
         /\ Lines(s) /\ OneSends(s)
    <3>1. times \in SUBSET Nat
      BY <2>14
    <3>2. /\ Net(s) /\ Same(r, s, {"nextHit"}) /\ s.nextHit <= r.nextHit
          /\ \A t \in times : s.nextHit <= t
          /\ s.inputQ = r.inputQ /\ s.sending = r.sending /\ s.time = r.time /\ s.type = r.type
          /\ Lines(s) /\ OneSends(s)
      BY <2>1, <2>18, <2>19, <2>20, <3>1, HitNet
    <3> QED BY <2>14, <3>2
  <2>22. Finish(s, winner) = Finish(s0, winner)
    BY <2>12, <2>16, <2>21 DEF Finish, RemXTime, Rate
  <2>23. Same(S, s, {"inputQ", "state", "sending", "nextHit", "lasttime"})
    BY <2>11, <2>15, <2>21 DEF Same
  <2>24. \A i \in Node : Msgs(s.inputQ[i]) = Msgs(S.inputQ[i])
    BY <2>11, <2>16, <2>21
  <2>25. s.sending = winner /\ winner # -1
    BY <2>8, <2>15, <2>21, NodeFacts
  <2> QED BY <2>16, <2>21, <2>22, <2>23, <2>24, <2>25
<1> QED BY <1>4, <1>5

LEMMA CSMAAMPFacts ==
  ASSUME NEW S, Net(S), Lines(S), OneSends(S), S.type = "CSMAAMP", NEW e \in Nat, NEW s, s = CSMAAMP(S, e)
  PROVE  /\ Net(s) /\ Lines(s) /\ OneSends(s)
         /\ Same(S, s, {"inputQ", "outputQ", "state", "sending", "nextHit", "lasttime"})
         /\ s.nextHit <= S.nextHit
         /\ Carries(NodesOf(S.state), S.time, S.inputQ, s.inputQ, S.outputQ, s.outputQ)
         /\ \A i \in Node : s.state[i] = 1 => s.nextHit <= Finish(s, i)
         /\ \A i \in Node : s.state[i] = 0 /\ s.inputQ[i] # << >> => s.sending # -1
<1> DEFINE t == Transmit(S, e)
<1>1. s = Arbitrate(t) /\ t = Transmit(S, e)
  BY DEF CSMAAMP
<1> HIDE DEF t
<1>2. /\ Net(t) /\ Lines(t) /\ OneSends(t)
      /\ Same(S, t, {"inputQ", "outputQ", "state", "sending", "nextHit"})
      /\ t.nextHit <= S.nextHit
      /\ Carries(NodesOf(S.state), S.time, S.inputQ, t.inputQ, S.outputQ, t.outputQ)
      /\ t.sending # -1 => t.nextHit <= Finish(t, t.sending)
  BY <1>1, TransmitFacts
<1>3. t.type = "CSMAAMP" /\ t.time = S.time
  BY <1>2 DEF Same, Fields
<1>4. /\ Net(s) /\ Lines(s) /\ OneSends(s)
      /\ Same(t, s, {"inputQ", "state", "sending", "nextHit", "lasttime"})
      /\ s.nextHit <= t.nextHit
      /\ \A i \in Node : Msgs(s.inputQ[i]) = Msgs(t.inputQ[i])
      /\ s.sending # -1 => s.nextHit <= Finish(s, s.sending) \/ s = t
      /\ \A i \in Node : s.state[i] = 0 /\ s.inputQ[i] # << >> => s.sending # -1
  <2>1. Net(t) /\ Lines(t) /\ OneSends(t)
    BY <1>2
  <2> QED BY <1>1, <1>3, <2>1, ArbitrateFacts
<1>5. s.outputQ = t.outputQ
  BY <1>4 DEF Same, Fields
<1>6. Carries(NodesOf(S.state), S.time, S.inputQ, s.inputQ, S.outputQ, s.outputQ)
  BY <1>2, <1>4, <1>5, CarriesOn, NodesOfFacts
<1>7. Same(S, s, {"inputQ", "outputQ", "state", "sending", "nextHit", "lasttime"})
  BY <1>2, <1>4 DEF Same
<1>8. s.nextHit <= S.nextHit
  <2>1. s.nextHit \in Nat /\ t.nextHit \in Nat /\ S.nextHit \in Nat
    BY <1>2, <1>4, NetFacts
  <2> QED BY <1>2, <1>4, <2>1
<1>9. ASSUME NEW i \in Node, s.state[i] = 1 PROVE s.nextHit <= Finish(s, i)
  <2>1. s.sending = i /\ s.sending # -1
    BY <1>4, <1>9, NodeFacts DEF OneSends
  <2> QED BY <1>2, <1>4, <2>1
<1> QED BY <1>4, <1>6, <1>7, <1>8, <1>9

\* The first node that is ready starts.
LEMMA StartFirst ==
  ASSUME NEW S, Net(S), Lines(S), OneSends(S), S.type = "CSMACD", S.sending = -1,
         NEW i \in Ready(S), NEW s, s = Start(S, i)
  PROVE  /\ Net(s) /\ Lines(s) /\ OneSends(s) /\ Same(S, s, {"state", "sending", "nextHit", "lasttime"})
         /\ s.nextHit <= S.nextHit /\ s.nextHit <= Finish(s, i)
         /\ s.sending = i /\ s.inputQ = S.inputQ /\ i \in Node
         /\ s.state = [S.state EXCEPT ![i] = 1]
<1> DEFINE r == [S EXCEPT !.lasttime = S.time, !.state[i] = 1, !.sending = i]
           times == {Finish(S, i)}
<1>1. s = Hit(r, times)
  BY DEF Start
<1>2. /\ IsNet(S) /\ S.time \in Nat /\ S.nextHit \in Nat /\ S.state \in [Node -> 0 .. 3]
  BY NetFacts
<1>3. i \in Node /\ S.inputQ[i] # << >> /\ S.state[i] = 0
  BY DEF Ready
<1>4. Same(S, r, {"state", "sending", "lasttime"}) /\ r.sending = i /\ r.state = [S.state EXCEPT ![i] = 1]
      /\ r.lasttime = S.time
  BY <1>2 DEF Same, IsNet, Fields
<1>5. Busy(MsgFrom(i), S.inputQ[i]) /\ Finish(S, i) \in Nat
  BY <1>3, LineStarts
<1>6. times \in SUBSET Nat /\ Finish(S, i) \in times
  BY <1>5
<1> HIDE DEF r, times
<1>7. /\ r.inputQ = S.inputQ /\ r.type = S.type /\ r.time = S.time /\ r.nextHit = S.nextHit
  BY <1>4 DEF Same, Fields
<1>8. Net(r)
  <2>1. 1 \in 0 .. 3
    OBVIOUS
  <2>2. r.state \in [Node -> 0 .. 3]
    BY <1>2, <1>4, <2>1, Zenon
  <2>3. NewScalars(r, {"state", "sending", "lasttime"})
    BY <1>2, <1>3, <1>4, <2>2 DEF NewScalars
  <2>4. {"state", "sending", "lasttime"} \cap QueueFields = {}
    BY DEF QueueFields
  <2> QED BY <1>4, <2>3, <2>4, NetAgain
<1>9. OneSends(r)
  <2>1. \A j \in Node : S.state[j] # 1
    BY NodeFacts DEF OneSends
  <2>2. \A j \in Node : r.state[j] = IF j = i THEN 1 ELSE S.state[j]
    BY <1>2, <1>4
  <2> QED BY <1>3, <1>4, <2>1, <2>2 DEF OneSends
<1>10. Lines(r)
  <2>1. \A j \in Node \ {i} : Line(r, j)
    BY <1>2, <1>4, <1>7 DEF Lines, Line, Sends
  <2>2. r.state[i] = 1
    BY <1>2, <1>3, <1>4
  <2>3. Line(r, i)
    BY <1>5, <1>7, <2>2 DEF Line, Sends
  <2> QED BY <2>1, <2>3 DEF Lines
<1>11. /\ Net(s) /\ Same(r, s, {"nextHit"}) /\ s.nextHit <= r.nextHit
       /\ \A t \in times : s.nextHit <= t
       /\ s.inputQ = r.inputQ /\ s.sending = r.sending /\ s.time = r.time /\ s.type = r.type
       /\ s.state = r.state /\ Lines(s) /\ OneSends(s)
  BY <1>1, <1>6, <1>8, <1>9, <1>10, HitNet
<1>12. Finish(s, i) = Finish(S, i)
  BY <1>7, <1>11 DEF Finish, RemXTime, Rate
<1>13. Same(S, s, {"state", "sending", "nextHit", "lasttime"})
  BY <1>4, <1>11 DEF Same
<1> QED BY <1>3, <1>4, <1>6, <1>7, <1>11, <1>12, <1>13

\* Backed off: until then the block is called again.
Waiting(S) == \A i \in Node : S.state[i] = 3 => S.nextHit <= S.until[i]
Apart(S)   == \A i \in Node : S.state[i] # 2

LEMMA EndBackoffFacts ==
  ASSUME NEW S, Net(S), Lines(S), OneSends(S), S.type = "CSMACD", Apart(S), NEW s, s = EndBackoff(S)
  PROVE  /\ Net(s) /\ Lines(s) /\ OneSends(s) /\ Apart(s) /\ Waiting(s)
         /\ Same(S, s, {"state", "nextHit"})
         /\ s.nextHit <= S.nextHit /\ s.inputQ = S.inputQ /\ s.sending = S.sending
<1> DEFINE ends == {i \in Node : S.state[i] = 3 /\ S.until[i] <= S.time}
           waits == {i \in Node : S.state[i] = 3 /\ S.until[i] > S.time}
           r == [S EXCEPT !.state = [i \in Node |-> IF i \in ends THEN 0 ELSE @[i]]]
           times == {S.until[i] : i \in waits}
<1>1. s = Hit(r, times)
  BY DEF EndBackoff
<1>2. /\ IsNet(S) /\ S.time \in Nat /\ S.nextHit \in Nat /\ S.state \in [Node -> 0 .. 3]
      /\ S.until \in [Node -> Nat]
  BY NetFacts DEF Scalars
<1>3. Same(S, r, {"state"}) /\ r.state = [i \in Node |-> IF i \in ends THEN 0 ELSE S.state[i]]
  BY <1>2 DEF Same, IsNet, Fields
<1>6. times \in SUBSET Nat /\ \A i \in waits : S.until[i] \in times
  BY <1>2
<1>14. \A i \in Node : S.state[i] = 3 => i \in ends \/ i \in waits
  BY <1>2
<1>15. \A i \in ends : S.state[i] = 3
  OBVIOUS
<1> HIDE DEF r, times, ends, waits
<1>7. /\ r.inputQ = S.inputQ /\ r.type = S.type /\ r.time = S.time /\ r.nextHit = S.nextHit
      /\ r.sending = S.sending /\ r.until = S.until
  BY <1>3 DEF Same, Fields
<1>8. Net(r)
  <2>2. r.state \in [Node -> 0 .. 3]
    BY <1>2, <1>3
  <2>3. NewScalars(r, {"state"})
    BY <2>2 DEF NewScalars
  <2>4. {"state"} \cap QueueFields = {}
    BY DEF QueueFields
  <2> QED BY <1>3, <2>3, <2>4, NetAgain
<1>9. OneSends(r)
  BY <1>2, <1>3, <1>7, <1>15 DEF OneSends
<1>10. Lines(r)
  BY <1>2, <1>3, <1>7, <1>15 DEF Lines, Line, Sends
<1>11. /\ Net(s) /\ Same(r, s, {"nextHit"}) /\ s.nextHit <= r.nextHit
       /\ \A t \in times : s.nextHit <= t
       /\ s.inputQ = r.inputQ /\ s.sending = r.sending /\ s.until = r.until
       /\ s.state = r.state /\ Lines(s) /\ OneSends(s)
  BY <1>1, <1>6, <1>8, <1>9, <1>10, HitNet
<1>12. Waiting(s)
  <2>1. \A i \in Node : s.state[i] = 3 => i \in waits
    BY <1>3, <1>11, <1>14
  <2> QED BY <1>6, <1>7, <1>11, <2>1 DEF Waiting
<1>13. Same(S, s, {"state", "nextHit"})
  BY <1>3, <1>11 DEF Same
<1>16. Apart(s)
  BY <1>3, <1>11 DEF Apart
<1> QED BY <1>7, <1>11, <1>12, <1>13, <1>16

\* What Collide leaves behind: nobody has collided, or nobody sends.
Collided(S) ==
  /\ \A i \in Node : S.state[i] # 1
  /\ \A i \in Node : S.state[i] = 0 => S.inputQ[i] = << >>
  /\ \E i \in Node : S.state[i] = 2

LEMMA CollideFacts ==
  ASSUME NEW S, Net(S), Lines(S), OneSends(S), S.type = "CSMACD", Apart(S), Waiting(S),
         S.sending # -1 => S.nextHit <= Finish(S, S.sending),
         NEW s, s = Collide(S)
  PROVE  /\ Net(s) /\ Lines(s) /\ Waiting(s)
         /\ Same(S, s, {"state", "sending", "inputQ", "nextHit", "lasttime"})
         /\ s.nextHit <= S.nextHit
         /\ \A i \in Node : Msgs(s.inputQ[i]) = Msgs(S.inputQ[i])
         /\ \/ Collided(s)
            \/ /\ OneSends(s) /\ Apart(s)
               /\ s.sending # -1 => s.nextHit <= Finish(s, s.sending)
               /\ \A i \in Node : s.state[i] = 0 /\ s.inputQ[i] # << >> => s.sending # -1
<1> DEFINE s1 == IF S.sending = -1 /\ Ready(S) # {} THEN Start(S, LowestNode(Ready(S))) ELSE S
           late == Ready(s1)
           G == {"state", "sending", "inputQ", "nextHit", "lasttime"}
           r == [s1 EXCEPT !.state = [i \in Node |-> IF i \in late \cup {s1.sending} THEN 2 ELSE @[i]]]
<1>1. s = IF ~AppearsIdle(S) \/ late = {} THEN s1 ELSE Restore(r, Only(s1.sending))
  BY DEF Collide, Only
<1>2. /\ IsNet(S) /\ S.nextHit \in Nat /\ S.state \in [Node -> 0 .. 3]
  BY NetFacts
<1>19. Same(S, S, G)
  BY <1>2 DEF Same
<1>3. /\ Net(s1) /\ Lines(s1) /\ OneSends(s1) /\ Same(S, s1, G) /\ s1.nextHit <= S.nextHit
      /\ s1.inputQ = S.inputQ
      /\ s1.sending # -1 => s1.nextHit <= Finish(s1, s1.sending)
      /\ Apart(s1) /\ Waiting(s1)
      /\ S.sending = -1 /\ Ready(S) # {} => s1.sending # -1
      /\ ~ (S.sending = -1 /\ Ready(S) # {}) => s1 = S
  <2>1. CASE S.sending = -1 /\ Ready(S) # {}
    <3> DEFINE i == LowestNode(Ready(S))
    <3>1. Ready(S) \in SUBSET Node
      BY DEF Ready
    <3>2. i \in Ready(S)
      <4>1. \E j \in Ready(S) : \A k \in Ready(S) : j <= k
        BY <2>1, <3>1, FirstNode
      <4> QED BY <4>1 DEF LowestNode
    <3>3. s1 = Start(S, i)
      BY <2>1
    <3> HIDE DEF s1, i
    <3>4. /\ Net(s1) /\ Lines(s1) /\ OneSends(s1)
          /\ Same(S, s1, {"state", "sending", "nextHit", "lasttime"})
          /\ s1.nextHit <= S.nextHit /\ s1.nextHit <= Finish(s1, i)
          /\ s1.sending = i /\ s1.inputQ = S.inputQ /\ i \in Node
          /\ s1.state = [S.state EXCEPT ![i] = 1]
      BY <2>1, <3>2, <3>3, StartFirst
    <3>5. Same(S, s1, G)
      BY <3>4 DEF Same
    <3>6. s1.until = S.until
      BY <3>4 DEF Same, Fields
    <3>7. \A j \in Node : s1.state[j] = IF j = i THEN 1 ELSE S.state[j]
      BY <1>2, <3>4
    <3>8. S.until \in [Node -> Nat] /\ s1.nextHit \in Nat
      BY <3>4, NetFacts DEF Scalars
    <3>9. Apart(s1) /\ Waiting(s1)
      BY <1>2, <3>4, <3>6, <3>7, <3>8 DEF Apart, Waiting
    <3>10. i # -1
      BY <3>4, NodeFacts
    <3> QED BY <2>1, <3>4, <3>5, <3>9, <3>10
  <2>2. CASE ~ (S.sending = -1 /\ Ready(S) # {})
    <3>1. s1 = S
      BY <2>2
    <3> HIDE DEF s1, G
    <3> QED BY <1>2, <1>19, <2>2, <3>1
  <2> QED BY <2>1, <2>2
<1>4. late = Ready(s1)
  OBVIOUS
<1>5. r = [s1 EXCEPT !.state = [i \in Node |-> IF i \in late \cup {s1.sending} THEN 2 ELSE @[i]]]
  OBVIOUS
<1> HIDE DEF s1, late, r
<1>6. CASE ~AppearsIdle(S) \/ late = {}
  <2>1. s = s1
    BY <1>1, <1>6
  <2>2. ASSUME NEW i \in Node, s1.state[i] = 0, s1.inputQ[i] # << >> PROVE s1.sending # -1
    <3>1. i \in late
      BY <1>4, <2>2 DEF Ready
    <3>2. S.sending # -1 /\ s1 = S
      BY <1>3, <1>6, <3>1 DEF AppearsIdle
    <3> QED BY <3>2
  <2>3. \A i \in Node : Msgs(s1.inputQ[i]) = Msgs(S.inputQ[i])
    BY <1>3
  <2> QED BY <1>3, <2>1, <2>2, <2>3
<1>7. CASE ~ (~AppearsIdle(S) \/ late = {})
  <2> DEFINE o == s1.sending
  <2>1. s = Restore(r, Only(o)) /\ late # {}
    BY <1>1, <1>7
  <2>2. /\ IsNet(s1) /\ s1.state \in [Node -> 0 .. 3] /\ o \in Node \cup {-1} /\ s1.nextHit \in Nat
        /\ s1.inputQ \in [Node -> Seq(NWmsg)]
    BY <1>3, NetFacts
  <2>3. late \in SUBSET Node /\ \A i \in late : s1.state[i] = 0 /\ s1.inputQ[i] # << >>
    BY <1>4 DEF Ready
  <2>4. o \in Node
    <3>1. o # -1
      <4> SUFFICES ASSUME o = -1 PROVE FALSE
        OBVIOUS
      <4>1. s1 = S /\ Ready(S) = {}
        BY <1>3
      <4> QED BY <1>4, <2>1, <4>1
    <3> QED BY <2>2, <3>1
  <2>5. s1.state[o] = 1 /\ Busy(MsgFrom(o), s1.inputQ[o])
    BY <1>3, <2>4 DEF OneSends, Lines, Line, Sends
  <2>6. Same(s1, r, {"state"}) /\ r.state = [i \in Node |-> IF i \in late \cup {o} THEN 2 ELSE s1.state[i]]
    BY <1>5, <2>2 DEF Same, IsNet, Fields
  <2>7. r.inputQ = s1.inputQ /\ r.type = s1.type
    BY <2>6 DEF Same, Fields
  <2>8. Net(r)
    <3>1. r.state \in [Node -> 0 .. 3]
      <4>1. \A i \in Node : r.state[i] \in 0 .. 3
        BY <2>2, <2>6
      <4>2. r.state = [i \in Node |-> r.state[i]]
        BY <2>6
      <4> QED BY <4>1, <4>2
    <3>2. NewScalars(r, {"state"})
      BY <3>1 DEF NewScalars
    <3>3. {"state"} \cap QueueFields = {}
      BY DEF QueueFields
    <3>4. Net(s1)
      BY <1>3
    <3> QED BY <2>6, <3>2, <3>3, <3>4, NetAgain
  <2>9. MayRestore(r, Only(o))
    <3>1. IsNet(r) /\ Queues(r)
      BY <2>8 DEF Net
    <3>2. Only(o) \in SUBSET Node /\ Heads(r, Only(o))
      BY <2>4, <2>5, <2>7 DEF Heads, Busy, Only
    <3> QED BY <3>1, <3>2 DEF MayRestore
  <2>10. /\ Same(r, s, {"inputQ"}) /\ Queues(s)
         /\ \A i \in Only(o) : Idle(MsgFrom(i), s.inputQ[i])
         /\ \A i \in Node \ Only(o) : s.inputQ[i] = r.inputQ[i]
         /\ \A i \in Node : Msgs(s.inputQ[i]) = Msgs(r.inputQ[i])
    BY <2>1, <2>9, RestoreFacts
  <2>11. Idle(MsgFrom(o), s.inputQ[o]) /\ \A i \in Node \ {o} : s.inputQ[i] = s1.inputQ[i]
    BY <2>7, <2>10 DEF Only
  <2>12. Net(s)
    <3>1. IsNet(s)
      BY <2>10 DEF Same
    <3>2. NewScalars(s, {"inputQ"})
      BY DEF NewScalars
    <3>3. Scalars(s)
      BY <2>8, <2>10, <3>2, ScalarsAgain DEF Net
    <3> QED BY <2>10, <3>1, <3>3 DEF Net
  <2>13. /\ s.state = r.state /\ s.type = "CSMACD" /\ s.nextHit = s1.nextHit /\ s.until = s1.until
    <3>1. s.state = r.state /\ s.type = r.type /\ s.nextHit = r.nextHit /\ s.until = r.until
      BY <2>10 DEF Same, Fields
    <3>2. r.nextHit = s1.nextHit /\ r.until = s1.until /\ s1.type = S.type
      BY <1>3, <2>6 DEF Same, Fields
    <3> QED BY <2>7, <3>1, <3>2
  <2>14. \A i \in Node : s.state[i] = IF i \in late \cup {o} THEN 2 ELSE s1.state[i]
    BY <2>6, <2>13
  <2>15. \A i \in Node : s.state[i] # 1
    BY <1>3, <2>14 DEF OneSends
  <2>16. Lines(s)
    <3>1. ASSUME NEW i \in Node PROVE Idle(MsgFrom(i), s.inputQ[i])
      <4>1. CASE i = o
        BY <2>11, <4>1
      <4>2. CASE i # o
        <5>1. s1.state[i] # 1 /\ s1.type = "CSMACD"
          BY <1>3, <2>7, <4>2 DEF OneSends, Same, Fields
        <5>2. Idle(MsgFrom(i), s1.inputQ[i])
          BY <1>3, <5>1 DEF Lines, Line, Sends
        <5> QED BY <2>11, <4>2, <5>2
      <4> QED BY <4>1, <4>2
    <3> QED BY <2>13, <2>15, <3>1 DEF Lines, Line, Sends
  <2>17. Waiting(s)
    BY <1>3, <2>13, <2>14 DEF Waiting
  <2>18. Collided(s)
    <3>1. \E i \in Node : s.state[i] = 2
      BY <2>4, <2>14
    <3>2. ASSUME NEW i \in Node, s.state[i] = 0 PROVE s.inputQ[i] = << >>
      <4>1. i \notin late /\ i # o /\ s1.state[i] = 0
        BY <2>14, <3>2
      <4>2. s1.inputQ[i] = << >>
        BY <1>4, <4>1 DEF Ready
      <4> QED BY <2>11, <4>1, <4>2
    <3> QED BY <2>15, <3>1, <3>2 DEF Collided
  <2>19. Same(S, s, G)
    BY <1>3, <2>6, <2>10 DEF Same
  <2>20. \A i \in Node : Msgs(s.inputQ[i]) = Msgs(S.inputQ[i])
    BY <1>3, <2>7, <2>10
  <2>21. s.nextHit <= S.nextHit
    BY <1>3, <2>13
  <2> QED BY <2>12, <2>16, <2>17, <2>18, <2>19, <2>20, <2>21
<1> QED BY <1>6, <1>7

LEMMA BackoffFacts ==
  ASSUME NEW S, Net(S), Lines(S), S.type = "CSMACD", Waiting(S),
         Collided(S) \/ (OneSends(S) /\ Apart(S)),
         NEW draw \in Draws(S), NEW s, s = Backoff(S, draw)
  PROVE  /\ Net(s) /\ Lines(s) /\ OneSends(s) /\ Apart(s) /\ Waiting(s)
         /\ Same(S, s, {"sending", "state", "collisions", "until", "nextHit"})
         /\ s.nextHit <= S.nextHit /\ s.inputQ = S.inputQ
         /\ Collided(S) => s.sending = -1 /\ \A i \in Node : s.state[i] = 0 => s.inputQ[i] = << >>
         /\ ~ Collided(S) => s = S
<1> DEFINE C == Colliding(S)
           wait(i) == IF draw[i] * (Minsize \div Datarate) > SendWindow
                      THEN draw[i] * (Minsize \div Datarate) ELSE SendWindow
           st == [i \in Node |-> IF i \in C THEN 3 ELSE S.state[i]]
           co == [i \in Node |-> IF i \in C THEN Collisions(S, i) ELSE S.collisions[i]]
           un == [i \in Node |-> IF i \in C THEN S.time + wait(i) ELSE S.until[i]]
           r == [S EXCEPT !.sending = -1, !.state = st, !.collisions = co, !.until = un]
           times == {S.time + wait(i) : i \in C}
<1>1. s = IF C = {} THEN S ELSE Hit(r, times)
  BY DEF Backoff
<1>2. /\ IsNet(S) /\ S.time \in Nat /\ S.nextHit \in Nat /\ S.state \in [Node -> 0 .. 3]
      /\ S.until \in [Node -> Nat] /\ S.collisions \in [Node -> 0 .. 10]
  BY NetFacts DEF Scalars
<1>3. C \in SUBSET Node /\ \A i \in Node : i \in C <=> S.state[i] = 2
  BY DEF Colliding
<1>4. \A i \in C : wait(i) \in Nat
  <2> TAKE i \in C
  <2>1. draw[i] \in Nat
    BY WindowAssumption DEF Draws
  <2>2. TokenTime \in Nat
    BY TokenTimeFacts
  <2>3. SendWindow \in Nat
    BY WindowAssumption DEF SendWindow
  <2>4. wait(i) = IF draw[i] * TokenTime > SendWindow THEN draw[i] * TokenTime ELSE SendWindow
    BY DEF TokenTime
  <2>5. \A n, k \in Nat : n * k \in Nat
    OBVIOUS
  <2>6. draw[i] * TokenTime \in Nat
    BY <2>1, <2>2, <2>5
  <2> HIDE DEF wait
  <2> QED BY <2>3, <2>4, <2>6
<1> HIDE DEF wait
<1>5. times \in SUBSET Nat /\ \A i \in C : S.time + wait(i) \in times
  BY <1>2, <1>4
<1>6. st \in [Node -> 0 .. 3] /\ co \in [Node -> 0 .. 10] /\ un \in [Node -> Nat]
  <2>1. \A i \in Node : Collisions(S, i) \in 0 .. 10
    BY <1>2 DEF Collisions
  <2> QED BY <1>2, <1>4, <2>1
<1>7. /\ \A i \in Node : st[i] = IF i \in C THEN 3 ELSE S.state[i]
      /\ \A i \in Node : un[i] = IF i \in C THEN S.time + wait(i) ELSE S.until[i]
  OBVIOUS
<1>8. r = [S EXCEPT !.sending = -1, !.state = st, !.collisions = co, !.until = un]
  OBVIOUS
<1> HIDE DEF C, times, st, co, un, r
<1>9. CASE C = {}
  <2>1. s = S /\ ~ Collided(S)
    BY <1>1, <1>3, <1>9 DEF Collided
  <2>2. Same(S, S, {"sending", "state", "collisions", "until", "nextHit"})
    BY <1>2 DEF Same
  <2> QED BY <1>2, <2>1, <2>2
<1>10. CASE C # {}
  <2>1. s = Hit(r, times)
    BY <1>1, <1>10
  <2>2. Collided(S)
    <3>1. ~ Apart(S)
      BY <1>3, <1>10 DEF Apart
    <3> QED BY <3>1
  <2>3. /\ Same(S, r, {"sending", "state", "collisions", "until"})
        /\ r.sending = -1 /\ r.state = st /\ r.collisions = co /\ r.until = un
    BY <1>2, <1>8 DEF Same, IsNet, Fields
  <2>4. r.inputQ = S.inputQ /\ r.type = S.type /\ r.nextHit = S.nextHit
    BY <2>3 DEF Same, Fields
  <2>5. Net(r)
    <3>1. NewScalars(r, {"sending", "state", "collisions", "until"})
      BY <1>6, <2>3 DEF NewScalars
    <3>2. {"sending", "state", "collisions", "until"} \cap QueueFields = {}
      BY DEF QueueFields
    <3> QED BY <2>3, <3>1, <3>2, NetAgain
  <2>6. OneSends(r)
    <3>1. \A i \in Node : r.state[i] # 1
      BY <1>7, <2>2, <2>3 DEF Collided
    <3> QED BY <2>3, <3>1, NodeFacts DEF OneSends
  <2>7. Lines(r)
    <3>1. \A i \in Node : ~ Sends(S, i) /\ ~ Sends(r, i)
      BY <1>7, <2>2, <2>3, <2>4 DEF Collided, Sends
    <3> QED BY <2>4, <3>1 DEF Lines, Line
  <2>8. /\ Net(s) /\ Same(r, s, {"nextHit"}) /\ s.nextHit <= r.nextHit
        /\ \A t \in times : s.nextHit <= t
        /\ s.inputQ = r.inputQ /\ s.sending = r.sending /\ s.until = r.until
        /\ s.state = r.state /\ Lines(s) /\ OneSends(s)
    BY <1>5, <2>1, <2>5, <2>6, <2>7, HitNet
  <2>9. Same(S, s, {"sending", "state", "collisions", "until", "nextHit"})
    BY <2>3, <2>8 DEF Same
  <2>10. Waiting(s)
    <3>1. s.nextHit \in Nat
      BY <2>8, NetFacts
    <3>2. ASSUME NEW i \in Node, s.state[i] = 3 PROVE s.nextHit <= s.until[i]
      <4>1. CASE i \in C
        BY <1>5, <1>7, <2>3, <2>8, <4>1
      <4>2. CASE i \notin C
        <5>1. S.state[i] = 3 /\ s.until[i] = S.until[i]
          BY <1>7, <2>3, <2>8, <3>2, <4>2
        <5>2. S.nextHit <= S.until[i] /\ S.until[i] \in Nat /\ s.nextHit <= S.nextHit
          BY <1>2, <2>4, <2>8, <5>1 DEF Waiting
        <5> QED BY <1>2, <3>1, <5>1, <5>2
      <4> QED BY <4>1, <4>2
    <3> QED BY <3>2 DEF Waiting
  <2>11. Apart(s)
    BY <1>3, <1>7, <2>3, <2>8 DEF Apart
  <2>12. \A i \in Node : s.state[i] = 0 => s.inputQ[i] = << >>
    BY <1>7, <2>2, <2>3, <2>4, <2>8 DEF Collided
  <2> QED BY <2>2, <2>3, <2>4, <2>8, <2>9, <2>10, <2>11, <2>12
<1> QED BY <1>9, <1>10

\* Up to the back-off
LEMMA CSMACDCollides ==
  ASSUME NEW S, Net(S), Lines(S), OneSends(S), S.type = "CSMACD", Apart(S), NEW e \in Nat,
         NEW p, p = CSMACD(S, e)
  PROVE  /\ Net(p) /\ Lines(p) /\ Waiting(p) /\ p.type = "CSMACD"
         /\ Same(S, p, {"inputQ", "outputQ", "state", "sending", "nextHit", "lasttime", "collisions", "until"})
         /\ p.nextHit <= S.nextHit
         /\ Carries(NodesOf(S.state), S.time, S.inputQ, p.inputQ, S.outputQ, p.outputQ)
         /\ \/ Collided(p)
            \/ /\ OneSends(p) /\ Apart(p)
               /\ p.sending # -1 => p.nextHit <= Finish(p, p.sending)
               /\ \A i \in Node : p.state[i] = 0 /\ p.inputQ[i] # << >> => p.sending # -1
<1> DEFINE t == Transmit(S, e)
           c == IF S.sending # -1 /\ t.sending = -1 THEN [t EXCEPT !.collisions[S.sending] = 0] ELSE t
           b == EndBackoff(c)
           G == {"inputQ", "outputQ", "state", "sending", "nextHit", "lasttime", "collisions", "until"}
<1>1. p = Collide(b) /\ b = EndBackoff(c) /\ t = Transmit(S, e)
      /\ c = IF S.sending # -1 /\ t.sending = -1 THEN [t EXCEPT !.collisions[S.sending] = 0] ELSE t
  BY DEF CSMACD
<1> HIDE DEF t, c, b
<1>2. S.nextHit \in Nat /\ S.state \in [Node -> 0 .. 3] /\ S.sending \in Node \cup {-1}
  BY NetFacts
<1>3. /\ Net(t) /\ Lines(t) /\ OneSends(t)
      /\ Same(S, t, {"inputQ", "outputQ", "state", "sending", "nextHit"})
      /\ t.nextHit <= S.nextHit
      /\ Carries(NodesOf(S.state), S.time, S.inputQ, t.inputQ, S.outputQ, t.outputQ)
      /\ t.sending = -1 => t.state = [i \in Node |-> IF i = S.sending THEN 0 ELSE S.state[i]]
      /\ t.sending # -1 => t.state = S.state /\ t.nextHit <= Finish(t, t.sending)
  BY <1>1, TransmitFacts
<1>4. Apart(t) /\ IsNet(t) /\ t.collisions \in [Node -> 0 .. 10] /\ t.nextHit \in Nat
  BY <1>3, NetFacts DEF Apart, Scalars
<1>5. Same(t, c, {"collisions"}) /\ c.collisions \in [Node -> 0 .. 10]
  <2>1. CASE S.sending # -1 /\ t.sending = -1
    <3>1. Same(t, c, {"collisions"}) /\ c.collisions = [t.collisions EXCEPT ![S.sending] = 0]
      BY <1>1, <1>4, <2>1 DEF Same, IsNet, Fields
    <3>2. 0 \in 0 .. 10
      OBVIOUS
    <3> QED BY <1>4, <3>1, <3>2, Zenon
  <2>2. CASE ~ (S.sending # -1 /\ t.sending = -1)
    BY <1>1, <1>4, <2>2 DEF Same
  <2> QED BY <2>1, <2>2
<1>6. /\ c.inputQ = t.inputQ /\ c.outputQ = t.outputQ /\ c.state = t.state /\ c.sending = t.sending
      /\ c.type = t.type /\ c.nextHit = t.nextHit /\ c.time = t.time /\ t.type = S.type
  BY <1>3, <1>5 DEF Same, Fields
<1>7. Net(c)
  <2>1. NewScalars(c, {"collisions"})
    BY <1>5 DEF NewScalars
  <2>2. {"collisions"} \cap QueueFields = {}
    BY DEF QueueFields
  <2>3. Net(t) /\ Same(t, c, {"collisions"})
    BY <1>3, <1>5
  <2> QED BY <2>1, <2>2, <2>3, NetAgain
<1>8. Lines(c) /\ OneSends(c) /\ Apart(c)
  BY <1>3, <1>4, <1>6 DEF Lines, Line, Sends, OneSends, Apart
<1>9. /\ Net(b) /\ Lines(b) /\ OneSends(b) /\ Apart(b) /\ Waiting(b)
      /\ Same(c, b, {"state", "nextHit"})
      /\ b.nextHit <= c.nextHit /\ b.inputQ = c.inputQ /\ b.sending = c.sending
  <2>1. c.type = "CSMACD"
    BY <1>6
  <2> QED BY <1>1, <1>7, <1>8, <2>1, EndBackoffFacts
<1>10. b.type = "CSMACD" /\ b.time = t.time /\ b.outputQ = t.outputQ
  BY <1>6, <1>9 DEF Same, Fields
<1>11. \A i : Finish(b, i) = Finish(t, i)
  BY <1>6, <1>9, <1>10 DEF Finish, RemXTime, Rate
<1>12. b.sending # -1 => b.nextHit <= Finish(b, b.sending)
  <2> SUFFICES ASSUME b.sending # -1 PROVE b.nextHit <= Finish(b, b.sending)
    OBVIOUS
  <2>1. t.sending # -1 /\ t.sending = b.sending /\ b.nextHit <= t.nextHit /\ t.nextHit <= Finish(t, t.sending)
    BY <1>3, <1>6, <1>9
  <2>2. Finish(t, t.sending) \in Nat
    <3>1. t.sending \in Node /\ t.state[t.sending] = 1
      BY <1>3, <2>1, NetFacts DEF OneSends
    <3>2. t.inputQ[t.sending] # << >>
      BY <1>3, <3>1 DEF Lines, Line, Sends, Busy
    <3>3. Net(t) /\ Lines(t)
      BY <1>3
    <3> QED BY <3>1, <3>2, <3>3, LineStarts
  <2>3. b.nextHit \in Nat
    BY <1>9, NetFacts
  <2> QED BY <1>4, <1>11, <2>1, <2>2, <2>3
<1>13. /\ Net(p) /\ Lines(p) /\ Waiting(p)
       /\ Same(b, p, {"state", "sending", "inputQ", "nextHit", "lasttime"})
       /\ p.nextHit <= b.nextHit
       /\ \A i \in Node : Msgs(p.inputQ[i]) = Msgs(b.inputQ[i])
       /\ \/ Collided(p)
          \/ /\ OneSends(p) /\ Apart(p)
             /\ p.sending # -1 => p.nextHit <= Finish(p, p.sending)
             /\ \A i \in Node : p.state[i] = 0 /\ p.inputQ[i] # << >> => p.sending # -1
  <2>1. Net(b) /\ Lines(b) /\ OneSends(b) /\ Apart(b) /\ Waiting(b)
    BY <1>9
  <2> QED BY <1>1, <1>10, <1>12, <2>1, CollideFacts
<1>14. p.type = "CSMACD" /\ p.outputQ = b.outputQ
  BY <1>10, <1>13 DEF Same, Fields
<1>15. Same(S, p, G)
  <2>1. Same(S, b, G)
    BY <1>3, <1>5, <1>9 DEF Same
  <2> QED BY <1>13, <2>1 DEF Same
<1>16. p.nextHit <= S.nextHit
  <2>1. p.nextHit \in Nat /\ b.nextHit \in Nat
    BY <1>9, <1>13, NetFacts
  <2> QED BY <1>2, <1>3, <1>4, <1>6, <1>9, <1>13, <2>1
<1>17. Carries(NodesOf(S.state), S.time, S.inputQ, p.inputQ, S.outputQ, p.outputQ)
  <2>1. p.outputQ = t.outputQ
    BY <1>10, <1>14
  <2>2. \A i \in Node : Msgs(p.inputQ[i]) = Msgs(t.inputQ[i])
    BY <1>6, <1>9, <1>13
  <2> QED BY <1>3, <2>1, <2>2, CarriesOn, NodesOfFacts
<1> QED BY <1>13, <1>14, <1>15, <1>16, <1>17

LEMMA CSMACDFacts ==
  ASSUME NEW S, Net(S), Lines(S), OneSends(S), S.type = "CSMACD", Apart(S), NEW e \in Nat,
         NEW p, p = CSMACD(S, e), NEW draw \in Draws(p), NEW s, s = Backoff(p, draw)
  PROVE  /\ Net(s) /\ Lines(s) /\ OneSends(s) /\ Apart(s) /\ Waiting(s)
         /\ Same(S, s, {"inputQ", "outputQ", "state", "sending", "nextHit", "lasttime", "collisions", "until"})
         /\ s.nextHit <= S.nextHit
         /\ Carries(NodesOf(S.state), S.time, S.inputQ, s.inputQ, S.outputQ, s.outputQ)
         /\ \A i \in Node : s.state[i] = 1 => s.nextHit <= Finish(s, i)
         /\ \A i \in Node : s.state[i] = 0 /\ s.inputQ[i] # << >> => s.sending # -1
<1> DEFINE G == {"inputQ", "outputQ", "state", "sending", "nextHit", "lasttime", "collisions", "until"}
<1>1. /\ Net(p) /\ Lines(p) /\ Waiting(p) /\ p.type = "CSMACD" /\ Same(S, p, G)
      /\ p.nextHit <= S.nextHit
      /\ Carries(NodesOf(S.state), S.time, S.inputQ, p.inputQ, S.outputQ, p.outputQ)
      /\ \/ Collided(p)
         \/ /\ OneSends(p) /\ Apart(p)
            /\ p.sending # -1 => p.nextHit <= Finish(p, p.sending)
            /\ \A i \in Node : p.state[i] = 0 /\ p.inputQ[i] # << >> => p.sending # -1
  BY CSMACDCollides
<1>2. /\ Net(s) /\ Lines(s) /\ OneSends(s) /\ Apart(s) /\ Waiting(s)
      /\ Same(p, s, {"sending", "state", "collisions", "until", "nextHit"})
      /\ s.nextHit <= p.nextHit /\ s.inputQ = p.inputQ
      /\ Collided(p) => s.sending = -1 /\ \A i \in Node : s.state[i] = 0 => s.inputQ[i] = << >>
      /\ ~ Collided(p) => s = p
  <2>1. Net(p) /\ Lines(p) /\ Waiting(p) /\ (Collided(p) \/ (OneSends(p) /\ Apart(p)))
    BY <1>1
  <2> QED BY <1>1, <2>1, BackoffFacts
<1>3. Same(S, s, G) /\ s.outputQ = p.outputQ
  BY <1>1, <1>2 DEF Same, Fields
<1>4. s.nextHit <= S.nextHit
  <2>1. s.nextHit \in Nat /\ p.nextHit \in Nat /\ S.nextHit \in Nat
    BY <1>1, <1>2, NetFacts
  <2> QED BY <1>1, <1>2, <2>1
<1>5. Carries(NodesOf(S.state), S.time, S.inputQ, s.inputQ, S.outputQ, s.outputQ)
  BY <1>1, <1>2, <1>3
<1>6. ASSUME NEW i \in Node, s.state[i] = 1 PROVE s.nextHit <= Finish(s, i)
  <2>1. s.sending = i /\ i # -1
    BY <1>2, <1>6, NodeFacts DEF OneSends
  <2>2. s = p /\ ~ Collided(p)
    BY <1>2, <2>1
  <2> QED BY <1>1, <2>1, <2>2
<1>7. ASSUME NEW i \in Node, s.state[i] = 0, s.inputQ[i] # << >> PROVE s.sending # -1
  <2>1. ~ Collided(p)
    BY <1>2, <1>7
  <2> QED BY <1>1, <1>2, <1>7, <2>1
<1> QED BY <1>2, <1>3, <1>4, <1>5, <1>6, <1>7

\* The block is called again for the end of every transmission.
Timely(S) == \A i \in Node : S.state[i] = 1 => S.nextHit <= Finish(S, i)

LEMMA FinishSame ==
  ASSUME NEW S, NEW s, s.time = S.time, s.type = S.type, s.inputQ = S.inputQ
  PROVE  \A i : Finish(s, i) = Finish(S, i)
  BY DEF Finish, RemXTime, Rate

LEMMA StartAllFacts ==
  ASSUME NEW S, Net(S), Lines(S), Timely(S), S.type # "TDMA", NEW s, s = StartAll(S)
  PROVE  /\ Net(s) /\ Lines(s) /\ Timely(s) /\ Same(S, s, {"state", "nextHit"})
         /\ s.nextHit <= S.nextHit /\ s.inputQ = S.inputQ
         /\ \A i \in Node : s.state[i] = 0 => s.inputQ[i] = << >>
<1> DEFINE starts == {i \in Node : S.state[i] = 0 /\ S.inputQ[i] # << >>}
           r == [S EXCEPT !.state = [i \in Node |-> IF i \in starts THEN 1 ELSE @[i]]]
           times == {Finish(S, i) : i \in starts}
<1>1. s = Hit(r, times)
  BY DEF StartAll
<1>2. IsNet(S) /\ S.state \in [Node -> 0 .. 3] /\ S.nextHit \in Nat
  BY NetFacts
<1>3. Same(S, r, {"state"}) /\ r.state = [i \in Node |-> IF i \in starts THEN 1 ELSE S.state[i]]
  BY <1>2 DEF Same, IsNet, Fields
<1>4. \A i \in starts : /\ i \in Node /\ S.inputQ[i] # << >> /\ S.state[i] = 0
                        /\ Busy(MsgFrom(i), S.inputQ[i]) /\ Finish(S, i) \in Nat
  BY LineStarts
<1>5. times \in SUBSET Nat /\ \A i \in starts : Finish(S, i) \in times
  BY <1>4
<1>6. \A i \in Node : S.state[i] = 0 /\ S.inputQ[i] # << >> => i \in starts
  OBVIOUS
<1> HIDE DEF starts, r, times
<1>7. /\ r.inputQ = S.inputQ /\ r.type = S.type /\ r.time = S.time /\ r.nextHit = S.nextHit
  BY <1>3 DEF Same, Fields
<1>8. Net(r)
  <2>1. r.state \in [Node -> 0 .. 3]
    BY <1>2, <1>3
  <2>2. NewScalars(r, {"state"})
    BY <2>1 DEF NewScalars
  <2>3. {"state"} \cap QueueFields = {}
    BY DEF QueueFields
  <2> QED BY <1>3, <2>2, <2>3, NetAgain
<1>9. Lines(r)
  <2>1. ASSUME NEW i \in Node PROVE Line(r, i)
    <3>1. CASE i \in starts
      <4>1. Sends(r, i)
        BY <1>3, <3>1 DEF Sends
      <4> QED BY <1>4, <1>7, <3>1, <4>1 DEF Line
    <3>2. CASE i \notin starts
      <4>1. r.state[i] = S.state[i]
        BY <1>3, <3>2
      <4> QED BY <1>7, <4>1 DEF Lines, Line, Sends
    <3> QED BY <3>1, <3>2
  <2> QED BY <2>1 DEF Lines
<1>10. /\ Net(s) /\ Same(r, s, {"nextHit"}) /\ s.nextHit <= r.nextHit
       /\ \A t \in times : s.nextHit <= t
       /\ s.inputQ = r.inputQ /\ s.time = r.time /\ s.type = r.type
       /\ s.state = r.state /\ Lines(s)
  BY <1>1, <1>5, <1>8, <1>9, HitNet
<1>11. \A i : Finish(s, i) = Finish(S, i)
  BY <1>7, <1>10, FinishSame
<1>12. Timely(s)
  <2>1. ASSUME NEW i \in Node, s.state[i] = 1 PROVE s.nextHit <= Finish(S, i)
    <3>1. CASE i \in starts
      BY <1>5, <1>10, <3>1
    <3>2. CASE i \notin starts
      <4>1. S.state[i] = 1
        BY <1>3, <1>10, <2>1, <3>2
      <4>2. S.inputQ[i] # << >>
        BY <4>1 DEF Lines, Line, Sends, Busy
      <4>3. Finish(S, i) \in Nat
        BY <4>2, LineStarts
      <4>4. S.nextHit <= Finish(S, i)
        BY <4>1 DEF Timely
      <4>5. s.nextHit \in Nat
        BY <1>10, NetFacts
      <4> QED BY <1>2, <1>7, <1>10, <4>3, <4>4, <4>5
    <3> QED BY <3>1, <3>2
  <2> QED BY <1>11, <2>1 DEF Timely
<1>13. \A i \in Node : s.state[i] = 0 => s.inputQ[i] = << >>
  <2>1. ASSUME NEW i \in Node, s.state[i] = 0, S.inputQ[i] # << >> PROVE FALSE
    <3>1. CASE i \in starts
      BY <1>3, <1>10, <2>1, <3>1
    <3>2. CASE i \notin starts
      BY <1>3, <1>6, <1>10, <2>1, <3>2
    <3> QED BY <3>1, <3>2
  <2> QED BY <1>7, <1>10, <2>1
<1>14. Same(S, s, {"state", "nextHit"})
  BY <1>3, <1>10 DEF Same
<1> QED BY <1>7, <1>10, <1>12, <1>13, <1>14

LEMMA FDMAFacts ==
  ASSUME NEW S, Net(S), Lines(S), S.type = "FDMA", NEW e \in Nat, NEW s, s = FDMA(S, e)
  PROVE  /\ Net(s) /\ Lines(s) /\ Timely(s)
         /\ Same(S, s, {"inputQ", "outputQ", "state", "nextHit"})
         /\ s.nextHit <= S.nextHit
         /\ Carries(NodesOf(S.state), S.time, S.inputQ, s.inputQ, S.outputQ, s.outputQ)
         /\ \A i \in Node : s.state[i] = 0 => s.inputQ[i] = << >>
<1> DEFINE busy == {i \in Node : S.state[i] = 1}
           t == Spend(S, busy, e)
           done == {i \in busy : Sent(t, i)}
           times == {Finish(t, i) : i \in busy \ done}
           rest == Hit(t, times)
           d == Deliver(rest, done)
           r == [d EXCEPT !.state = [i \in Node |-> IF i \in done THEN 0 ELSE @[i]]]
           G == {"inputQ", "outputQ", "state", "nextHit"}
<1>1. s = StartAll(r) /\ t = Spend(S, busy, e) /\ rest = Hit(t, times) /\ d = Deliver(rest, done)
  BY DEF FDMA
<1>2. /\ IsNet(S) /\ Queues(S) /\ S.type \in Kinds /\ S.time \in Nat /\ S.nextHit \in Nat
      /\ S.state \in [Node -> 0 .. 3] /\ S.inputQ \in [Node -> Seq(NWmsg)]
      /\ S.outputQ \in [Node -> Seq(NWmsg)]
  BY NetFacts
<1>3. busy \in SUBSET Node /\ \A i \in Node : i \in busy <=> S.state[i] = 1
  OBVIOUS
<1>4. /\ done \in SUBSET busy /\ \A i \in busy : i \in done <=> Sent(t, i)
      /\ \A i \in busy \ done : Finish(t, i) \in times
  OBVIOUS
<1>5. \A x \in times : \E i \in busy \ done : x = Finish(t, i)
  OBVIOUS
<1>6. r = [d EXCEPT !.state = [i \in Node |-> IF i \in done THEN 0 ELSE @[i]]]
  OBVIOUS
<1> HIDE DEF busy, t, done, times, rest, d, r
<1>7. Heads(S, busy)
  BY <1>3 DEF Lines, Line, Sends, Busy, Heads
<1>8. /\ Same(S, t, {"inputQ"}) /\ Queues(t) /\ Heads(t, busy)
      /\ \A i \in busy : /\ Tail(t.inputQ[i]) = Tail(S.inputQ[i])
                         /\ ~ Sent(t, i) => Busy(MsgFrom(i), t.inputQ[i])
      /\ \A i \in Node \ busy : t.inputQ[i] = S.inputQ[i]
      /\ \A i \in Node : Msgs(t.inputQ[i]) = Msgs(S.inputQ[i])
  <2>1. IsNet(S) /\ Queues(S) /\ S.type \in Kinds
    BY <1>2
  <2>2. busy \in SUBSET Node
    BY <1>3
  <2> QED BY <1>1, <1>7, <2>1, <2>2, SpendFacts
<1>9. /\ t.type = S.type /\ t.time = S.time /\ t.state = S.state /\ t.nextHit = S.nextHit /\ IsNet(t)
      /\ t.outputQ = S.outputQ
  BY <1>8 DEF Same, Fields
<1>10. Net(t)
  <2>1. NewScalars(t, {"inputQ"})
    BY DEF NewScalars
  <2>2. Scalars(t)
    BY <1>8, <2>1, ScalarsAgain DEF Net
  <2> QED BY <1>8, <1>9, <2>2 DEF Net
<1>11. times \in SUBSET Nat
  <2>1. \A i \in busy \ done : Finish(t, i) \in Nat
    <3> TAKE i \in busy \ done
    <3>1. i \in Node /\ Busy(MsgFrom(i), t.inputQ[i]) /\ MsgFrom(i) \in SUBSET NWmsg
      BY <1>3, <1>4, <1>8, MsgFacts
    <3>2. t.type \in Kinds /\ t.time \in Nat
      BY <1>2, <1>9
    <3> QED BY <3>1, <3>2, RemXTimeFacts
  <2> QED BY <1>5, <2>1
<1>12. /\ Net(rest) /\ Same(t, rest, {"nextHit"}) /\ rest.nextHit <= t.nextHit
       /\ \A x \in times : rest.nextHit <= x
       /\ rest.type = t.type /\ rest.time = t.time
       /\ rest.inputQ = t.inputQ /\ rest.outputQ = t.outputQ /\ rest.state = t.state
  BY <1>1, <1>10, <1>11, HitNet
<1>13. /\ Same(rest, d, {"inputQ", "outputQ", "nextHit"})
       /\ d.nextHit \in Nat /\ d.nextHit <= rest.nextHit
       /\ d.inputQ = [i \in Node |-> IF i \in done THEN Tail(rest.inputQ[i]) ELSE rest.inputQ[i]]
       /\ d.outputQ = [i \in Node |-> rest.outputQ[i] \o Arrivals(rest, done, i)]
       /\ \A i \in Node : Reaches(rest.inputQ, done, i, rest.time, Arrivals(rest, done, i))
  <2>1. IsNet(rest) /\ Queues(rest) /\ rest.time \in Nat /\ rest.nextHit \in Nat
    BY <1>12, NetFacts
  <2>2. done \in SUBSET Node /\ \A i \in done : rest.inputQ[i] # << >>
    BY <1>3, <1>4, <1>8, <1>12 DEF Heads
  <2>3. MayDeliver(rest, done)
    BY <2>1, <2>2 DEF MayDeliver
  <2>4. d = Deliver(rest, done)
    BY <1>1
  <2> QED BY <2>3, <2>4, DeliverFacts
<1>14. d.state = S.state /\ IsNet(d) /\ d.type = S.type /\ d.time = S.time
  BY <1>9, <1>12, <1>13 DEF Same, Fields
<1>15. /\ Same(d, r, {"state"}) /\ r.state = [i \in Node |-> IF i \in done THEN 0 ELSE S.state[i]]
  BY <1>6, <1>14 DEF Same, IsNet, Fields
<1>16. /\ r.inputQ = d.inputQ /\ r.outputQ = d.outputQ /\ r.nextHit = d.nextHit /\ r.type = S.type
       /\ r.time = S.time /\ IsNet(r)
  BY <1>14, <1>15 DEF Same, Fields
<1>17. Same(S, r, G)
  BY <1>8, <1>12, <1>13, <1>15 DEF Same
<1>18. \A i \in Node : r.inputQ[i] = IF i \in done THEN Tail(S.inputQ[i]) ELSE t.inputQ[i]
  BY <1>4, <1>8, <1>12, <1>13, <1>16
<1>19. Lines(r)
  <2>1. ASSUME NEW i \in Node PROVE Line(r, i)
    <3>1. CASE i \in done
      <4>1. i \in busy /\ r.state[i] = 0 /\ r.inputQ[i] = Tail(S.inputQ[i])
        BY <1>4, <1>15, <1>18, <3>1
      <4>2. Idle(MsgFrom(i), r.inputQ[i])
        BY <1>7, <4>1 DEF Heads, Idle
      <4> QED BY <1>16, <4>1, <4>2 DEF Line, Sends
    <3>2. CASE i \in busy \ done
      <4>1. Busy(MsgFrom(i), r.inputQ[i]) /\ r.state[i] = 1
        BY <1>3, <1>4, <1>8, <1>15, <1>18, <3>2
      <4> QED BY <4>1 DEF Line, Sends
    <3>3. CASE i \notin busy
      <4>1. i \notin done
        BY <1>4, <3>3
      <4>2. r.inputQ[i] = S.inputQ[i] /\ r.state[i] = S.state[i]
        BY <1>8, <1>15, <1>18, <3>3, <4>1
      <4> QED BY <1>16, <4>2 DEF Lines, Line, Sends
    <3> QED BY <3>1, <3>2, <3>3
  <2> QED BY <2>1 DEF Lines
<1>20. Queues(r)
  <2>1. \A i \in Node : r.inputQ[i] \in Seq(MsgFrom(i))
    <3> TAKE i \in Node
    <3>1. MsgFrom(i) \subseteq NWmsg /\ Line(r, i)
      BY <1>19, MsgFacts DEF Lines
    <3> QED BY <3>1, LineFacts DEF Line
  <2>2. \A i \in Node : r.outputQ[i] \in Seq(MsgTo(i))
    <3> TAKE i \in Node
    <3>1. {x \in MsgTo(i) : x.waituntil = rest.time + Postdelay[i]} \subseteq MsgTo(i)
      OBVIOUS
    <3>2. Arrivals(rest, done, i) \in Seq(MsgTo(i))
      BY <1>13, <3>1, SeqMonotonic DEF Reaches
    <3>3. S.outputQ[i] \in Seq(MsgTo(i)) /\ r.outputQ[i] = S.outputQ[i] \o Arrivals(rest, done, i)
      BY <1>2, <1>9, <1>12, <1>13, <1>16 DEF Queues
    <3> QED BY <3>2, <3>3, ConcatProperties
  <2>3. \A i : MsgFrom(i) \subseteq NWmsg /\ MsgTo(i) \subseteq NWmsg
    BY MsgFacts
  <2>4. r.inputQ \in [Node -> Seq(NWmsg)] /\ r.outputQ \in [Node -> Seq(NWmsg)]
    <3>1. \A i \in Node : r.inputQ[i] \in Seq(NWmsg) /\ r.outputQ[i] \in Seq(NWmsg)
      BY <2>1, <2>2, <2>3, SeqMonotonic
    <3>2. r.inputQ = [i \in Node |-> r.inputQ[i]] /\ r.outputQ = [i \in Node |-> r.outputQ[i]]
      BY <1>13, <1>16
    <3> QED BY <3>1, <3>2
  <2>5. /\ r.preprocQ = S.preprocQ /\ r.statpreprocQ = S.statpreprocQ /\ r.statinputQ = S.statinputQ
        /\ r.switchQ = S.switchQ /\ r.postprocQ = S.postprocQ
    BY <1>17 DEF Same, Fields
  <2> QED BY <1>2, <2>1, <2>2, <2>4, <2>5 DEF Queues
<1>21. Net(r)
  <2>1. r.state \in [Node -> 0 .. 3]
    BY <1>2, <1>15
  <2>2. NewScalars(r, G)
    BY <1>13, <1>16, <2>1 DEF NewScalars
  <2>3. Scalars(r)
    BY <1>17, <2>2, ScalarsAgain DEF Net
  <2> QED BY <1>16, <1>20, <2>3 DEF Net
<1>22. Timely(r)
  <2>1. ASSUME NEW i \in Node, r.state[i] = 1 PROVE r.nextHit <= Finish(r, i)
    <3>1. i \in busy \ done /\ r.inputQ[i] = t.inputQ[i]
      BY <1>3, <1>15, <1>18, <2>1
    <3>2. Finish(r, i) = Finish(t, i)
      BY <1>9, <1>16, <3>1 DEF Finish, RemXTime, Rate
    <3>3. rest.nextHit <= Finish(t, i) /\ Finish(t, i) \in Nat /\ rest.nextHit \in Nat
      BY <1>4, <1>11, <1>12, <3>1, NetFacts
    <3> QED BY <1>13, <1>16, <3>2, <3>3
  <2> QED BY <2>1 DEF Timely
<1>23. /\ Net(s) /\ Lines(s) /\ Timely(s) /\ Same(r, s, {"state", "nextHit"})
       /\ s.nextHit <= r.nextHit /\ s.inputQ = r.inputQ
       /\ \A i \in Node : s.state[i] = 0 => s.inputQ[i] = << >>
  <2>1. r.type # "TDMA"
    BY <1>16
  <2> QED BY <1>1, <1>19, <1>21, <1>22, <2>1, StartAllFacts
<1>24. Same(S, s, G)
  BY <1>17, <1>23 DEF Same
<1>25. s.nextHit <= S.nextHit
  <2>1. s.nextHit \in Nat /\ rest.nextHit \in Nat
    BY <1>12, <1>23, NetFacts
  <2> QED BY <1>2, <1>9, <1>12, <1>13, <1>16, <1>23, <2>1
<1>26. Carries(NodesOf(S.state), S.time, S.inputQ, s.inputQ, S.outputQ, s.outputQ)
  <2>1. s.outputQ = r.outputQ
    BY <1>23 DEF Same, Fields
  <2>2. \A i \in done : t.inputQ[i] # << >> /\ Msgs(s.inputQ[i]) = Msgs(Tail(t.inputQ[i]))
    BY <1>3, <1>4, <1>8, <1>18, <1>23 DEF Heads
  <2>3. \A i \in Node \ done : Msgs(s.inputQ[i]) = Msgs(t.inputQ[i])
    BY <1>18, <1>23
  <2>4. \A i \in Node : \E u : Reaches(t.inputQ, done, i, S.time, u) /\ s.outputQ[i] = S.outputQ[i] \o u
    <3>1. \A i \in Node : /\ Reaches(t.inputQ, done, i, S.time, Arrivals(rest, done, i))
                          /\ s.outputQ[i] = S.outputQ[i] \o Arrivals(rest, done, i)
      BY <1>9, <1>12, <1>13, <1>16, <2>1
    <3> QED BY <3>1
  <2>5. done \in SUBSET NodesOf(S.state)
    BY <1>3, <1>4 DEF NodesOf
  <2>6. Carries(NodesOf(S.state), S.time, t.inputQ, s.inputQ, S.outputQ, s.outputQ)
    BY <2>2, <2>3, <2>4, <2>5 DEF Carries
  <2>7. t.inputQ \in [Node -> Seq(NWmsg)] /\ NodesOf(S.state) \in SUBSET Node
    BY <1>10, NetFacts, NodesOfFacts
  <2> QED BY <1>2, <1>8, <2>6, <2>7, CarriesAfter
<1> QED BY <1>23, <1>24, <1>25, <1>26

LEMMA SentFields ==
  ASSUME NEW S, IsNet(S), NEW F, NEW e, NEW G, NEW s, s = Deliver(Spend(S, F, e), G)
  PROVE  Same(S, s, {"inputQ", "outputQ", "nextHit"})
<1> DEFINE a == Spend(S, F, e)
<1>1. a = Spend(S, F, e) /\ s = Deliver(a, G)
  OBVIOUS
<1> HIDE DEF a
<1>2. Same(S, a, {"inputQ"})
  BY <1>1 DEF Same, IsNet, Fields, Spend
<1> DEFINE d == [a EXCEPT !.inputQ = [i \in Node |-> IF i \in G THEN Tail(@[i]) ELSE @[i]],
                          !.outputQ = [r \in Node |-> @[r] \o Arrivals(a, G, r)]]
           times == {a.time + Postdelay[r] :
                       r \in {n \in Node : Postdelay[n] # 0 /\ \E i \in G : n \in Receivers(Head(a.inputQ[i]).msg)}}
<1>3. s = Hit(d, times)
  BY <1>1 DEF Deliver
<1>4. Same(a, d, {"inputQ", "outputQ"})
  BY <1>2 DEF Same, IsNet, Fields
<1> HIDE DEF d, times
<1>5. Same(d, s, {"nextHit"})
  BY <1>3, <1>4 DEF Same, IsNet, Fields, Hit
<1> QED BY <1>2, <1>4, <1>5 DEF Same

-----------------------------------------------------------------------------
\* The slots of TDMA: before the first one nobody sends, then the owner of the
\* slot or nobody.
Slots(S) ==
  /\ S.slotcount \in -1 .. Len(S.schedule) - 1 /\ S.currslottime >= -SlotTime
  /\ S.slotcount = -1 => S.currslottime = -SlotTime /\ S.sending = -1
  /\ S.sending # -1 => Owner(S) = S.sending

LEMMA SendInSlotFacts ==
  ASSUME NEW S, Net(S), Lines(S), OneSends(S), S.type = "TDMA", NEW e \in Nat,
         NEW s, s = SendInSlot(S, e)
  PROVE  /\ Net(s) /\ Lines(s) /\ OneSends(s)
         /\ Same(S, s, {"inputQ", "outputQ", "state", "sending", "nextHit"})
         /\ s.nextHit <= S.nextHit
         /\ Carries(NodesOf(S.state), S.time, S.inputQ, s.inputQ, S.outputQ, s.outputQ)
         /\ s.sending = -1 \/ s.sending = S.sending
         /\ s.sending # -1 => s.nextHit <= Finish(s, s.sending)
<1> DEFINE i == S.sending
           a == Spend(S, {i}, e)
           r == Deliver(a, {i})
           t == Transmit(S, e)
<1>1. /\ t = IF i = -1 THEN S
             ELSE IF Sent(a, i) THEN [r EXCEPT !.state[i] = 0, !.sending = -1]
             ELSE Hit(a, {Finish(a, i)})
      /\ s = IF i = -1 THEN S
             ELSE IF ~ Sent(a, i) THEN Hit(a, {Finish(a, i)})
             ELSE IF S.time < SlotEnd(S) /\ r.inputQ[i] # << >> THEN Hit(r, {Finish(r, i)})
             ELSE [r EXCEPT !.state[i] = 0, !.sending = -1]
      /\ t = Transmit(S, e)
  BY DEF SendInSlot, Transmit
<1>2. IsNet(S) /\ S.sending \in Node \cup {-1} /\ S.state \in [Node -> 0 .. 3]
  BY NetFacts
<1>3. Same(S, r, {"inputQ", "outputQ", "nextHit"})
  BY <1>2, SentFields
<1> HIDE DEF a, r, t
<1>4. /\ Net(t) /\ Lines(t) /\ OneSends(t)
      /\ Same(S, t, {"inputQ", "outputQ", "state", "sending", "nextHit"})
      /\ t.nextHit <= S.nextHit
      /\ Carries(NodesOf(S.state), S.time, S.inputQ, t.inputQ, S.outputQ, t.outputQ)
      /\ t.sending = -1 \/ t.sending = S.sending
      /\ t.sending # -1 => t.nextHit <= Finish(t, t.sending)
  BY <1>1, TransmitFacts
<1>5. CASE s = t
  BY <1>4, <1>5
<1>6. CASE i # -1 /\ Sent(a, i) /\ r.inputQ[i] # << >> /\ s = Hit(r, {Finish(r, i)})
  <2>1. t = [r EXCEPT !.state[i] = 0, !.sending = -1] /\ i \in Node
    BY <1>1, <1>2, <1>6
  <2>2. IsNet(r) /\ r.state = S.state /\ r.sending = S.sending
    BY <1>3 DEF Same, Fields
  <2>3. /\ Same(t, r, {"state", "sending"}) /\ t.state = [S.state EXCEPT ![i] = 0]
    BY <2>1, <2>2 DEF Same, IsNet, Fields
  <2>4. /\ t.inputQ = r.inputQ /\ t.outputQ = r.outputQ /\ t.nextHit = r.nextHit /\ t.time = r.time
        /\ t.type = r.type /\ t.type = S.type /\ t.time = S.time
    BY <1>4, <2>3 DEF Same, Fields
  <2>5. Net(r)
    <3>1. NewScalars(r, {"state", "sending"})
      BY <1>2, <2>2 DEF NewScalars
    <3>2. {"state", "sending"} \cap QueueFields = {}
      BY DEF QueueFields
    <3>3. Net(t)
      BY <1>4
    <3> QED BY <2>3, <3>1, <3>2, <3>3, NetAgain
  <2>6. Busy(MsgFrom(i), t.inputQ[i]) /\ Finish(t, i) \in Nat
    <3>1. Net(t) /\ Lines(t) /\ i \in Node /\ t.inputQ[i] # << >>
      BY <1>4, <1>6, <2>1, <2>4
    <3> QED BY <3>1, LineStarts
  <2>7. Lines(r)
    <3>1. \A j \in Node \ {i} : Line(r, j)
      <4> TAKE j \in Node \ {i}
      <4>1. t.state[j] = r.state[j]
        BY <1>2, <2>2, <2>3
      <4> QED BY <1>4, <2>4, <4>1 DEF Lines, Line, Sends
    <3>2. r.state[i] = 1
      BY <1>2, <1>6, <2>2 DEF OneSends
    <3>3. Line(r, i)
      BY <2>4, <2>6, <3>2 DEF Line, Sends
    <3> QED BY <3>1, <3>3 DEF Lines
  <2>8. OneSends(r)
    BY <2>2 DEF OneSends
  <2>9. Finish(r, i) = Finish(t, i)
    BY <2>4 DEF Finish, RemXTime, Rate
  <2>10. /\ Net(s) /\ Same(r, s, {"nextHit"}) /\ s.nextHit <= r.nextHit /\ s.nextHit <= Finish(r, i)
         /\ s.inputQ = r.inputQ /\ s.outputQ = r.outputQ /\ s.sending = r.sending /\ s.time = r.time
         /\ s.type = r.type /\ Lines(s) /\ OneSends(s)
    <3>1. {Finish(r, i)} \in SUBSET Nat
      BY <2>6, <2>9
    <3>2. s = Hit(r, {Finish(r, i)})
      BY <1>6
    <3> HIDE DEF i
    <3> QED BY <2>5, <2>7, <2>8, <3>1, <3>2, HitNet
  <2>11. Finish(s, i) = Finish(r, i)
    BY <2>10 DEF Finish, RemXTime, Rate
  <2>12. Same(S, s, {"inputQ", "outputQ", "state", "sending", "nextHit"})
    BY <1>3, <2>10 DEF Same
  <2>13. s.nextHit <= S.nextHit
    <3>1. s.nextHit \in Nat /\ t.nextHit \in Nat /\ S.nextHit \in Nat
      BY <1>4, <2>10, NetFacts
    <3> QED BY <1>4, <2>4, <2>10, <3>1
  <2>14. Carries(NodesOf(S.state), S.time, S.inputQ, s.inputQ, S.outputQ, s.outputQ)
    BY <1>4, <2>4, <2>10
  <2> QED BY <2>2, <2>10, <2>11, <2>12, <2>13, <2>14
<1>7. s = t \/ (i # -1 /\ Sent(a, i) /\ r.inputQ[i] # << >> /\ s = Hit(r, {Finish(r, i)}))
  BY <1>1
<1> QED BY <1>5, <1>6, <1>7

LEMMA SlotFacts ==
  /\ SlotTime \in Nat \ {0}
  /\ \A S : Net(S) => /\ Len(S.schedule) \in Nat \ {0}
                      /\ \A k \in 1 .. Len(S.schedule) : S.schedule[k] \in Node \cup {-1}
<1>1. ASSUME NEW S, Net(S)
      PROVE  /\ Len(S.schedule) \in Nat \ {0}
             /\ \A k \in 1 .. Len(S.schedule) : S.schedule[k] \in Node \cup {-1}
  <2>1. S.schedule \in Seq(Node \cup {-1}) /\ S.schedule # << >>
    BY <1>1 DEF Net, Scalars
  <2> QED BY <2>1
<1> QED BY <1>1, SlotAssumption

LEMMA NewSlotFacts ==
  ASSUME NEW S, Net(S), Lines(S), OneSends(S), S.type = "TDMA", Slots(S),
         S.sending # -1 => S.nextHit <= Finish(S, S.sending),
         NEW s, s = NewSlot(S)
  PROVE  /\ Net(s) /\ Lines(s) /\ OneSends(s) /\ Slots(s)
         /\ Same(S, s, {"state", "sending", "slotcount", "currslottime"})
         /\ s.slotcount # -1
         /\ s.sending # -1 => s.nextHit <= Finish(s, s.sending)
<1> DEFINE r == [S EXCEPT !.slotcount = (@ + 1) % Len(S.schedule), !.currslottime = SlotEnd(S)]
           n == (S.slotcount + 1) % Len(S.schedule)
           H == {"state", "sending", "slotcount", "currslottime"}
<1>1. s = IF S.time < SlotEnd(S) THEN S
          ELSE IF r.sending # -1 /\ Owner(r) # r.sending
               THEN [r EXCEPT !.state[r.sending] = 2, !.sending = -1] ELSE r
  BY DEF NewSlot
<1>2. /\ IsNet(S) /\ S.state \in [Node -> 0 .. 3] /\ S.sending \in Node \cup {-1} /\ S.time \in Nat
      /\ S.slotcount \in Int /\ S.currslottime \in Int
  BY NetFacts
<1>3. /\ Same(S, r, {"slotcount", "currslottime"}) /\ r.slotcount = n /\ r.currslottime = SlotEnd(S)
  BY <1>2 DEF Same, IsNet, Fields
<1>20. /\ r.inputQ = S.inputQ /\ r.state = S.state /\ r.type = S.type /\ r.sending = S.sending
       /\ r.time = S.time /\ r.nextHit = S.nextHit /\ IsNet(r) /\ r.schedule = S.schedule
  BY <1>3 DEF Same, Fields
<1>4. SlotTime \in Nat \ {0} /\ Len(S.schedule) \in Nat \ {0}
  BY SlotFacts
<1>5. n \in 0 .. Len(S.schedule) - 1
  <2>1. S.slotcount + 1 \in Nat
    BY <1>4 DEF Slots
  <2> QED BY <1>4, <2>1
<1>6. SlotEnd(S) \in Nat
  BY <1>2, <1>4 DEF Slots, SlotEnd
<1> HIDE DEF r, n
<1>7. CASE S.time < SlotEnd(S)
  <2>1. s = S
    BY <1>1, <1>7
  <2>2. S.slotcount # -1
    BY <1>2, <1>4, <1>7 DEF Slots, SlotEnd
  <2>3. Same(S, S, H)
    BY <1>2 DEF Same
  <2> QED BY <2>1, <2>2, <2>3
<1>8. CASE ~ (S.time < SlotEnd(S)) /\ r.sending # -1 /\ Owner(r) # r.sending
  <2> DEFINE i == S.sending
  <2>1. s = [r EXCEPT !.state[i] = 2, !.sending = -1] /\ i \in Node
    BY <1>1, <1>2, <1>8, <1>20
  <2>2. Same(r, s, {"state", "sending"}) /\ s.sending = -1 /\ s.state = [S.state EXCEPT ![i] = 2]
    <3>1. DOMAIN r = Fields /\ r.state = S.state
      BY <1>20 DEF IsNet
    <3>2. "state" \in Fields /\ "sending" \in Fields
      BY DEF Fields
    <3>3. s = [f \in Fields |-> IF f = "sending" THEN -1
                               ELSE IF f = "state" THEN [S.state EXCEPT ![i] = 2] ELSE r[f]]
      BY <2>1, <3>1, <3>2
    <3>4. IsNet(s)
      BY <3>3 DEF IsNet
    <3>5. s.sending = -1 /\ s.state = [S.state EXCEPT ![i] = 2]
      BY <3>2, <3>3
    <3>6. \A f \in Fields \ {"state", "sending"} : s[f] = r[f]
      BY <3>3
    <3> QED BY <3>4, <3>5, <3>6 DEF Same
  <2>3. /\ s.inputQ = S.inputQ /\ s.type = S.type /\ s.schedule = S.schedule /\ s.nextHit = S.nextHit
        /\ s.slotcount = n /\ s.currslottime = SlotEnd(S)
    BY <1>3, <1>20, <2>2 DEF Same, Fields
  <2>4. Same(S, s, H)
    BY <1>3, <2>2 DEF Same
  <2>5. s.state \in [Node -> 0 .. 3] /\ \A j \in Node : s.state[j] = IF j = i THEN 2 ELSE S.state[j]
    <3>1. 2 \in 0 .. 3
      OBVIOUS
    <3> QED BY <1>2, <2>2, <3>1, Zenon
  <2>6. Net(s)
    <3>1. NewScalars(s, H)
      BY <1>5, <1>6, <2>2, <2>3, <2>5 DEF NewScalars
    <3>2. H \cap QueueFields = {}
      BY DEF QueueFields
    <3> QED BY <2>4, <3>1, <3>2, NetAgain
  <2>7. S.state[i] = 1
    BY <2>1 DEF OneSends
  <2>8. Lines(s)
    BY <2>3, <2>5, <2>7 DEF Lines, Line, Sends
  <2>9. OneSends(s)
    <3>1. \A j \in Node : s.state[j] # 1
      BY <2>5 DEF OneSends
    <3> QED BY <2>2, <3>1, NodeFacts DEF OneSends
  <2>10. Slots(s) /\ s.slotcount # -1
    BY <1>4, <1>5, <1>6, <2>2, <2>3 DEF Slots
  <2> QED BY <2>2, <2>4, <2>6, <2>8, <2>9, <2>10
<1>9. CASE ~ (S.time < SlotEnd(S)) /\ ~ (r.sending # -1 /\ Owner(r) # r.sending)
  <2>1. s = r
    BY <1>1, <1>9
  <2>2. Same(S, r, H)
    BY <1>3 DEF Same
  <2>3. Net(r)
    <3>1. NewScalars(r, {"slotcount", "currslottime"})
      BY <1>3, <1>5, <1>6 DEF NewScalars
    <3>2. {"slotcount", "currslottime"} \cap QueueFields = {}
      BY DEF QueueFields
    <3> QED BY <1>3, <3>1, <3>2, NetAgain
  <2>4. Lines(r) /\ OneSends(r)
    BY <1>20 DEF Lines, Line, Sends, OneSends
  <2>5. Slots(r) /\ r.slotcount # -1
    BY <1>3, <1>4, <1>5, <1>6, <1>9, <1>20 DEF Slots
  <2>6. r.sending # -1 => r.nextHit <= Finish(r, r.sending)
    BY <1>20 DEF Finish, RemXTime, Rate
  <2> QED BY <2>1, <2>2, <2>3, <2>4, <2>5, <2>6
<1> QED BY <1>7, <1>8, <1>9

LEMMA StartInSlotFacts ==
  ASSUME NEW S, Net(S), Lines(S), OneSends(S), S.type = "TDMA", Slots(S), S.slotcount # -1,
         S.sending # -1 => S.nextHit <= Finish(S, S.sending),
         NEW s, s = StartInSlot(S)
  PROVE  /\ Net(s) /\ Lines(s) /\ OneSends(s) /\ Slots(s)
         /\ Same(S, s, {"state", "sending", "nextHit"}) /\ s.nextHit <= S.nextHit
         /\ s.sending # -1 => s.nextHit <= Finish(s, s.sending)
         /\ \A i \in Node : s.state[i] = 0 /\ s.inputQ[i] # << >> => Owner(s) # i
<1> DEFINE i == Owner(S)
           r == [S EXCEPT !.state[i] = 1, !.sending = i]
<1>1. s = IF i = S.sending \/ (S.state[i] # 2 /\ S.inputQ[i] = << >>) THEN S
          ELSE Hit(r, {Finish(S, i)})
  BY DEF StartInSlot
<1>2. /\ IsNet(S) /\ S.state \in [Node -> 0 .. 3] /\ S.sending \in Node \cup {-1} /\ S.time \in Nat
      /\ S.slotcount \in Int /\ S.currslottime \in Int
  BY NetFacts
<1>3. i \in Node \cup {-1}
  <2>1. /\ Len(S.schedule) \in Nat \ {0}
        /\ \A k \in 1 .. Len(S.schedule) : S.schedule[k] \in Node \cup {-1}
    BY SlotFacts
  <2>2. S.slotcount + 1 \in 1 .. Len(S.schedule)
    BY <2>1 DEF Slots
  <2> QED BY <2>1, <2>2 DEF Owner
<1>4. i = S.sending \/ (S.sending = -1 /\ i \in Node)
  BY <1>3 DEF Slots
<1> HIDE DEF i
<1>5. CASE i = S.sending \/ (S.state[i] # 2 /\ S.inputQ[i] = << >>)
  <2>1. s = S
    BY <1>1, <1>5
  <2>2. Same(S, S, {"state", "sending", "nextHit"}) /\ S.nextHit <= S.nextHit
    <3>1. S.nextHit \in Nat
      BY NetFacts
    <3> QED BY <1>2, <3>1 DEF Same
  <2>3. ASSUME NEW j \in Node, S.state[j] = 0, S.inputQ[j] # << >>, Owner(S) = j PROVE FALSE
    <3>1. S.sending = j
      BY <1>5, <2>3 DEF i
    <3> QED BY <2>3, <3>1 DEF OneSends
  <2> QED BY <2>1, <2>2, <2>3
<1>6. CASE ~ (i = S.sending \/ (S.state[i] # 2 /\ S.inputQ[i] = << >>))
  <2>1. s = Hit(r, {Finish(S, i)}) /\ i \in Node /\ S.sending = -1
    BY <1>1, <1>4, <1>6
  <2>2. Same(S, r, {"state", "sending"}) /\ r.sending = i /\ r.state = [S.state EXCEPT ![i] = 1]
    BY <1>2 DEF Same, IsNet, Fields
  <2>3. /\ r.inputQ = S.inputQ /\ r.type = S.type /\ r.schedule = S.schedule /\ r.nextHit = S.nextHit
        /\ r.slotcount = S.slotcount /\ r.currslottime = S.currslottime /\ r.time = S.time
    BY <2>2 DEF Same, Fields
  <2> HIDE DEF r
  <2>4. r.state \in [Node -> 0 .. 3] /\ \A j \in Node : r.state[j] = IF j = i THEN 1 ELSE S.state[j]
    <3>1. 1 \in 0 .. 3
      OBVIOUS
    <3> QED BY <1>2, <2>2, <3>1, Zenon
  <2>5. S.inputQ[i] # << >>
    <3>1. CASE S.state[i] = 2
      BY <2>1, <3>1 DEF Lines, Line, Sends, Busy
    <3> QED BY <1>6, <3>1
  <2>6. Busy(MsgFrom(i), S.inputQ[i]) /\ Finish(S, i) \in Nat
    BY <2>1, <2>5, LineStarts
  <2>7. Net(r)
    <3>1. NewScalars(r, {"state", "sending"})
      BY <2>1, <2>2, <2>4 DEF NewScalars
    <3>2. {"state", "sending"} \cap QueueFields = {}
      BY DEF QueueFields
    <3> QED BY <2>2, <3>1, <3>2, NetAgain
  <2>8. Lines(r)
    <3>1. \A j \in Node \ {i} : Line(r, j)
      BY <2>3, <2>4 DEF Lines, Line, Sends
    <3>2. Line(r, i)
      BY <2>1, <2>3, <2>4, <2>6 DEF Line, Sends
    <3> QED BY <3>1, <3>2 DEF Lines
  <2>9. OneSends(r)
    <3>1. \A j \in Node : S.state[j] # 1
      BY <2>1, NodeFacts DEF OneSends
    <3> QED BY <2>2, <2>4, <3>1 DEF OneSends
  <2>10. /\ Net(s) /\ Same(r, s, {"nextHit"}) /\ s.nextHit <= r.nextHit /\ s.nextHit <= Finish(S, i)
         /\ s.inputQ = r.inputQ /\ s.sending = r.sending /\ s.time = r.time
         /\ s.schedule = r.schedule /\ s.slotcount = r.slotcount /\ s.currslottime = r.currslottime
         /\ s.type = r.type /\ Lines(s) /\ OneSends(s) /\ s.state = r.state
    <3>1. {Finish(S, i)} \in SUBSET Nat
      BY <2>6
    <3> QED BY <2>1, <2>7, <2>8, <2>9, <3>1, HitNet
  <2>11. Finish(s, i) = Finish(S, i)
    BY <2>3, <2>10 DEF Finish, RemXTime, Rate
  <2>12. Same(S, s, {"state", "sending", "nextHit"})
    BY <2>2, <2>10 DEF Same
  <2>13. Owner(s) = i
    BY <2>3, <2>10 DEF Owner, i
  <2>14. Slots(s)
    BY <2>2, <2>3, <2>10, <2>13 DEF Slots
  <2>15. s.state[i] = 1
    BY <2>1, <2>4, <2>10
  <2> QED BY <2>2, <2>3, <2>10, <2>11, <2>12, <2>13, <2>14, <2>15
<1> QED BY <1>5, <1>6

LEMMA TDMAFacts ==
  ASSUME NEW S, Net(S), Lines(S), OneSends(S), S.type = "TDMA", Slots(S), NEW e \in Nat,
         NEW s, s = TDMA(S, e)
  PROVE  /\ Net(s) /\ Lines(s) /\ OneSends(s) /\ Slots(s) /\ Timely(s)
         /\ Same(S, s, {"inputQ", "outputQ", "state", "sending", "nextHit", "slotcount", "currslottime"})
         /\ s.nextHit <= S.nextHit
         /\ Carries(NodesOf(S.state), S.time, S.inputQ, s.inputQ, S.outputQ, s.outputQ)
         /\ s.nextHit <= SlotEnd(s)
         /\ \A i \in Node : s.state[i] = 0 /\ s.inputQ[i] # << >> => Owner(s) # i
<1> DEFINE a == SendInSlot(S, e)
           b == NewSlot(a)
           r == StartInSlot(b)
           G == {"inputQ", "outputQ", "state", "sending", "nextHit", "slotcount", "currslottime"}
<1>1. s = Hit(r, {SlotEnd(r)}) /\ a = SendInSlot(S, e) /\ b = NewSlot(a) /\ r = StartInSlot(b)
  BY DEF TDMA
<1> HIDE DEF a, b, r
<1>2. /\ Net(a) /\ Lines(a) /\ OneSends(a)
      /\ Same(S, a, {"inputQ", "outputQ", "state", "sending", "nextHit"})
      /\ a.nextHit <= S.nextHit
      /\ Carries(NodesOf(S.state), S.time, S.inputQ, a.inputQ, S.outputQ, a.outputQ)
      /\ a.sending = -1 \/ a.sending = S.sending
      /\ a.sending # -1 => a.nextHit <= Finish(a, a.sending)
  BY <1>1, SendInSlotFacts
<1>3. /\ a.type = S.type /\ a.slotcount = S.slotcount /\ a.schedule = S.schedule
      /\ a.currslottime = S.currslottime
  BY <1>2 DEF Same, Fields
<1>4. Slots(a) /\ a.type = "TDMA"
  BY <1>2, <1>3 DEF Slots, Owner
<1>5. /\ Net(b) /\ Lines(b) /\ OneSends(b) /\ Slots(b)
      /\ Same(a, b, {"state", "sending", "slotcount", "currslottime"})
      /\ b.slotcount # -1
      /\ b.sending # -1 => b.nextHit <= Finish(b, b.sending)
  <2>1. /\ Net(a) /\ Lines(a) /\ OneSends(a)
        /\ a.sending # -1 => a.nextHit <= Finish(a, a.sending)
    BY <1>2
  <2>2. b = NewSlot(a)
    BY <1>1
  <2> QED BY <1>4, <2>1, <2>2, NewSlotFacts
<1>6. b.type = "TDMA" /\ b.nextHit = a.nextHit /\ b.inputQ = a.inputQ /\ b.outputQ = a.outputQ
  BY <1>4, <1>5 DEF Same, Fields
<1>7. /\ Net(r) /\ Lines(r) /\ OneSends(r) /\ Slots(r)
      /\ Same(b, r, {"state", "sending", "nextHit"}) /\ r.nextHit <= b.nextHit
      /\ r.sending # -1 => r.nextHit <= Finish(r, r.sending)
      /\ \A i \in Node : r.state[i] = 0 /\ r.inputQ[i] # << >> => Owner(r) # i
  <2>1. r = StartInSlot(b) /\ b.type = "TDMA"
    BY <1>1, <1>6
  <2> QED BY <1>5, <2>1, StartInSlotFacts
<1>8. r.inputQ = b.inputQ /\ r.outputQ = b.outputQ
  BY <1>7 DEF Same, Fields
<1>9. SlotEnd(r) \in Nat
  <2>1. SlotTime \in Nat \ {0} /\ r.currslottime \in Int
    BY <1>7, SlotFacts, NetFacts
  <2> QED BY <1>7, <2>1 DEF Slots, SlotEnd
<1>10. /\ Net(s) /\ Same(r, s, {"nextHit"}) /\ s.nextHit <= r.nextHit /\ s.nextHit <= SlotEnd(r)
       /\ s.inputQ = r.inputQ /\ s.outputQ = r.outputQ /\ s.sending = r.sending /\ s.time = r.time
       /\ s.schedule = r.schedule /\ s.slotcount = r.slotcount /\ s.currslottime = r.currslottime
       /\ s.type = r.type /\ Lines(s) /\ OneSends(s) /\ s.state = r.state
  <2>1. {SlotEnd(r)} \in SUBSET Nat
    BY <1>9
  <2>2. s = Hit(r, {SlotEnd(r)}) /\ Net(r) /\ Lines(r) /\ OneSends(r)
    BY <1>1, <1>7
  <2> QED BY <2>1, <2>2, HitNet
<1>11. s.nextHit \in Nat /\ r.nextHit \in Nat /\ b.nextHit \in Nat /\ a.nextHit \in Nat /\ S.nextHit \in Nat
  BY <1>2, <1>5, <1>7, <1>10, NetFacts
<1>12. Slots(s) /\ s.nextHit <= SlotEnd(s)
  BY <1>7, <1>10 DEF Slots, Owner, SlotEnd
<1>13. s.nextHit <= S.nextHit
  BY <1>2, <1>6, <1>7, <1>10, <1>11
<1>14. Timely(s)
  <2>1. ASSUME NEW i \in Node, s.state[i] = 1 PROVE s.nextHit <= Finish(s, i)
    <3>1. i = r.sending /\ i # -1 /\ r.inputQ[i] # << >>
      BY <1>7, <1>10, <2>1, NodeFacts DEF OneSends, Lines, Line, Sends, Busy
    <3>2. Finish(s, i) = Finish(r, i)
      BY <1>10 DEF Finish, RemXTime, Rate
    <3>3. Finish(r, i) \in Nat
      BY <1>7, <3>1, LineStarts
    <3> QED BY <1>7, <1>10, <1>11, <3>1, <3>2, <3>3
  <2> QED BY <2>1 DEF Timely
<1>15. Same(S, s, G)
  BY <1>2, <1>5, <1>7, <1>10 DEF Same
<1>16. \A i \in Node : s.state[i] = 0 /\ s.inputQ[i] # << >> => Owner(s) # i
  BY <1>7, <1>10 DEF Owner
<1>17. Carries(NodesOf(S.state), S.time, S.inputQ, s.inputQ, S.outputQ, s.outputQ)
  BY <1>2, <1>6, <1>8, <1>10
<1> QED BY <1>10, <1>12, <1>13, <1>14, <1>15, <1>16, <1>17

-----------------------------------------------------------------------------
(***************************************************************************)
(* FlexRay.                                                                *)
(***************************************************************************)
LEMMA SwappedFacts ==
  ASSUME NEW S, Net(S), NEW s, s = Swapped(S)
  PROVE  /\ Net(s) /\ Same(S, s, {"inputQ", "statinputQ"})
         /\ s.inputQ = S.statinputQ /\ s.statinputQ = S.inputQ
         /\ s.type = S.type /\ s.time = S.time /\ s.nextHit = S.nextHit /\ s.outputQ = S.outputQ
         /\ s.state = S.state /\ s.sending = S.sending /\ s.slotcount = S.slotcount
         /\ s.currslottime = S.currslottime /\ s.schedule = S.schedule
         /\ s.miniSlotCount = S.miniSlotCount /\ s.msgMiniSlots = S.msgMiniSlots
<1>1. IsNet(S) /\ Scalars(S) /\ Queues(S)
  BY DEF Net
<1>2. /\ Same(S, s, {"inputQ", "statinputQ"}) /\ s.inputQ = S.statinputQ /\ s.statinputQ = S.inputQ
  BY <1>1 DEF Same, IsNet, Fields, Swapped
<1>3. /\ s.type = S.type /\ s.time = S.time /\ s.nextHit = S.nextHit /\ s.outputQ = S.outputQ
      /\ s.state = S.state /\ s.sending = S.sending /\ s.slotcount = S.slotcount
      /\ s.currslottime = S.currslottime /\ s.schedule = S.schedule
      /\ s.miniSlotCount = S.miniSlotCount /\ s.msgMiniSlots = S.msgMiniSlots
      /\ s.preprocQ = S.preprocQ /\ s.statpreprocQ = S.statpreprocQ
      /\ s.switchQ = S.switchQ /\ s.postprocQ = S.postprocQ
  BY <1>2 DEF Same, Fields
<1>4. Queues(s)
  BY <1>1, <1>2, <1>3 DEF Queues
<1>5. Scalars(s)
  <2>1. NewScalars(s, {"inputQ", "statinputQ"})
    BY DEF NewScalars
  <2> QED BY <1>1, <1>2, <2>1, ScalarsAgain
<1> QED BY <1>2, <1>3, <1>4, <1>5 DEF Net, Same

LEMMA SwappedTwice ==
  ASSUME NEW S, IsNet(S)
  PROVE  Swapped(Swapped(S)) = S
  BY DEF Swapped, IsNet, Fields

\* The lines of the two segments
FlexLines(S) ==
  \A i \in Node :
    /\ IF i = S.sending /\ InStatic(S) THEN Busy(MsgFrom(i), S.statinputQ[i])
       ELSE Idle(MsgFrom(i), S.statinputQ[i])
    /\ IF i = S.sending /\ ~ InStatic(S) THEN Busy(MsgFrom(i), S.inputQ[i])
       ELSE Idle(MsgFrom(i), S.inputQ[i])

\* The frame of the static segment, which needed k units of time at the time
\* last, ends with its slot at the latest.
InSlotTime(S, last) ==
  /\ S.slotcount # -1 /\ Owner(S) = S.sending /\ S.currslottime >= 0
  /\ \E k \in Nat : /\ Head(S.statinputQ[S.sending]).remaining = Datarate * k
                    /\ last + k <= SlotEnd(S)

Segments(S, last) ==
  /\ S.slotcount \in -1 .. Len(S.schedule) /\ S.currslottime >= -SlotTime /\ S.miniSlotCount >= -1
  /\ S.sending # -1 \/ InStatic(S) => S.miniSlotCount < Len(DynSchedule)
  /\ S.sending # -1 /\ InStatic(S) => InSlotTime(S, last)
  /\ S.sending # -1 /\ ~ InStatic(S) => InDynamic(S)

Flex(S, last) ==
  /\ Net(S) /\ S.type = "FLEXRAY" /\ OneSends(S) /\ FlexLines(S) /\ Segments(S, last)

\* The wake-up for the end of the transmission
FlexTimely(S) ==
  S.sending # -1 => /\ InStatic(S) => S.nextHit <= Finish(Swapped(S), S.sending)
                    /\ ~ InStatic(S) => S.nextHit <= Finish(S, S.sending)

\* What goes through the medium in the segment
FlexCarries(S, s) ==
  IF InStatic(S)
  THEN /\ Carries(NodesOf(S.state), S.time, S.statinputQ, s.statinputQ, S.outputQ, s.outputQ)
       /\ s.inputQ = S.inputQ
  ELSE /\ Carries(NodesOf(S.state), S.time, S.inputQ, s.inputQ, S.outputQ, s.outputQ)
       /\ s.statinputQ = S.statinputQ

LEMMA FlexLinesFacts ==
  ASSUME NEW S, Net(S), S.type = "FLEXRAY", OneSends(S)
  PROVE  /\ FlexLines(S) /\ InStatic(S) <=>
              /\ InStatic(S) /\ Lines(Swapped(S))
              /\ \A i \in Node : Idle(MsgFrom(i), S.inputQ[i])
         /\ FlexLines(S) /\ ~ InStatic(S) <=>
              /\ ~ InStatic(S) /\ Lines(S)
              /\ \A i \in Node : Idle(MsgFrom(i), S.statinputQ[i])
<1>1. Swapped(S).inputQ = S.statinputQ /\ Swapped(S).type = S.type /\ Swapped(S).state = S.state
  BY SwappedFacts
<1>2. \A i \in Node : Sends(S, i) <=> i = S.sending
  BY DEF Sends, OneSends
<1>3. \A i \in Node : Sends(Swapped(S), i) <=> i = S.sending
  BY <1>1 DEF Sends, OneSends
<1> QED BY <1>1, <1>2, <1>3 DEF FlexLines, Lines, Line

\* Whole units of time
LEMMA UnitsLeft ==
  ASSUME NEW D \in Nat \ {0}, NEW k \in Int
  PROVE  (D * k) \div D = k /\ (D * k > 0 <=> k > 0)
  OBVIOUS

LEMMA UnitsSpent ==
  ASSUME NEW D \in Nat \ {0}, NEW k \in Int, NEW e \in Int
  PROVE  D * k - D * e = D * (k - e)
  OBVIOUS

LEMMA FrameUnits ==
  ASSUME NEW m \in Message
  PROVE  \E k \in Nat : Frame(m) = Datarate * k
<1>1. Datarate \in Nat \ {0} /\ Frame(m) \in Nat /\ Frame(m) % Datarate = 0
  BY FrameFacts
<1> DEFINE D == Datarate
           n == Frame(m)
<1>2. D \in Nat \ {0} /\ n \in Nat /\ n % D = 0
  BY <1>1
<1> HIDE DEF D, n
<1>3. n = D * (n \div D) /\ n \div D \in Nat
  <2>1. n = D * (n \div D) + (n % D)
    BY <1>2
  <2>2. n \div D \in Nat
    BY <1>2
  <2>3. D * (n \div D) \in Int
    BY <1>2, <2>2
  <2> QED BY <1>2, <2>1, <2>2, <2>3
<1> QED BY <1>3 DEF D, n

LEMMA SendStaticFacts ==
  ASSUME NEW S, NEW e \in Nat, Flex(S, S.time - e), S.sending # -1, InStatic(S),
         NEW s, s = SendStatic(S, e)
  PROVE  /\ Flex(s, s.time) /\ FlexTimely(s) /\ FlexCarries(S, s)
         /\ Same(S, s, {"statinputQ", "outputQ", "state", "sending", "nextHit"})
         /\ s.nextHit <= S.nextHit
<1> DEFINE i == S.sending
           W == Swapped(S)
           t == Transmit(W, e)
           a == Swapped(t)
           n == IF a.statinputQ[i] = << >> THEN 0 ELSE 2
           r == [a EXCEPT !.state[i] = n]
           times == IF S.time < SlotEnd(S) THEN {SlotEnd(S)} ELSE {}
           G == {"statinputQ", "outputQ", "state", "sending", "nextHit"}
<1>1. /\ s = IF a.sending # -1 THEN a ELSE Hit(r, times)
      /\ W = Swapped(S) /\ t = Transmit(W, e) /\ a = Swapped(t)
  BY DEF SendStatic
<1>2. /\ Net(S) /\ S.type = "FLEXRAY" /\ OneSends(S) /\ FlexLines(S) /\ Segments(S, S.time - e)
      /\ IsNet(S) /\ i \in Node /\ S.time \in Nat /\ S.nextHit \in Nat /\ S.currslottime \in Int
      /\ S.state \in [Node -> 0 .. 3]
  BY NetFacts DEF Flex
<1>20. n \in {0, 2} /\ r = [a EXCEPT !.state[i] = n]
  OBVIOUS
<1>21. i = S.sending
  OBVIOUS
<1> HIDE DEF W, t, a, n, r, i
<1>3. /\ Net(W) /\ Same(S, W, {"inputQ", "statinputQ"})
      /\ W.inputQ = S.statinputQ /\ W.statinputQ = S.inputQ /\ W.outputQ = S.outputQ
      /\ W.type = S.type /\ W.time = S.time /\ W.nextHit = S.nextHit /\ W.state = S.state /\ W.sending = S.sending
      /\ W.slotcount = S.slotcount /\ W.currslottime = S.currslottime /\ W.schedule = S.schedule
  BY <1>1, <1>2, SwappedFacts
<1>4. Lines(W) /\ \A j \in Node : Idle(MsgFrom(j), S.inputQ[j])
  BY <1>1, <1>2, FlexLinesFacts
<1>5. OneSends(W)
  BY <1>2, <1>3 DEF OneSends
<1>6. /\ Net(t) /\ Lines(t) /\ OneSends(t)
      /\ Same(W, t, {"inputQ", "outputQ", "state", "sending", "nextHit"})
      /\ t.nextHit <= W.nextHit
      /\ Carries(NodesOf(W.state), W.time, W.inputQ, t.inputQ, W.outputQ, t.outputQ)
      /\ t.sending = -1 \/ t.sending = W.sending
      /\ t.sending = -1 => t.state = [j \in Node |-> IF j = W.sending THEN 0 ELSE W.state[j]]
      /\ t.sending # -1 =>
           /\ t.state = W.state /\ t.nextHit <= Finish(t, t.sending)
           /\ Head(t.inputQ[t.sending]).remaining
                = Head(W.inputQ[t.sending]).remaining - Rate(W, t.sending) * e
  <2>1. Net(W) /\ t = Transmit(W, e)
    BY <1>1, <1>3
  <2> QED BY <1>4, <1>5, <2>1, TransmitFacts
<1>7. t.statinputQ = S.inputQ /\ t.type = S.type /\ t.slotcount = S.slotcount
  BY <1>3, <1>6 DEF Same, Fields
<1>8. /\ Net(a) /\ Same(t, a, {"inputQ", "statinputQ"})
      /\ a.inputQ = t.statinputQ /\ a.statinputQ = t.inputQ /\ a.outputQ = t.outputQ
      /\ a.type = t.type /\ a.time = t.time /\ a.nextHit = t.nextHit /\ a.state = t.state /\ a.sending = t.sending
      /\ a.slotcount = t.slotcount
  BY <1>1, <1>6, SwappedFacts
<1>9. Same(S, a, G)
  <2>1. \A f \in Fields \ {"inputQ", "statinputQ", "outputQ", "state", "sending", "nextHit"} : a[f] = S[f]
    BY <1>3, <1>6, <1>8 DEF Same
  <2> QED BY <1>7, <1>8, <2>1 DEF Same
<1>10. /\ a.schedule = S.schedule /\ a.slotcount = S.slotcount /\ a.currslottime = S.currslottime
       /\ a.time = S.time /\ a.miniSlotCount = S.miniSlotCount /\ a.inputQ = S.inputQ
       /\ a.type = S.type
  BY <1>9 DEF Same, Fields
<1>11. OneSends(a)
  BY <1>6, <1>8 DEF OneSends
<1>12. InStatic(a)
  BY <1>10 DEF InStatic
<1>13. Swapped(a) = t
  BY <1>1, <1>6, NetFacts, SwappedTwice
<1>14. FlexLines(a)
  BY <1>2, <1>4, <1>6, <1>8, <1>10, <1>11, <1>12, <1>13, FlexLinesFacts
<1>15. /\ S.slotcount \in -1 .. Len(S.schedule) /\ S.currslottime >= -SlotTime /\ S.miniSlotCount >= -1
       /\ S.miniSlotCount < Len(DynSchedule) /\ InSlotTime(S, S.time - e)
  BY <1>2 DEF Segments
<1>16. FlexCarries(S, a)
  BY <1>3, <1>6, <1>8, <1>10 DEF FlexCarries
<1>17. CASE a.sending # -1
  <2>1. s = a /\ a.sending = i
    BY <1>1, <1>3, <1>6, <1>8, <1>17, <1>21
  <2>2. PICK k \in Nat : /\ Head(S.statinputQ[S.sending]).remaining = Datarate * k
                         /\ (S.time - e) + k <= SlotEnd(S)
    BY <1>15 DEF InSlotTime
  <2>3. Head(a.statinputQ[i]).remaining = Datarate * k - Datarate * e
    BY <1>2, <1>3, <1>6, <1>8, <1>17, <1>21, <2>2 DEF Rate
  <2>4. Datarate \in Nat \ {0}
    BY FrameFacts
  <2>5. Head(a.statinputQ[i]).remaining = Datarate * (k - e)
    <3> DEFINE D == Datarate
    <3>1. D \in Nat \ {0} /\ k \in Int /\ e \in Int
      BY <2>4
    <3> HIDE DEF D
    <3>2. D * k - D * e = D * (k - e)
      BY <3>1, UnitsSpent
    <3> QED BY <2>3, <3>2 DEF D
  <2>6. Head(a.statinputQ[i]).remaining > 0
    <3>1. FlexLines(a) /\ i \in Node /\ i = a.sending /\ InStatic(a)
      BY <1>2, <1>12, <1>14, <2>1
    <3> QED BY <3>1 DEF FlexLines, Busy
  <2>7. k - e \in Nat
    BY <2>4, <2>5, <2>6, UnitsLeft
  <2>8. a.time + (k - e) <= SlotEnd(a)
    BY <1>2, <1>10, <2>2 DEF SlotEnd
  <2>9. InSlotTime(a, a.time)
    <3>1. Owner(a) = a.sending /\ a.slotcount # -1 /\ a.currslottime >= 0
      BY <1>10, <1>15, <1>21, <2>1 DEF InSlotTime, Owner
    <3> QED BY <2>1, <2>5, <2>7, <2>8, <3>1 DEF InSlotTime
  <2>10. Segments(a, a.time)
    BY <1>10, <1>12, <1>15, <2>9 DEF Segments
  <2>11. FlexTimely(a)
    BY <1>6, <1>8, <1>12, <1>13 DEF FlexTimely
  <2>12. Flex(a, a.time)
    BY <1>2, <1>8, <1>10, <1>11, <1>14, <2>10 DEF Flex
  <2> QED BY <1>3, <1>6, <1>8, <1>9, <1>16, <2>1, <2>11, <2>12
<1>18. CASE a.sending = -1
  <2>1. s = Hit(r, times)
    BY <1>1, <1>18
  <2>2. IsNet(a) /\ a.state \in [Node -> 0 .. 3]
    BY <1>8, NetFacts
  <2>3. Same(a, r, {"state"}) /\ r.state = [a.state EXCEPT ![i] = n]
    BY <1>20, <2>2 DEF Same, IsNet, Fields
  <2>4. /\ r.inputQ = a.inputQ /\ r.statinputQ = a.statinputQ /\ r.outputQ = a.outputQ /\ r.sending = -1
        /\ r.type = S.type /\ r.time = S.time /\ r.nextHit = a.nextHit
        /\ r.schedule = S.schedule /\ r.slotcount = S.slotcount /\ r.currslottime = S.currslottime
        /\ r.miniSlotCount = S.miniSlotCount
    BY <1>10, <1>18, <2>3 DEF Same, Fields
  <2>5. n \in 0 .. 3 /\ n # 1
    BY <1>20
  <2>6. r.state \in [Node -> 0 .. 3] /\ \A j \in Node : r.state[j] = IF j = i THEN n ELSE a.state[j]
    BY <2>2, <2>3, <2>5, Zenon
  <2>7. Net(r)
    <3>1. NewScalars(r, {"state"})
      BY <2>6 DEF NewScalars
    <3>2. {"state"} \cap QueueFields = {}
      BY DEF QueueFields
    <3>3. Net(a)
      BY <1>8
    <3> QED BY <2>3, <3>1, <3>2, <3>3, NetAgain
  <2>8. OneSends(r)
    <3>1. \A j \in Node : a.state[j] # 1
      BY <1>11, <1>18, NodeFacts DEF OneSends
    <3> QED BY <2>4, <2>5, <2>6, <3>1, NodeFacts DEF OneSends
  <2>9. times \in SUBSET Nat
    <3>1. SlotTime \in Nat
      BY SlotFacts
    <3> QED BY <1>2, <1>15, <3>1 DEF SlotEnd
  <2> HIDE DEF times
  <2>10. /\ Net(s) /\ Same(r, s, {"nextHit"}) /\ s.nextHit <= r.nextHit
         /\ s.type = r.type /\ s.schedule = r.schedule /\ s.time = r.time
         /\ s.inputQ = r.inputQ /\ s.statinputQ = r.statinputQ /\ s.outputQ = r.outputQ
         /\ s.sending = r.sending /\ s.slotcount = r.slotcount /\ s.currslottime = r.currslottime
         /\ s.miniSlotCount = r.miniSlotCount /\ OneSends(s)
    BY <2>1, <2>7, <2>8, <2>9, HitNet
  <2>11. FlexLines(s)
    <3>1. -1 \notin Node
      BY NodeFacts
    <3> QED BY <1>14, <1>18, <2>4, <2>10, <3>1 DEF FlexLines
  <2>12. Segments(s, s.time)
    BY <1>15, <2>4, <2>10 DEF Segments
  <2>13. Flex(s, s.time)
    BY <1>2, <2>4, <2>10, <2>11, <2>12 DEF Flex
  <2>14. FlexTimely(s)
    BY <2>4, <2>10 DEF FlexTimely
  <2>15. Same(S, s, G)
    BY <1>9, <2>3, <2>10 DEF Same
  <2>16. s.nextHit <= S.nextHit
    <3>1. s.nextHit \in Nat /\ a.nextHit \in Nat /\ S.nextHit \in Nat
      BY <1>2, <1>8, <2>10, NetFacts
    <3> QED BY <1>3, <1>6, <1>8, <2>4, <2>10, <3>1
  <2>17. FlexCarries(S, s)
    BY <1>16, <2>4, <2>10 DEF FlexCarries
  <2> QED BY <2>13, <2>14, <2>15, <2>16, <2>17
<1> QED BY <1>17, <1>18

LEMMA NobodySends ==
  ASSUME NEW S, FlexLines(S), S.sending = -1
  PROVE  \A i \in Node : Idle(MsgFrom(i), S.statinputQ[i]) /\ Idle(MsgFrom(i), S.inputQ[i])
  BY NodeFacts DEF FlexLines

\* Only the segment has changed.
LEMMA FlexAgain ==
  ASSUME NEW S, NEW last, Flex(S, last), NEW s, NEW F, Same(S, s, F), F \cap QueueFields = {},
         NewScalars(s, F), OneSends(s), FlexLines(s), Segments(s, last)
  PROVE  Flex(s, last)
<1>1. Net(S) /\ S.type = "FLEXRAY"
  BY DEF Flex
<1>2. Net(s)
  BY <1>1, NetAgain
<1>3. s.type = S.type
  BY DEF Same, Fields, NewScalars
<1> QED BY <1>1, <1>2, <1>3 DEF Flex

LEMMA SendDynamicFacts ==
  ASSUME NEW S, NEW e \in Nat, Flex(S, S.time - e), S.sending # -1, ~ InStatic(S),
         NEW s, s = SendDynamic(S, e)
  PROVE  /\ Flex(s, s.time) /\ FlexTimely(s) /\ FlexCarries(S, s)
         /\ Same(S, s, {"inputQ", "outputQ", "state", "sending", "nextHit", "miniSlotCount", "msgMiniSlots"})
         /\ s.nextHit <= S.nextHit
<1> DEFINE t == Transmit(S, e)
           r == [t EXCEPT !.miniSlotCount = @ + S.msgMiniSlots, !.msgMiniSlots = 0]
           G == {"inputQ", "outputQ", "state", "sending", "nextHit", "miniSlotCount", "msgMiniSlots"}
<1>1. /\ s = IF t.sending # -1 THEN t ELSE r
      /\ t = Transmit(S, e) /\ r = [t EXCEPT !.miniSlotCount = @ + S.msgMiniSlots, !.msgMiniSlots = 0]
  BY DEF SendDynamic
<1>2. /\ Net(S) /\ S.type = "FLEXRAY" /\ OneSends(S) /\ FlexLines(S) /\ Segments(S, S.time - e)
      /\ S.miniSlotCount \in Int /\ S.msgMiniSlots \in Nat
  BY NetFacts DEF Flex
<1> HIDE DEF t, r
<1>3. Lines(S) /\ \A j \in Node : Idle(MsgFrom(j), S.statinputQ[j])
  BY <1>2, FlexLinesFacts
<1>4. /\ Net(t) /\ Lines(t) /\ OneSends(t)
      /\ Same(S, t, {"inputQ", "outputQ", "state", "sending", "nextHit"})
      /\ t.nextHit <= S.nextHit
      /\ Carries(NodesOf(S.state), S.time, S.inputQ, t.inputQ, S.outputQ, t.outputQ)
      /\ t.sending = -1 \/ t.sending = S.sending
      /\ t.sending # -1 => t.nextHit <= Finish(t, t.sending)
  BY <1>1, <1>2, <1>3, TransmitFacts
<1>5. /\ t.statinputQ = S.statinputQ /\ t.type = S.type /\ t.slotcount = S.slotcount /\ t.schedule = S.schedule
      /\ t.miniSlotCount = S.miniSlotCount /\ t.currslottime = S.currslottime /\ IsNet(t)
      /\ t.time = S.time
  BY <1>4 DEF Same, Fields
<1>6. ~ InStatic(t)
  BY <1>5 DEF InStatic
<1>7. FlexLines(t)
  BY <1>2, <1>3, <1>4, <1>5, <1>6, FlexLinesFacts
<1>8. /\ S.slotcount \in -1 .. Len(S.schedule) /\ S.currslottime >= -SlotTime
      /\ S.miniSlotCount < Len(DynSchedule) /\ InDynamic(S) /\ S.miniSlotCount >= -1
  BY <1>2 DEF Segments
<1>14. InDynamic(t)
  BY <1>5, <1>6, <1>8 DEF InDynamic
<1>9. Segments(t, t.time)
  BY <1>5, <1>6, <1>8, <1>14 DEF Segments
<1>10. Flex(t, t.time)
  BY <1>2, <1>4, <1>5, <1>7, <1>9 DEF Flex
<1>11. FlexCarries(S, t)
  BY <1>4, <1>5 DEF FlexCarries
<1>12. CASE t.sending # -1
  <2>1. s = t
    BY <1>1, <1>12
  <2>2. FlexTimely(t)
    BY <1>4, <1>6 DEF FlexTimely
  <2>3. Same(S, t, G)
    BY <1>4 DEF Same
  <2> QED BY <1>4, <1>10, <1>11, <2>1, <2>2, <2>3
<1>13. CASE t.sending = -1
  <2>1. s = r
    BY <1>1, <1>13
  <2>2. /\ Same(t, r, {"miniSlotCount", "msgMiniSlots"}) /\ r.msgMiniSlots = 0
        /\ r.miniSlotCount = S.miniSlotCount + S.msgMiniSlots
    BY <1>1, <1>5 DEF Same, IsNet, Fields
  <2>3. /\ r.inputQ = t.inputQ /\ r.statinputQ = t.statinputQ /\ r.outputQ = t.outputQ /\ r.sending = -1
        /\ r.state = t.state /\ r.time = t.time /\ r.schedule = t.schedule /\ r.slotcount = t.slotcount
        /\ r.currslottime = t.currslottime /\ r.nextHit = t.nextHit
    BY <1>13, <2>2 DEF Same, Fields
  <2>4. r.miniSlotCount \in Nat
    BY <1>2, <1>8, <2>2 DEF InDynamic
  <2>5. NewScalars(r, {"miniSlotCount", "msgMiniSlots"})
    BY <2>2, <2>4 DEF NewScalars
  <2>6. {"miniSlotCount", "msgMiniSlots"} \cap QueueFields = {}
    BY DEF QueueFields
  <2>7. OneSends(r)
    BY <1>4, <1>13, <2>3 DEF OneSends
  <2>8. ~ InStatic(r)
    BY <1>6, <2>3 DEF InStatic
  <2>9. FlexLines(r)
    BY <1>7, <1>13, <2>3, NodeFacts DEF FlexLines
  <2>10. Segments(r, t.time)
    BY <1>5, <1>8, <2>3, <2>4, <2>8 DEF Segments
  <2>11. Flex(r, t.time)
    BY <1>10, <2>2, <2>5, <2>6, <2>7, <2>9, <2>10, FlexAgain
  <2>12. FlexTimely(r)
    BY <2>3 DEF FlexTimely
  <2>13. Same(S, r, G)
    BY <1>4, <2>2 DEF Same
  <2>14. FlexCarries(S, r)
    BY <1>11, <2>3 DEF FlexCarries
  <2> QED BY <1>4, <2>1, <2>3, <2>11, <2>12, <2>13, <2>14
<1> QED BY <1>12, <1>13

LEMMA SendFacts ==
  ASSUME NEW S, NEW e \in Nat, Flex(S, S.time - e), S.miniSlotCount < Len(DynSchedule),
         NEW s, s = Send(S, e)
  PROVE  /\ Flex(s, s.time) /\ FlexTimely(s) /\ FlexCarries(S, s)
         /\ Same(S, s, {"statinputQ", "inputQ", "outputQ", "state", "sending", "nextHit", "slotcount",
                        "miniSlotCount", "msgMiniSlots"})
         /\ s.nextHit <= S.nextHit
<1> DEFINE G == {"statinputQ", "inputQ", "outputQ", "state", "sending", "nextHit", "slotcount",
                        "miniSlotCount", "msgMiniSlots"}
<1>1. /\ Net(S) /\ S.type = "FLEXRAY" /\ OneSends(S) /\ FlexLines(S) /\ Segments(S, S.time - e)
      /\ IsNet(S) /\ S.nextHit \in Nat
      /\ S.inputQ \in [Node -> Seq(NWmsg)] /\ S.outputQ \in [Node -> Seq(NWmsg)] /\ S.time \in Nat
  BY NetFacts DEF Flex
<1>2. CASE S.sending # -1 /\ InStatic(S)
  <2>1. s = SendStatic(S, e)
    BY <1>1, <1>2 DEF Send, InDynamic
  <2>2. /\ Flex(s, s.time) /\ FlexTimely(s) /\ FlexCarries(S, s)
        /\ Same(S, s, {"statinputQ", "outputQ", "state", "sending", "nextHit"})
        /\ s.nextHit <= S.nextHit
    BY <1>2, <2>1, SendStaticFacts
  <2>3. Same(S, s, G)
    BY <2>2 DEF Same
  <2> QED BY <2>2, <2>3
<1>3. CASE S.sending # -1 /\ ~ InStatic(S)
  <2>1. InDynamic(S)
    BY <1>1, <1>3 DEF Segments
  <2>2. s = SendDynamic(S, e)
    BY <1>3, <2>1 DEF Send
  <2>3. /\ Flex(s, s.time) /\ FlexTimely(s) /\ FlexCarries(S, s)
        /\ Same(S, s, {"inputQ", "outputQ", "state", "sending", "nextHit", "miniSlotCount", "msgMiniSlots"})
        /\ s.nextHit <= S.nextHit
    BY <1>3, <2>2, SendDynamicFacts
  <2>4. Same(S, s, G)
    BY <2>3 DEF Same
  <2> QED BY <2>3, <2>4
<1>4. CASE S.sending = -1
  <2>1. s = EndIdle(S)
    BY <1>4 DEF Send
  <2>2. FlexCarries(S, S)
    <3>1. Carries(NodesOf(S.state), S.time, S.inputQ, S.inputQ, S.outputQ, S.outputQ)
      BY <1>1, CarriesNothing
    <3>2. Carries(NodesOf(S.state), S.time, S.statinputQ, S.statinputQ, S.outputQ, S.outputQ)
      BY <1>1, CarriesNothing
    <3> QED BY <3>1, <3>2 DEF FlexCarries
  <2>3. FlexTimely(S)
    BY <1>4 DEF FlexTimely
  <2>4. Segments(S, S.time)
    BY <1>1, <1>4 DEF Segments
  <2>5. Flex(S, S.time)
    BY <1>1, <2>4 DEF Flex
  <2>6. Same(S, S, G)
    BY <1>1 DEF Same
  <2>7. CASE s = S
    BY <1>1, <2>2, <2>3, <2>5, <2>6, <2>7
  <2>8. CASE s = [S EXCEPT !.slotcount = -1] /\ S.slotcount = Len(S.schedule)
    <3>1. Same(S, s, {"slotcount"}) /\ s.slotcount = -1
      BY <1>1, <2>8 DEF Same, IsNet, Fields
    <3>2. /\ s.inputQ = S.inputQ /\ s.statinputQ = S.statinputQ /\ s.outputQ = S.outputQ /\ s.sending = -1
          /\ s.state = S.state /\ s.time = S.time /\ s.schedule = S.schedule
          /\ s.currslottime = S.currslottime /\ s.nextHit = S.nextHit /\ s.miniSlotCount = S.miniSlotCount
      BY <1>4, <3>1 DEF Same, Fields
    <3>3. NewScalars(s, {"slotcount"}) /\ {"slotcount"} \cap QueueFields = {}
      BY <3>1 DEF NewScalars, QueueFields
    <3>4. OneSends(s)
      BY <1>1, <1>4, <3>2 DEF OneSends
    <3>5. FlexLines(s)
      BY <1>1, <1>4, <3>2, NodeFacts DEF FlexLines
    <3>6. /\ S.currslottime >= -SlotTime /\ S.miniSlotCount >= -1 /\ S.miniSlotCount < Len(DynSchedule)
          /\ Len(S.schedule) \in Nat
      BY <1>1, SlotFacts DEF Segments
    <3>7. Segments(s, S.time)
      BY <3>1, <3>2, <3>6 DEF Segments
    <3>8. Flex(s, S.time)
      BY <2>5, <3>1, <3>3, <3>4, <3>5, <3>7, FlexAgain
    <3>9. FlexTimely(s)
      BY <3>2 DEF FlexTimely
    <3>10. FlexCarries(S, s)
      BY <2>2, <3>2 DEF FlexCarries
    <3>11. Same(S, s, G)
      BY <3>1 DEF Same
    <3> QED BY <1>1, <3>2, <3>8, <3>9, <3>10, <3>11
  <2>9. s = S \/ (s = [S EXCEPT !.slotcount = -1] /\ S.slotcount = Len(S.schedule))
    BY <2>1 DEF EndIdle
  <2> QED BY <2>7, <2>8, <2>9
<1> QED BY <1>2, <1>3, <1>4

LEMMA FlexRayFactsOfConstants ==
  /\ Len(DynSchedule) \in Nat /\ \A k \in 1 .. Len(DynSchedule) : DynSchedule[k] \in Node
  /\ MiniSlotSize \in Nat \ {0} /\ NIT \div Datarate \in Nat
  /\ MiniSlot \in Nat \ {0} /\ MiniSlotSize = Datarate * MiniSlot
<1>1. DynSchedule \in Seq(Node) /\ MiniSlotSize \in Nat \ {0} /\ MiniSlotSize % Datarate = 0 /\ NIT \in Nat
  BY FlexRayAssumption
<1>2. Datarate \in Nat \ {0}
  BY FrameFacts
<1>3. Len(DynSchedule) \in Nat /\ \A k \in 1 .. Len(DynSchedule) : DynSchedule[k] \in Node
  BY <1>1
<1>4. NIT \div Datarate \in Nat
  BY <1>1, <1>2
<1> DEFINE D == Datarate
           n == MiniSlotSize
<1>5. D \in Nat \ {0} /\ n \in Nat \ {0} /\ n % D = 0
  BY <1>1, <1>2
<1> HIDE DEF D, n
<1>6. n = D * (n \div D) /\ n \div D \in Nat
  <2>1. n = D * (n \div D) + (n % D)
    BY <1>5
  <2>2. n \div D \in Nat
    BY <1>5
  <2>3. D * (n \div D) \in Int
    BY <1>5, <2>2
  <2> QED BY <1>5, <2>1, <2>2, <2>3
<1>7. n \div D # 0
  BY <1>5, <1>6
<1> QED BY <1>1, <1>3, <1>4, <1>6, <1>7 DEF D, n, MiniSlot

LEMMA NextSlotFacts ==
  ASSUME NEW S, Flex(S, S.time), InStatic(S), FlexTimely(S), NEW s, s = NextSlot(S)
  PROVE  /\ Flex(s, s.time) /\ FlexTimely(s) /\ s.currslottime >= 0
         /\ Same(S, s, {"slotcount", "currslottime", "miniSlotCount"})
<1> DEFINE c == IF S.currslottime < 0 THEN S.time - SlotTime ELSE S.currslottime
           a == [S EXCEPT !.currslottime = c]
           n == a.slotcount + 1
           m == IF n = Len(S.schedule) THEN 0 ELSE a.miniSlotCount
           next == [a EXCEPT !.slotcount = n, !.currslottime = SlotEnd(a), !.miniSlotCount = m]
           G == {"slotcount", "currslottime", "miniSlotCount"}
<1>1. /\ Net(S) /\ S.type = "FLEXRAY" /\ OneSends(S) /\ FlexLines(S) /\ Segments(S, S.time)
      /\ IsNet(S) /\ S.time \in Nat /\ S.currslottime \in Int /\ S.slotcount \in Int /\ S.miniSlotCount \in Int
      /\ S.sending \in Node \cup {-1}
  BY NetFacts DEF Flex
<1>2. Same(S, a, {"currslottime"}) /\ a.currslottime = c
  BY <1>1 DEF Same, IsNet, Fields
<1>3. a.slotcount = S.slotcount /\ a.miniSlotCount = S.miniSlotCount
  BY <1>2 DEF Same, Fields
<1>4. s = IF S.time < SlotEnd(a) THEN a
          ELSE IF S.sending # -1 /\ Owner(next) # S.sending
               THEN [next EXCEPT !.state[S.sending] = 2, !.sending = -1] ELSE next
  BY <1>1, <1>3 DEF NextSlot, IsNet, Fields
<1>13. next = [a EXCEPT !.slotcount = n, !.currslottime = SlotEnd(a), !.miniSlotCount = m]
  OBVIOUS
<1> HIDE DEF a, next, n, m
<1>5. Same(S, next, G) /\ next.slotcount = n /\ next.currslottime = SlotEnd(a) /\ next.miniSlotCount = m
  <2>1. IsNet(a)
    BY <1>2 DEF Same
  <2>2. Same(a, next, G) /\ next.slotcount = n /\ next.currslottime = SlotEnd(a) /\ next.miniSlotCount = m
    BY <1>13, <2>1 DEF Same, IsNet, Fields
  <2> QED BY <1>2, <2>2 DEF Same
<1> USE DEF n, m
<1>6. SlotTime \in Nat \ {0} /\ Len(S.schedule) \in Nat \ {0} /\ SlotEnd(a) = c + SlotTime
  BY <1>1, <1>2, SlotFacts DEF SlotEnd
<1>7. c \in Int /\ SlotEnd(a) \in Nat
  BY <1>1, <1>6
<1>8. /\ S.slotcount \in -1 .. Len(S.schedule) - 1 /\ S.currslottime >= -SlotTime
      /\ S.miniSlotCount >= -1 /\ S.miniSlotCount < Len(DynSchedule)
      /\ S.sending # -1 => InSlotTime(S, S.time)
  BY <1>1, <1>6 DEF Segments, InStatic
<1>9. CASE S.time < SlotEnd(a)
  <2>1. s = a
    BY <1>4, <1>9
  <2>2. S.currslottime >= 0 /\ a.currslottime = S.currslottime
    BY <1>1, <1>2, <1>6, <1>9
  <2>3. /\ a.inputQ = S.inputQ /\ a.statinputQ = S.statinputQ /\ a.sending = S.sending /\ a.state = S.state
        /\ a.time = S.time /\ a.schedule = S.schedule /\ a.nextHit = S.nextHit /\ a.type = S.type
    BY <1>2 DEF Same, Fields
  <2>4. InStatic(a) /\ Owner(a) = Owner(S) /\ SlotEnd(a) = SlotEnd(S)
    BY <1>3, <2>2, <2>3 DEF InStatic, Owner, SlotEnd
  <2>5. NewScalars(a, {"currslottime"}) /\ {"currslottime"} \cap QueueFields = {}
    BY <1>2, <1>7 DEF NewScalars, QueueFields
  <2>6. OneSends(a)
    BY <1>1, <2>3 DEF OneSends
  <2>7. FlexLines(a)
    BY <1>1, <2>3, <2>4 DEF FlexLines
  <2>8. InSlotTime(S, S.time) => InSlotTime(a, S.time)
    BY <1>3, <2>2, <2>3, <2>4 DEF InSlotTime
  <2>9. Segments(a, S.time)
    BY <1>3, <1>8, <2>2, <2>3, <2>4, <2>8, <1>6 DEF Segments
  <2>10. Flex(a, S.time)
    BY <1>2, <2>5, <2>6, <2>7, <2>9, FlexAgain
  <2>11. Finish(Swapped(a), a.sending) = Finish(Swapped(S), S.sending)
    <3>1. /\ Swapped(a).inputQ = a.statinputQ /\ Swapped(a).time = a.time /\ Swapped(a).type = a.type
      <4>1. Net(a)
        BY <2>10 DEF Flex
      <4> QED BY <4>1, SwappedFacts
    <3>2. /\ Swapped(S).inputQ = S.statinputQ /\ Swapped(S).time = S.time /\ Swapped(S).type = S.type
      BY <1>1, SwappedFacts
    <3> QED BY <2>3, <3>1, <3>2 DEF Finish, RemXTime, Rate
  <2>12. FlexTimely(a)
    BY <2>3, <2>4, <2>11 DEF FlexTimely
  <2>13. Same(S, a, G)
    BY <1>2 DEF Same
  <2> QED BY <2>1, <2>2, <2>3, <2>10, <2>12, <2>13
<1>10. CASE ~ (S.time < SlotEnd(a))
  <2>1. S.sending = -1
    <3> SUFFICES ASSUME S.sending # -1 PROVE FALSE
      OBVIOUS
    <3>1. S.currslottime >= 0 /\ S.sending \in Node
      BY <1>1, <1>8 DEF InSlotTime
    <3>2. PICK k \in Nat : /\ Head(S.statinputQ[S.sending]).remaining = Datarate * k
                           /\ S.time + k <= SlotEnd(S)
      BY <1>8 DEF InSlotTime
    <3>3. Head(S.statinputQ[S.sending]).remaining > 0
      BY <1>1, <3>1 DEF FlexLines, Busy
    <3>4. k > 0
      BY <3>2, <3>3, UnitsLeft, FrameFacts
    <3>5. SlotEnd(S) = SlotEnd(a)
      BY <1>1, <1>6, <3>1 DEF SlotEnd
    <3> QED BY <1>1, <1>7, <1>10, <3>2, <3>4, <3>5
  <2>2. s = next
    BY <1>4, <1>10, <2>1
  <2>3. /\ s.inputQ = S.inputQ /\ s.statinputQ = S.statinputQ /\ s.sending = -1 /\ s.state = S.state
        /\ s.time = S.time /\ s.schedule = S.schedule /\ s.nextHit = S.nextHit
    BY <1>5, <2>1, <2>2 DEF Same, Fields
  <2>4. n \in 0 .. Len(S.schedule) /\ n = S.slotcount + 1
    BY <1>3, <1>6, <1>8
  <2>5. m \in Int /\ m >= -1 /\ (n # Len(S.schedule) => m < Len(DynSchedule))
    BY <1>1, <1>3, <1>8
  <2> HIDE DEF n, m
  <2>6. NewScalars(s, G) /\ G \cap QueueFields = {}
    BY <1>5, <1>7, <2>2, <2>4, <2>5 DEF NewScalars, QueueFields
  <2>7. OneSends(s)
    BY <1>1, <2>1, <2>3 DEF OneSends
  <2>8. FlexLines(s)
    BY <1>1, <2>1, <2>3, NodeFacts DEF FlexLines
  <2>9. InStatic(s) => m < Len(DynSchedule)
    BY <1>5, <2>2, <2>3, <2>5 DEF InStatic
  <2>10. Segments(s, S.time)
    BY <1>5, <1>6, <1>7, <2>2, <2>3, <2>4, <2>5, <2>9 DEF Segments
  <2>11. Flex(s, S.time)
    BY <1>5, <2>2, <2>6, <2>7, <2>8, <2>10, FlexAgain
  <2>12. FlexTimely(s)
    BY <2>3 DEF FlexTimely
  <2> QED BY <1>5, <1>7, <2>2, <2>3, <2>11, <2>12
<1> QED BY <1>9, <1>10

LEMMA StaticEnd ==
  ASSUME NEW S, Net(S), S.type = "FLEXRAY", FlexLines(S), S.sending = -1, NEW i \in Node,
         S.statinputQ[i] # << >>
  PROVE  /\ Busy(MsgFrom(i), S.statinputQ[i]) /\ Finish(Swapped(S), i) \in Nat
         /\ \E k \in Nat : /\ Head(S.statinputQ[i]).remaining = Datarate * k
                           /\ Finish(Swapped(S), i) = S.time + k
<1>1. /\ Swapped(S).inputQ = S.statinputQ /\ Swapped(S).time = S.time /\ Swapped(S).type = S.type
  BY SwappedFacts
<1>2. Idle(MsgFrom(i), S.statinputQ[i])
  BY NobodySends
<1>3. MsgFrom(i) \subseteq NWmsg
  BY MsgFacts
<1>4. /\ Busy(MsgFrom(i), S.statinputQ[i]) /\ Head(S.statinputQ[i]) \in Whole(MsgFrom(i))
      /\ Head(S.statinputQ[i]).remaining = Frame(Head(S.statinputQ[i]).msg)
  BY <1>2, <1>3, IdleStarts
<1>5. Head(S.statinputQ[i]).msg \in Message
  BY <1>3, <1>4, MsgFacts
<1>6. PICK k \in Nat : Frame(Head(S.statinputQ[i]).msg) = Datarate * k
  BY <1>5, FrameUnits
<1>7. (Datarate * k) \div Datarate = k
  <2>1. Datarate \in Nat \ {0} /\ k \in Int
    BY FrameFacts
  <2> QED BY <2>1, UnitsLeft
<1>8. Finish(Swapped(S), i) = S.time + k
  BY <1>1, <1>4, <1>6, <1>7 DEF Finish, RemXTime, Rate
<1>9. S.time \in Nat
  BY NetFacts
<1> QED BY <1>4, <1>6, <1>8, <1>9

LEMMA StartStaticFacts ==
  ASSUME NEW S, Flex(S, S.time), FlexTimely(S), S.currslottime >= 0, NEW s, s = StartStatic(S)
  PROVE  /\ Flex(s, s.time) /\ FlexTimely(s)
         /\ Same(S, s, {"state", "sending", "nextHit"}) /\ s.nextHit <= S.nextHit
<1> DEFINE i == Owner(S)
           end == Finish(Swapped(S), i)
           a == [S EXCEPT !.state[i] = 1, !.sending = i]
           n == IF SlotEnd(S) < S.nextHit THEN 2 ELSE S.state[i]
           b == [S EXCEPT !.state[i] = n]
           G == {"state", "sending", "nextHit"}
<1>1. /\ Net(S) /\ S.type = "FLEXRAY" /\ OneSends(S) /\ FlexLines(S) /\ Segments(S, S.time)
      /\ IsNet(S) /\ S.time \in Nat /\ S.currslottime \in Int /\ S.slotcount \in Int /\ S.miniSlotCount \in Int
      /\ S.sending \in Node \cup {-1} /\ S.nextHit \in Nat /\ S.state \in [Node -> 0 .. 3]
  BY NetFacts DEF Flex
<1>2. s = IF ~InStatic(S) \/ S.slotcount = -1 \/ i = S.sending THEN S
          ELSE IF S.statinputQ[i] = << >> THEN Hit(S, {SlotEnd(S)})
          ELSE IF end <= SlotEnd(S) THEN Hit(a, {end})
          ELSE Hit(b, {SlotEnd(S)})
  BY <1>1 DEF StartStatic, IsNet, Fields
<1>3. SlotEnd(S) \in Nat
  BY <1>1, SlotFacts DEF SlotEnd
<1>4. CASE ~InStatic(S) \/ S.slotcount = -1 \/ i = S.sending
  <2>1. Same(S, S, G) /\ S.nextHit <= S.nextHit
    BY <1>1 DEF Same
  <2> QED BY <1>2, <1>4, <2>1
<1>5. CASE ~ (~InStatic(S) \/ S.slotcount = -1 \/ i = S.sending)
  <2>1. S.sending = -1
    BY <1>1, <1>5 DEF Segments, InSlotTime
  <2>2. i \in Node
    <3>1. /\ Len(S.schedule) \in Nat \ {0}
          /\ \A k \in 1 .. Len(S.schedule) : S.schedule[k] \in Node \cup {-1}
      BY <1>1, SlotFacts
    <3>2. S.slotcount + 1 \in 1 .. Len(S.schedule)
      BY <1>1, <1>5, <3>1 DEF Segments, InStatic
    <3> QED BY <1>5, <2>1, <3>1, <3>2 DEF Owner
  <2>20. /\ S.slotcount \in -1 .. Len(S.schedule) /\ S.miniSlotCount >= -1
         /\ S.miniSlotCount < Len(DynSchedule) /\ S.slotcount # -1 /\ InStatic(S)
    BY <1>1, <1>5 DEF Segments
  <2> HIDE DEF a, b
  <2>3. ASSUME NEW r, Net(r), Same(S, r, {"state"}), OneSends(r), NEW times \in SUBSET Nat, s = Hit(r, times)
        PROVE  /\ Flex(s, s.time) /\ FlexTimely(s) /\ Same(S, s, G) /\ s.nextHit <= S.nextHit
    <3>1. /\ r.inputQ = S.inputQ /\ r.statinputQ = S.statinputQ /\ r.sending = -1 /\ r.nextHit = S.nextHit
          /\ r.time = S.time /\ r.schedule = S.schedule /\ r.slotcount = S.slotcount /\ r.type = S.type
          /\ r.currslottime = S.currslottime /\ r.miniSlotCount = S.miniSlotCount
      BY <2>1, <2>3 DEF Same, Fields
    <3>2. /\ Net(s) /\ Same(r, s, {"nextHit"}) /\ s.nextHit <= r.nextHit
         /\ s.type = r.type /\ s.schedule = r.schedule /\ s.time = r.time
         /\ s.inputQ = r.inputQ /\ s.statinputQ = r.statinputQ
         /\ s.sending = r.sending /\ s.slotcount = r.slotcount /\ s.currslottime = r.currslottime
         /\ s.miniSlotCount = r.miniSlotCount /\ OneSends(s)
      BY <2>3, HitNet
    <3>3. FlexLines(s)
      BY <1>1, <2>1, <3>1, <3>2, NodeFacts DEF FlexLines
    <3>4. Segments(s, s.time)
      BY <1>1, <2>1, <3>1, <3>2 DEF Segments, InStatic
    <3>5. Flex(s, s.time)
      BY <1>1, <3>1, <3>2, <3>3, <3>4 DEF Flex
    <3>6. FlexTimely(s)
      BY <3>1, <3>2 DEF FlexTimely
    <3>7. Same(S, s, G)
      BY <2>3, <3>2 DEF Same
    <3> QED BY <3>1, <3>2, <3>5, <3>6, <3>7
  <2>4. CASE S.statinputQ[i] = << >>
    <3>1. s = Hit(S, {SlotEnd(S)}) /\ {SlotEnd(S)} \in SUBSET Nat
      BY <1>2, <1>3, <1>5, <2>4
    <3>2. Same(S, S, {"state"})
      BY <1>1 DEF Same
    <3> QED BY <1>1, <2>3, <3>1, <3>2
  <2>5. CASE S.statinputQ[i] # << >> /\ ~ (end <= SlotEnd(S))
    <3>1. s = Hit(b, {SlotEnd(S)}) /\ {SlotEnd(S)} \in SUBSET Nat
      BY <1>2, <1>3, <1>5, <2>5
    <3>2. Same(S, b, {"state"}) /\ b.state = [S.state EXCEPT ![i] = n]
      BY <1>1 DEF Same, IsNet, Fields, b
    <3>3. S.state[i] # 1
      BY <1>1, <2>1, <2>2, NodeFacts DEF OneSends
    <3>4. n \in 0 .. 3 /\ n # 1
      BY <1>1, <2>2, <3>3
    <3> HIDE DEF n
    <3>5. b.state \in [Node -> 0 .. 3] /\ \A j \in Node : b.state[j] = IF j = i THEN n ELSE S.state[j]
      BY <1>1, <3>2, <3>4, Zenon
    <3>6. Net(b)
      <4>1. NewScalars(b, {"state"}) /\ {"state"} \cap QueueFields = {}
        BY <3>5 DEF NewScalars, QueueFields
      <4> QED BY <1>1, <3>2, <4>1, NetAgain
    <3>7. b.sending = -1
      BY <2>1, <3>2 DEF Same, Fields
    <3>8. OneSends(b)
      <4>1. \A j \in Node : S.state[j] # 1
        BY <1>1, <2>1, NodeFacts DEF OneSends
      <4> QED BY <3>4, <3>5, <3>7, <4>1, NodeFacts DEF OneSends
    <3> HIDE DEF i
    <3> QED BY <2>3, <3>1, <3>2, <3>6, <3>8
  <2>6. CASE S.statinputQ[i] # << >> /\ end <= SlotEnd(S)
    <3>1. s = Hit(a, {end})
      BY <1>2, <1>5, <2>6
    <3>2. Same(S, a, {"state", "sending"}) /\ a.sending = i /\ a.state = [S.state EXCEPT ![i] = 1]
      BY <1>1 DEF Same, IsNet, Fields, a
    <3>3. /\ Busy(MsgFrom(i), S.statinputQ[i]) /\ end \in Nat
          /\ \E k \in Nat : /\ Head(S.statinputQ[i]).remaining = Datarate * k
                            /\ end = S.time + k
      BY <1>1, <2>1, <2>2, <2>6, StaticEnd
    <3>4. /\ a.inputQ = S.inputQ /\ a.statinputQ = S.statinputQ /\ a.nextHit = S.nextHit
          /\ a.time = S.time /\ a.schedule = S.schedule /\ a.slotcount = S.slotcount /\ a.type = S.type
          /\ a.currslottime = S.currslottime /\ a.miniSlotCount = S.miniSlotCount
      BY <3>2 DEF Same, Fields
    <3>5. a.state \in [Node -> 0 .. 3] /\ \A j \in Node : a.state[j] = IF j = i THEN 1 ELSE S.state[j]
      <4>1. 1 \in 0 .. 3
        OBVIOUS
      <4> QED BY <1>1, <3>2, <4>1, Zenon
    <3>6. Net(a)
      <4>1. NewScalars(a, {"state", "sending"}) /\ {"state", "sending"} \cap QueueFields = {}
        BY <2>2, <3>2, <3>5 DEF NewScalars, QueueFields
      <4> QED BY <1>1, <3>2, <4>1, NetAgain
    <3>7. OneSends(a)
      <4>1. \A j \in Node : S.state[j] # 1
        BY <1>1, <2>1, NodeFacts DEF OneSends
      <4> QED BY <3>2, <3>5, <4>1 DEF OneSends
    <3>8. /\ Net(s) /\ Same(a, s, {"nextHit"}) /\ s.nextHit <= a.nextHit /\ s.nextHit <= end
         /\ s.type = a.type /\ s.schedule = a.schedule /\ s.time = a.time
         /\ s.inputQ = a.inputQ /\ s.statinputQ = a.statinputQ
         /\ s.sending = a.sending /\ s.slotcount = a.slotcount /\ s.currslottime = a.currslottime
         /\ s.miniSlotCount = a.miniSlotCount /\ OneSends(s)
      <4>1. {end} \in SUBSET Nat
        BY <3>3
      <4> HIDE DEF end
      <4> QED BY <3>1, <3>6, <3>7, <4>1, HitNet
    <3>9. InStatic(s) /\ Owner(s) = s.sending /\ SlotEnd(s) = SlotEnd(S) /\ s.sending = i /\ s.sending # -1
      BY <2>2, <2>20, <3>2, <3>4, <3>8, NodeFacts DEF InStatic, Owner, SlotEnd
    <3>10. FlexLines(s)
      <4>1. ASSUME NEW j \in Node
            PROVE  Idle(MsgFrom(j), S.statinputQ[j]) /\ Idle(MsgFrom(j), S.inputQ[j])
        BY <1>1, <2>1, NobodySends
      <4> QED BY <3>3, <3>4, <3>8, <3>9, <4>1 DEF FlexLines
    <3>11. InSlotTime(s, s.time)
      BY <2>6, <2>20, <3>3, <3>4, <3>8, <3>9 DEF InSlotTime
    <3>12. Segments(s, s.time)
      <4>1. s.currslottime >= -SlotTime
        BY <1>1, <3>4, <3>8 DEF Segments
      <4> QED BY <2>20, <3>4, <3>8, <3>9, <3>11, <4>1 DEF Segments
    <3>13. Flex(s, s.time)
      BY <1>1, <3>4, <3>8, <3>10, <3>12 DEF Flex
    <3>14. Finish(Swapped(s), i) = end
      <4>1. /\ Swapped(s).inputQ = s.statinputQ /\ Swapped(s).time = s.time /\ Swapped(s).type = s.type
        BY <3>8, SwappedFacts
      <4>2. /\ Swapped(S).inputQ = S.statinputQ /\ Swapped(S).time = S.time /\ Swapped(S).type = S.type
        BY <1>1, SwappedFacts
      <4> QED BY <3>4, <3>8, <4>1, <4>2 DEF Finish, RemXTime, Rate
    <3>15. FlexTimely(s)
      BY <3>8, <3>9, <3>14 DEF FlexTimely
    <3>16. Same(S, s, G)
      BY <3>2, <3>8 DEF Same
    <3> QED BY <3>4, <3>8, <3>13, <3>15, <3>16
  <2> QED BY <2>4, <2>5, <2>6
<1> QED BY <1>4, <1>5

\* t units of time, as whole minislots
Minislots(t) == ((t + MiniSlot - 1) \div MiniSlot) * MiniSlot

\* The wake-up for the end of the minislots of the transmission
FlexDue(S) ==
  S.sending # -1 => /\ InStatic(S) => S.nextHit <= Finish(Swapped(S), S.sending)
                    /\ ~ InStatic(S) => S.nextHit <= S.time + Minislots(RemXTime(S, S.sending))

LEMMA Quotient ==
  ASSUME NEW b \in Nat \ {0}, NEW q \in Int, NEW r \in 0 .. b - 1
  PROVE  (b * q + r) \div b = q
  OBVIOUS

LEMMA CeilingFacts ==
  ASSUME NEW D \in Nat \ {0}, NEW M \in Nat \ {0}, NEW k \in Nat
  PROVE  (D * k + D * M - 1) \div (D * M) = (k + M - 1) \div M
<1> DEFINE n == k + M - 1
           q == n \div M
           r == n % M
<1>1. n \in Nat
  OBVIOUS
<1> HIDE DEF n
<1>2. q \in Nat /\ r \in 0 .. M - 1 /\ n = M * q + r
  BY <1>1
<1> HIDE DEF q, r
<1>3. D * k + D * M - 1 = D * n + (D - 1)
  <2>1. D * n = D * k + D * M - D
    BY DEF n
  <2>2. D * k \in Int /\ D * M \in Int
    OBVIOUS
  <2> QED BY <2>1, <2>2
<1>4. D * n = (D * M) * q + D * r
  <2>1. D * n = D * (M * q + r)
    BY <1>2
  <2>2. D * (M * q + r) = (D * M) * q + D * r
    BY <1>2
  <2> QED BY <2>1, <2>2
<1>5. D * M \in Nat \ {0} /\ D * r + (D - 1) \in 0 .. (D * M) - 1
  <2>1. D * M \in Nat \ {0} /\ D * r \in Nat
    BY <1>2
  <2>2. D * r <= D * (M - 1)
    <3>1. r \in Nat /\ M - 1 \in Nat /\ r <= M - 1
      BY <1>2
    <3> QED BY <3>1
  <2>3. D * (M - 1) = D * M - D
    OBVIOUS
  <2> QED BY <2>1, <2>2, <2>3
<1> DEFINE b == D * M
           c == D * r + (D - 1)
<1>6. b \in Nat \ {0} /\ c \in 0 .. b - 1 /\ q \in Int
  BY <1>2, <1>5
<1>7. D * k + D * M - 1 = b * q + c
  <2>1. b * q \in Int /\ D * r \in Int /\ D * n = b * q + D * r
    BY <1>2, <1>4
  <2> QED BY <1>3, <2>1
<1> HIDE DEF b, c
<1>8. (b * q + c) \div b = q
  BY <1>6, Quotient
<1>9. (D * k + D * M - 1) \div b = q
  BY <1>7, <1>8
<1> QED BY <1>9 DEF b, q, n

LEMMA MinislotsFacts ==
  ASSUME NEW t \in Nat
  PROVE  Minislots(t) \in Nat /\ t <= Minislots(t)
<1> DEFINE M == MiniSlot
           n == t + M - 1
           q == n \div M
           r == n % M
<1>1. M \in Nat \ {0}
  BY FlexRayFactsOfConstants
<1>2. Minislots(t) = q * M
  BY DEF Minislots
<1> HIDE DEF M
<1>3. n \in Nat
  BY <1>1
<1>4. q \in Nat /\ r \in 0 .. M - 1 /\ n = M * q + r
  <2> HIDE DEF n
  <2> QED BY <1>1, <1>3
<1> HIDE DEF q, r
<1>5. q * M \in Nat /\ q * M = M * q
  BY <1>1, <1>4
<1> QED BY <1>1, <1>2, <1>4, <1>5

LEMMA StartDynamicFacts ==
  ASSUME NEW S, Flex(S, S.time), InDynamic(S), NEW s, s = StartDynamic(S)
  PROVE  /\ Flex(s, s.time) /\ FlexDue(s) /\ s.nextHit <= S.nextHit
         /\ Same(S, s, {"state", "sending", "nextHit", "miniSlotCount", "msgMiniSlots"})
<1> DEFINE i == DynSchedule[S.miniSlotCount + 1]
           bits == Head(S.inputQ[i]).remaining
           slots == (bits + MiniSlotSize - 1) \div MiniSlotSize
           skipped(st) == [S EXCEPT !.state[i] = st, !.miniSlotCount = @ + 1]
           a == [S EXCEPT !.state[i] = 1, !.sending = i, !.msgMiniSlots = slots]
           G == {"state", "sending", "nextHit", "miniSlotCount", "msgMiniSlots"}
<1>1. /\ Net(S) /\ S.type = "FLEXRAY" /\ OneSends(S) /\ FlexLines(S) /\ Segments(S, S.time)
      /\ IsNet(S) /\ S.time \in Nat /\ S.currslottime \in Int /\ S.slotcount \in Int /\ S.miniSlotCount \in Int
      /\ S.sending \in Node \cup {-1} /\ S.nextHit \in Nat /\ S.state \in [Node -> 0 .. 3]
  BY NetFacts DEF Flex
<1>2. s = IF S.sending # -1 THEN Hit(S, {Finish(S, S.sending)})
          ELSE IF S.inputQ[i] = << >> THEN Hit(skipped(0), {S.time + MiniSlot})
          ELSE IF bits > (Len(DynSchedule) - S.miniSlotCount) * MiniSlotSize
               THEN Hit(skipped(2), {S.time + MiniSlot})
          ELSE Hit(a, {S.time + slots * MiniSlot})
  BY DEF StartDynamic
<1>3. ~ InStatic(S) /\ S.miniSlotCount \in 0 .. Len(DynSchedule) - 1
  BY <1>1, FlexRayFactsOfConstants DEF InDynamic
<1>4. i \in Node
  <2>1. S.miniSlotCount + 1 \in 1 .. Len(DynSchedule)
    BY <1>3, FlexRayFactsOfConstants
  <2> QED BY <2>1, FlexRayFactsOfConstants
<1>5. MiniSlot \in Nat \ {0} /\ MiniSlotSize = Datarate * MiniSlot /\ Datarate \in Nat \ {0}
  BY FlexRayFactsOfConstants, FrameFacts
<1>6. S.slotcount \in -1 .. Len(S.schedule) /\ S.currslottime >= -SlotTime
  BY <1>1 DEF Segments
<1>20. i = DynSchedule[S.miniSlotCount + 1]
  OBVIOUS
<1> HIDE DEF i, a
<1>7. CASE S.sending # -1
  <2>1. s = Hit(S, {Finish(S, S.sending)}) /\ S.sending \in Node
    BY <1>1, <1>2, <1>7
  <2>2. Lines(S)
    BY <1>1, <1>3, FlexLinesFacts
  <2>3. S.inputQ[S.sending] # << >>
    BY <1>1, <1>3, <2>1 DEF FlexLines, Busy
  <2>4. RemXTime(S, S.sending) \in Nat /\ Finish(S, S.sending) \in Nat
    BY <1>1, <2>1, <2>2, <2>3, LineStarts
  <2>5. /\ Net(s) /\ Same(S, s, {"nextHit"}) /\ s.nextHit <= S.nextHit /\ s.nextHit <= Finish(S, S.sending)
        /\ s.type = S.type /\ s.schedule = S.schedule /\ s.time = S.time
        /\ s.inputQ = S.inputQ /\ s.statinputQ = S.statinputQ
        /\ s.sending = S.sending /\ s.slotcount = S.slotcount /\ s.currslottime = S.currslottime
        /\ s.miniSlotCount = S.miniSlotCount /\ OneSends(s)
    <3>1. {Finish(S, S.sending)} \in SUBSET Nat
      BY <2>4
    <3> QED BY <1>1, <2>1, <3>1, HitNet
  <2>6. ~ InStatic(s) /\ InDynamic(s)
    BY <1>3, <2>5 DEF InStatic, InDynamic
  <2>7. FlexLines(s)
    BY <1>1, <1>3, <2>5, <2>6 DEF FlexLines
  <2>8. Segments(s, s.time)
    BY <1>3, <1>6, <2>5, <2>6 DEF Segments
  <2>9. Flex(s, s.time)
    BY <1>1, <2>5, <2>7, <2>8 DEF Flex
  <2>10. FlexDue(s)
    <3>1. RemXTime(s, s.sending) = RemXTime(S, S.sending)
      BY <2>5 DEF RemXTime, Rate
    <3> DEFINE x == RemXTime(S, S.sending)
    <3>2. x \in Nat /\ Finish(S, S.sending) = S.time + x
      BY <2>4 DEF Finish
    <3> HIDE DEF x
    <3>3. Minislots(x) \in Nat /\ x <= Minislots(x)
      BY <3>2, MinislotsFacts
    <3>4. s.nextHit \in Nat
      BY <2>5, NetFacts
    <3>5. s.nextHit <= s.time + Minislots(x)
      BY <1>1, <2>5, <3>2, <3>3, <3>4
    <3> QED BY <2>6, <3>1, <3>5 DEF FlexDue, x
  <2>11. Same(S, s, G)
    BY <2>5 DEF Same
  <2> QED BY <2>5, <2>9, <2>10, <2>11
<1>8. ASSUME S.sending = -1, NEW st \in {0, 2}, s = Hit(skipped(st), {S.time + MiniSlot})
      PROVE  /\ Flex(s, s.time) /\ FlexDue(s) /\ s.nextHit <= S.nextHit /\ Same(S, s, G)
  <2> DEFINE r == skipped(st)
  <2>1. /\ Same(S, r, {"state", "miniSlotCount"}) /\ r.state = [S.state EXCEPT ![i] = st]
        /\ r.miniSlotCount = S.miniSlotCount + 1
    BY <1>1 DEF Same, IsNet, Fields
  <2>2. s = Hit(r, {S.time + MiniSlot})
    BY <1>8
  <2> HIDE DEF r
  <2>3. /\ r.inputQ = S.inputQ /\ r.statinputQ = S.statinputQ /\ r.nextHit = S.nextHit
        /\ r.time = S.time /\ r.schedule = S.schedule /\ r.slotcount = S.slotcount /\ r.type = S.type
        /\ r.currslottime = S.currslottime /\ r.sending = -1
    BY <1>8, <2>1 DEF Same, Fields
  <2>4. st \in 0 .. 3 /\ st # 1
    OBVIOUS
  <2>5. r.state \in [Node -> 0 .. 3] /\ \A j \in Node : r.state[j] = IF j = i THEN st ELSE S.state[j]
    BY <1>1, <2>1, <2>4, Zenon
  <2>6. Net(r)
    <3>1. NewScalars(r, {"state", "miniSlotCount"}) /\ {"state", "miniSlotCount"} \cap QueueFields = {}
      BY <1>1, <2>1, <2>5 DEF NewScalars, QueueFields
    <3> QED BY <1>1, <2>1, <3>1, NetAgain
  <2>7. OneSends(r)
    <3>1. \A j \in Node : S.state[j] # 1
      BY <1>1, <1>8, NodeFacts DEF OneSends
    <3> QED BY <2>3, <2>4, <2>5, <3>1, NodeFacts DEF OneSends
  <2>8. /\ Net(s) /\ Same(r, s, {"nextHit"}) /\ s.nextHit <= r.nextHit
        /\ s.type = r.type /\ s.schedule = r.schedule /\ s.time = r.time
        /\ s.inputQ = r.inputQ /\ s.statinputQ = r.statinputQ
        /\ s.sending = r.sending /\ s.slotcount = r.slotcount /\ s.currslottime = r.currslottime
        /\ s.miniSlotCount = r.miniSlotCount /\ OneSends(s)
    <3>1. {S.time + MiniSlot} \in SUBSET Nat
      BY <1>1, <1>5
    <3> QED BY <2>2, <2>6, <2>7, <3>1, HitNet
  <2>9. FlexLines(s)
    BY <1>1, <1>8, <2>3, <2>8, NodeFacts DEF FlexLines
  <2>10. Segments(s, s.time)
    <3>1. ~ InStatic(s)
      BY <1>3, <2>3, <2>8 DEF InStatic
    <3> QED BY <1>3, <1>6, <2>1, <2>3, <2>8, <3>1 DEF Segments
  <2>11. Flex(s, s.time)
    BY <1>1, <2>3, <2>8, <2>9, <2>10 DEF Flex
  <2>12. FlexDue(s)
    BY <2>3, <2>8 DEF FlexDue
  <2>13. Same(S, s, G)
    BY <2>1, <2>8 DEF Same
  <2> QED BY <2>3, <2>8, <2>11, <2>12, <2>13
<1>9. CASE S.sending = -1 /\ s = Hit(skipped(0), {S.time + MiniSlot})
  BY <1>8, <1>9
<1>10. CASE S.sending = -1 /\ s = Hit(skipped(2), {S.time + MiniSlot})
  BY <1>8, <1>10
<1>11. CASE S.sending = -1 /\ S.inputQ[i] # << >> /\ s = Hit(a, {S.time + slots * MiniSlot})
  <2>1. /\ Idle(MsgFrom(i), S.inputQ[i])
        /\ \A j \in Node : Idle(MsgFrom(j), S.statinputQ[j]) /\ Idle(MsgFrom(j), S.inputQ[j])
    BY <1>1, <1>4, <1>11, NobodySends
  <2>2. MsgFrom(i) \subseteq NWmsg
    BY MsgFacts
  <2>3. /\ Busy(MsgFrom(i), S.inputQ[i]) /\ Head(S.inputQ[i]) \in Whole(MsgFrom(i))
        /\ bits = Frame(Head(S.inputQ[i]).msg)
    BY <1>11, <2>1, <2>2, IdleStarts
  <2>4. Head(S.inputQ[i]).msg \in Message
    BY <2>2, <2>3, MsgFacts
  <2>5. PICK k \in Nat : bits = Datarate * k
    BY <2>3, <2>4, FrameUnits
  <2>6. slots = (k + MiniSlot - 1) \div MiniSlot
    <3> DEFINE D == Datarate
               M == MiniSlot
    <3>1. D \in Nat \ {0} /\ M \in Nat \ {0}
      BY <1>5
    <3>2. slots = (D * k + D * M - 1) \div (D * M)
      BY <1>5, <2>5
    <3> HIDE DEF D, M, slots
    <3>3. slots = (k + M - 1) \div M
      BY <3>1, <3>2, CeilingFacts
    <3> QED BY <3>3 DEF M
  <2>7. slots \in Nat /\ slots * MiniSlot = Minislots(k) /\ Minislots(k) \in Nat
    <3>1. slots \in Nat
      BY <1>5, <2>6
    <3> QED BY <2>6, <3>1, MinislotsFacts DEF Minislots
  <2>20. a = [S EXCEPT !.state[i] = 1, !.sending = i, !.msgMiniSlots = slots]
    BY DEF a
  <2>21. s = Hit(a, {S.time + Minislots(k)})
    BY <1>11, <2>7
  <2> HIDE DEF slots, bits
  <2>8. /\ Same(S, a, {"state", "sending", "msgMiniSlots"}) /\ a.sending = i
        /\ a.state = [S.state EXCEPT ![i] = 1] /\ a.msgMiniSlots = slots
    BY <1>1, <2>20 DEF Same, IsNet, Fields
  <2>9. /\ a.inputQ = S.inputQ /\ a.statinputQ = S.statinputQ /\ a.nextHit = S.nextHit
        /\ a.time = S.time /\ a.schedule = S.schedule /\ a.slotcount = S.slotcount /\ a.type = S.type
        /\ a.currslottime = S.currslottime /\ a.miniSlotCount = S.miniSlotCount
    BY <2>8 DEF Same, Fields
  <2>10. a.state \in [Node -> 0 .. 3] /\ \A j \in Node : a.state[j] = IF j = i THEN 1 ELSE S.state[j]
    <3>1. 1 \in 0 .. 3
      OBVIOUS
    <3> QED BY <1>1, <2>8, <3>1, Zenon
  <2>11. Net(a)
    <3> DEFINE F == {"state", "sending", "msgMiniSlots"}
    <3>1. NewScalars(a, F) /\ F \cap QueueFields = {}
      BY <1>4, <2>7, <2>8, <2>10 DEF NewScalars, QueueFields
    <3> QED BY <1>1, <2>8, <3>1, NetAgain
  <2>12. OneSends(a)
    <3>1. \A j \in Node : S.state[j] # 1
      BY <1>1, <1>11, NodeFacts DEF OneSends
    <3> QED BY <2>8, <2>10, <3>1 DEF OneSends
  <2>13. /\ Net(s) /\ Same(a, s, {"nextHit"}) /\ s.nextHit <= a.nextHit /\ s.nextHit <= S.time + Minislots(k)
        /\ s.type = a.type /\ s.schedule = a.schedule /\ s.time = a.time
        /\ s.inputQ = a.inputQ /\ s.statinputQ = a.statinputQ
        /\ s.sending = a.sending /\ s.slotcount = a.slotcount /\ s.currslottime = a.currslottime
        /\ s.miniSlotCount = a.miniSlotCount /\ OneSends(s)
    <3> DEFINE x == S.time + Minislots(k)
    <3>1. {x} \in SUBSET Nat /\ s = Hit(a, {x})
      BY <1>1, <2>7, <2>21
    <3> HIDE DEF x
    <3>2. /\ Net(s) /\ Same(a, s, {"nextHit"}) /\ s.nextHit <= a.nextHit /\ \A t \in {x} : s.nextHit <= t
          /\ s.type = a.type /\ s.schedule = a.schedule /\ s.time = a.time
          /\ s.inputQ = a.inputQ /\ s.statinputQ = a.statinputQ
          /\ s.sending = a.sending /\ s.slotcount = a.slotcount /\ s.currslottime = a.currslottime
          /\ s.miniSlotCount = a.miniSlotCount /\ OneSends(s)
      BY <2>11, <2>12, <3>1, HitNet
    <3> QED BY <3>2 DEF x
  <2>14. ~ InStatic(s) /\ InDynamic(s) /\ s.sending = i
    BY <1>3, <2>8, <2>9, <2>13 DEF InStatic, InDynamic
  <2>15. FlexLines(s)
    BY <2>1, <2>3, <2>9, <2>13, <2>14 DEF FlexLines
  <2>16. Segments(s, s.time)
    BY <1>3, <1>6, <2>9, <2>13, <2>14 DEF Segments
  <2>17. Flex(s, s.time)
    BY <1>1, <2>9, <2>13, <2>15, <2>16 DEF Flex
  <2>18. FlexDue(s)
    <3>1. RemXTime(s, i) = bits \div Datarate
      BY <1>1, <2>9, <2>13 DEF RemXTime, Rate, bits
    <3>2. bits \div Datarate = k
      BY <1>5, <2>5, UnitsLeft
    <3> QED BY <2>9, <2>13, <2>14, <3>1, <3>2 DEF FlexDue
  <2>19. Same(S, s, G)
    BY <2>8, <2>13 DEF Same
  <2> QED BY <2>9, <2>13, <2>17, <2>18, <2>19
<1>12. \/ S.sending # -1
       \/ S.sending = -1 /\ s = Hit(skipped(0), {S.time + MiniSlot})
       \/ S.sending = -1 /\ s = Hit(skipped(2), {S.time + MiniSlot})
       \/ S.sending = -1 /\ S.inputQ[i] # << >> /\ s = Hit(a, {S.time + slots * MiniSlot})
  BY <1>2
<1> QED BY <1>7, <1>9, <1>10, <1>11, <1>12

LEMMA StartIdleFacts ==
  ASSUME NEW S, Flex(S, S.time), FlexDue(S), NEW s, s = StartIdle(S)
  PROVE  /\ Flex(s, s.time) /\ FlexDue(s) /\ s.nextHit <= S.nextHit
         /\ Same(S, s, {"nextHit", "miniSlotCount", "idleUntil", "currslottime"})
         /\ s.miniSlotCount < Len(DynSchedule)
<1> DEFINE until == S.time + NIT \div Datarate
           a == [S EXCEPT !.miniSlotCount = -1, !.idleUntil = until, !.currslottime = -SlotTime]
           G == {"nextHit", "miniSlotCount", "idleUntil", "currslottime"}
<1>1. /\ Net(S) /\ S.type = "FLEXRAY" /\ OneSends(S) /\ FlexLines(S) /\ Segments(S, S.time)
      /\ IsNet(S) /\ S.time \in Nat /\ S.miniSlotCount \in Int /\ S.nextHit \in Nat
  BY NetFacts DEF Flex
<1>2. s = IF S.miniSlotCount < Len(DynSchedule) THEN S ELSE Hit(a, {until})
  BY DEF StartIdle
<1>3. until \in Nat /\ Len(DynSchedule) \in Nat /\ SlotTime \in Nat
  BY <1>1, FlexRayFactsOfConstants, SlotFacts
<1> HIDE DEF a, until
<1>4. CASE S.miniSlotCount < Len(DynSchedule)
  <2>1. Same(S, S, G)
    BY <1>1 DEF Same
  <2> QED BY <1>1, <1>2, <1>4, <2>1
<1>5. CASE ~ (S.miniSlotCount < Len(DynSchedule))
  <2>1. s = Hit(a, {until}) /\ {until} \in SUBSET Nat
    BY <1>2, <1>3, <1>5
  <2>2. S.sending = -1 /\ ~ InStatic(S) /\ S.slotcount \in -1 .. Len(S.schedule)
    BY <1>1, <1>5 DEF Segments
  <2> DEFINE F == {"miniSlotCount", "idleUntil", "currslottime"}
  <2>3. /\ Same(S, a, F) /\ a.miniSlotCount = -1 /\ a.idleUntil = until /\ a.currslottime = -SlotTime
    BY <1>1 DEF Same, IsNet, Fields, a
  <2>4. /\ a.inputQ = S.inputQ /\ a.statinputQ = S.statinputQ /\ a.nextHit = S.nextHit
        /\ a.time = S.time /\ a.schedule = S.schedule /\ a.slotcount = S.slotcount /\ a.type = S.type
        /\ a.sending = -1 /\ a.state = S.state
    BY <2>2, <2>3 DEF Same, Fields
  <2>5. Net(a)
    <3>1. NewScalars(a, F) /\ F \cap QueueFields = {}
      BY <1>3, <2>3 DEF NewScalars, QueueFields
    <3> QED BY <1>1, <2>3, <3>1, NetAgain
  <2>6. OneSends(a)
    BY <1>1, <2>2, <2>4 DEF OneSends
  <2>7. /\ Net(s) /\ Same(a, s, {"nextHit"}) /\ s.nextHit <= a.nextHit
        /\ s.type = a.type /\ s.schedule = a.schedule /\ s.time = a.time
        /\ s.inputQ = a.inputQ /\ s.statinputQ = a.statinputQ
        /\ s.sending = a.sending /\ s.slotcount = a.slotcount /\ s.currslottime = a.currslottime
        /\ s.miniSlotCount = a.miniSlotCount /\ OneSends(s)
    BY <2>1, <2>5, <2>6, HitNet
  <2>8. FlexLines(s)
    BY <1>1, <2>2, <2>4, <2>7, NodeFacts DEF FlexLines
  <2>9. Segments(s, s.time) /\ s.miniSlotCount < Len(DynSchedule)
    BY <1>3, <2>2, <2>3, <2>4, <2>7 DEF Segments
  <2>10. Flex(s, s.time)
    BY <1>1, <2>4, <2>7, <2>8, <2>9 DEF Flex
  <2>11. FlexDue(s)
    BY <2>4, <2>7 DEF FlexDue
  <2>12. Same(S, s, G)
    BY <2>3, <2>7 DEF Same
  <2> QED BY <2>4, <2>7, <2>9, <2>10, <2>11, <2>12
<1> QED BY <1>4, <1>5

FlexFields == {"statinputQ", "inputQ", "outputQ", "state", "sending", "nextHit", "slotcount",
               "currslottime", "miniSlotCount", "msgMiniSlots", "idleUntil"}

LEMMA FlexRayFacts ==
  ASSUME NEW S, NEW e \in Nat, Flex(S, S.time - e), S.miniSlotCount < Len(DynSchedule),
         NEW s, s = FlexRay(S, e)
  PROVE  /\ Flex(s, s.time) /\ FlexDue(s) /\ FlexCarries(S, s) /\ Same(S, s, FlexFields)
         /\ s.nextHit <= S.nextHit /\ s.miniSlotCount < Len(DynSchedule)
<1> DEFINE a == Send(S, e)
           n == NextSlot(a)
           b == IF InStatic(a) THEN StartStatic(n) ELSE a
           c == IF InDynamic(b) THEN StartDynamic(b) ELSE b
<1>1. s = StartIdle(c) /\ a = Send(S, e) /\ n = NextSlot(a)
  BY DEF FlexRay
<1>2. (InStatic(a) => b = StartStatic(n)) /\ (~ InStatic(a) => b = a)
  OBVIOUS
<1>3. (InDynamic(b) => c = StartDynamic(b)) /\ (~ InDynamic(b) => c = b)
  OBVIOUS
<1> HIDE DEF a, n, b, c
<1>4. /\ Flex(a, a.time) /\ FlexTimely(a) /\ FlexCarries(S, a)
      /\ Same(S, a, {"statinputQ", "inputQ", "outputQ", "state", "sending", "nextHit", "slotcount",
                        "miniSlotCount", "msgMiniSlots"})
      /\ a.nextHit <= S.nextHit
  BY <1>1, SendFacts
<1>20. IsNet(a) /\ a.nextHit \in Nat
  BY <1>4, NetFacts DEF Flex
<1>5. /\ Flex(b, b.time) /\ FlexTimely(b)
      /\ Same(a, b, {"slotcount", "currslottime", "miniSlotCount", "state", "sending", "nextHit"})
      /\ b.nextHit <= a.nextHit
  <2>1. CASE InStatic(a)
    <3>1. /\ Flex(n, n.time) /\ FlexTimely(n) /\ n.currslottime >= 0
          /\ Same(a, n, {"slotcount", "currslottime", "miniSlotCount"})
      BY <1>1, <1>4, <2>1, NextSlotFacts
    <3>2. /\ Flex(b, b.time) /\ FlexTimely(b)
          /\ Same(n, b, {"state", "sending", "nextHit"}) /\ b.nextHit <= n.nextHit
      BY <1>2, <2>1, <3>1, StartStaticFacts
    <3>3. n.nextHit = a.nextHit
      BY <3>1 DEF Same, Fields
    <3>4. Same(a, b, {"slotcount", "currslottime", "miniSlotCount", "state", "sending", "nextHit"})
      BY <3>1, <3>2 DEF Same
    <3> QED BY <3>2, <3>3, <3>4
  <2>2. CASE ~ InStatic(a)
    <3>1. b = a
      BY <1>2, <2>2
    <3>2. Same(a, a, {"slotcount", "currslottime", "miniSlotCount", "state", "sending", "nextHit"})
      BY <1>20 DEF Same
    <3>3. a.nextHit <= a.nextHit
      BY <1>20
    <3> QED BY <1>4, <3>1, <3>2, <3>3
  <2> QED BY <2>1, <2>2
<1>21. IsNet(b) /\ b.nextHit \in Nat
  BY <1>5, NetFacts DEF Flex
<1>6. /\ Flex(c, c.time) /\ FlexDue(c) /\ c.nextHit <= b.nextHit
      /\ Same(b, c, {"state", "sending", "nextHit", "miniSlotCount", "msgMiniSlots"})
  <2>1. CASE InDynamic(b)
    <3>1. c = StartDynamic(b)
      BY <1>3, <2>1
    <3> QED BY <1>5, <2>1, <3>1, StartDynamicFacts
  <2>2. CASE ~ InDynamic(b)
    <3>1. c = b
      BY <1>3, <2>2
    <3>2. b.sending # -1 => InStatic(b)
      BY <1>5, <2>2 DEF Flex, Segments
    <3>3. FlexDue(b)
      BY <1>5, <3>2 DEF FlexTimely, FlexDue
    <3>4. Same(b, b, {"state", "sending", "nextHit", "miniSlotCount", "msgMiniSlots"}) /\ b.nextHit <= b.nextHit
      BY <1>21 DEF Same
    <3> QED BY <1>5, <3>1, <3>3, <3>4
  <2> QED BY <2>1, <2>2
<1>22. IsNet(c) /\ c.nextHit \in Nat
  BY <1>6, NetFacts DEF Flex
<1>7. /\ Flex(s, s.time) /\ FlexDue(s) /\ s.nextHit <= c.nextHit
      /\ Same(c, s, {"nextHit", "miniSlotCount", "idleUntil", "currslottime"})
      /\ s.miniSlotCount < Len(DynSchedule)
  BY <1>1, <1>6, StartIdleFacts
<1>8. Same(S, s, FlexFields)
  BY <1>4, <1>5, <1>6, <1>7 DEF Same, FlexFields
<1>9. s.nextHit <= S.nextHit
  <2>1. s.nextHit \in Nat /\ c.nextHit \in Nat /\ S.nextHit \in Nat
    BY <1>6, <1>7, NetFacts DEF Flex
  <2> QED BY <1>4, <1>5, <1>6, <1>7, <1>20, <1>21, <2>1
<1>10. s.inputQ = a.inputQ /\ s.statinputQ = a.statinputQ /\ s.outputQ = a.outputQ
  BY <1>5, <1>6, <1>7 DEF Same, Fields
<1>11. FlexCarries(S, s)
  BY <1>4, <1>10 DEF FlexCarries
<1> QED BY <1>7, <1>8, <1>9, <1>11

-----------------------------------------------------------------------------
(***************************************************************************)
(* The switch.                                                             *)
(***************************************************************************)
\* Only the lines of the nodes B have lost a frame, and one at most.
LoseOne(B, in, in2) == \A i \in Node : Len(in2[i]) >= Len(in[i]) - (IF i \in B THEN 1 ELSE 0)

\* What output r of the switch sends and what waits there
Output(S, r) == IF S.swstate[r] = 1 THEN Busy(MsgTo(r), S.switchQ[r]) ELSE Idle(MsgTo(r), S.switchQ[r])
Outputs(S)   == \A r \in Node : Output(S, r)

\* What can become of the frame that node i has been sending
Stays(S, s, i) ==
  /\ ~ Sent(S, i) /\ Same(S, s, {"nextHit"}) /\ s.nextHit <= S.nextHit /\ s.nextHit <= Finish(S, i)

Starts(S, s, i, F) ==
  /\ Sent(S, i) /\ Same(S, s, F) /\ s.state = [S.state EXCEPT ![i] = 0]

Goes(S, s, i) ==
  /\ Starts(S, s, i, {"state", "inputQ", "switchQ", "switchmem", "nodemem"})
  /\ s.inputQ = [S.inputQ EXCEPT ![i] = Tail(S.inputQ[i])]
  /\ HasMemory(S, Head(S.inputQ[i]).msg)
  /\ s.switchmem = TakeMemory(S, Head(S.inputQ[i]).msg).switchmem
  /\ s.nodemem = TakeMemory(S, Head(S.inputQ[i]).msg).nodemem
  /\ s.switchQ \in [Node -> Seq(NWmsg)]
  /\ \A r \in Receivers(Head(S.inputQ[i]).msg) :
       \E x \in Whole(MsgTo(r)) :
         /\ x.msg = Head(S.inputQ[i]).msg /\ s.switchQ[r] = Append(S.switchQ[r], x)
         /\ x.waituntil = IF Receiver[x.msg] = -1 THEN S.time + Postdelay[r] ELSE Head(S.inputQ[i]).waituntil
  /\ \A r \in Node \ Receivers(Head(S.inputQ[i]).msg) : s.switchQ[r] = S.switchQ[r]

Again(S, s, i) ==
  /\ Starts(S, s, i, {"state", "inputQ"})
  /\ s.inputQ = [S.inputQ EXCEPT ![i] = s.inputQ[i]]
  /\ Idle(MsgFrom(i), s.inputQ[i]) /\ Msgs(s.inputQ[i]) = Msgs(S.inputQ[i])
  /\ \E x \in NWmsg : s.inputQ[i] = <<x>> \o Tail(S.inputQ[i]) /\ x.waituntil = Head(S.inputQ[i]).waituntil

Drops(S, s, i) ==
  /\ Starts(S, s, i, {"state", "inputQ"})
  /\ s.inputQ = [S.inputQ EXCEPT ![i] = Tail(S.inputQ[i])]
  /\ S.overflow # "BUFFULLRETRY"

\* Node i sends, and has perhaps sent, its first frame.
MayForward(S, i) ==
  /\ Net(S) /\ S.type = "SFDSE" /\ i \in Node /\ S.state[i] = 1
  /\ S.inputQ[i] # << >> /\ Tail(S.inputQ[i]) \in Seq(Whole(MsgFrom(i)))

LEMMA HeadFacts ==
  ASSUME NEW S, NEW i, MayForward(S, i)
  PROVE  /\ Head(S.inputQ[i]) \in MsgFrom(i) /\ Head(S.inputQ[i]) \in NWmsg
         /\ Head(S.inputQ[i]).msg \in Message /\ Sender[Head(S.inputQ[i]).msg] = i
         /\ S.inputQ[i] \in Seq(MsgFrom(i)) /\ S.inputQ[i] \in Seq(NWmsg)
<1>1. S.inputQ[i] \in Seq(MsgFrom(i)) /\ S.inputQ[i] # << >> /\ S.inputQ[i] \in Seq(NWmsg)
  BY NetFacts DEF MayForward, Queues
<1>2. Head(S.inputQ[i]) \in MsgFrom(i)
  BY <1>1, HeadAndTail
<1> QED BY <1>1, <1>2, MsgFacts DEF MsgFrom

LEMMA ToSwitchCases ==
  ASSUME NEW S, NEW i, MayForward(S, i), NEW s, s = ToSwitch(S, i)
  PROVE  Stays(S, s, i) \/ Goes(S, s, i) \/ Again(S, s, i) \/ Drops(S, s, i)
<1> DEFINE h == Head(S.inputQ[i])
           m == h.msg
           whole == [h EXCEPT !.remaining = Frame(m)]
           copy(r) == IF Receiver[m] = -1 THEN [whole EXCEPT !.waituntil = S.time + Postdelay[r]]
                      ELSE whole
           idle == [S EXCEPT !.state[i] = 0, !.inputQ[i] = Tail(@)]
           took == TakeMemory(idle, m)
           sw == [r \in Node |-> IF r \in Receivers(m) THEN Append(took.switchQ[r], copy(r)) ELSE took.switchQ[r]]
<1>1. s = IF ~Sent(S, i) THEN Hit(S, {Finish(S, i)})
          ELSE IF HasMemory(S, m)
               THEN [took EXCEPT !.switchQ = sw]
          ELSE IF S.overflow = "BUFFULLRETRY"
               THEN [idle EXCEPT !.inputQ[i] = <<whole>> \o Tail(S.inputQ[i])]
               ELSE idle
  BY DEF ToSwitch
<1>2. /\ Net(S) /\ IsNet(S) /\ i \in Node /\ S.state \in [Node -> 0 .. 3] /\ S.time \in Nat
      /\ S.inputQ \in [Node -> Seq(NWmsg)] /\ S.switchQ \in [Node -> Seq(NWmsg)]
      /\ S.type \in Kinds
  BY NetFacts DEF MayForward
<1>3. /\ h \in MsgFrom(i) /\ h \in NWmsg /\ m \in Message /\ Sender[m] = i
      /\ S.inputQ[i] \in Seq(MsgFrom(i)) /\ S.inputQ[i] # << >>
      /\ Tail(S.inputQ[i]) \in Seq(Whole(MsgFrom(i)))
  BY HeadFacts DEF MayForward
<1>4. /\ Frame(m) \in Int
      /\ \A r \in Node : S.time + Postdelay[r] \in Nat
  BY <1>2, <1>3, FrameFacts, NodeFacts
<1>5. /\ Same(S, idle, {"state", "inputQ"}) /\ idle.state = [S.state EXCEPT ![i] = 0]
      /\ idle.inputQ = [S.inputQ EXCEPT ![i] = Tail(S.inputQ[i])]
  BY <1>2 DEF Same, IsNet, Fields
<1>50. idle.inputQ[i] = Tail(S.inputQ[i])
  BY <1>2, <1>5
<1>6. /\ whole \in MsgFrom(i) /\ whole \in NWmsg /\ whole.msg = m /\ whole.remaining = Frame(m)
      /\ whole.waituntil = h.waituntil
  <2> HIDE DEF h, m
  <2>1. /\ whole \in MsgFrom(i) /\ whole.msg = h.msg /\ whole.remaining = Frame(m)
        /\ whole.waituntil = h.waituntil
    BY <1>3, <1>4, FramesFacts, OtherRemaining
  <2> QED BY <2>1, MsgFacts DEF m
<1>7. CASE ~ Sent(S, i)
  <2>1. s = Hit(S, {Finish(S, i)})
    BY <1>1, <1>7
  <2>2. Busy(MsgFrom(i), S.inputQ[i])
    <3>1. h.remaining \in Int
      BY <1>3, MsgFacts
    <3> QED BY <1>3, <1>7, <3>1 DEF Busy, Sent
  <2>3. Finish(S, i) \in Nat
    <3>1. MsgFrom(i) \in SUBSET NWmsg
      BY MsgFacts
    <3> QED BY <1>2, <2>2, <3>1, RemXTimeFacts
  <2>4. {Finish(S, i)} \in SUBSET Nat
    BY <2>3
  <2>5. /\ Same(S, s, {"nextHit"}) /\ s.nextHit <= S.nextHit /\ \A t \in {Finish(S, i)} : s.nextHit <= t
    BY <1>2, <2>1, <2>4, HitNet
  <2> QED BY <1>7, <2>5 DEF Stays
<1>8. CASE Sent(S, i) /\ HasMemory(S, m)
  <2>1. s = [took EXCEPT !.switchQ = sw]
    BY <1>1, <1>8
  <2>20. took = TakeMemory(idle, m)
    OBVIOUS
  <2> HIDE DEF idle, took
  <2>2. /\ Same(idle, took, {"switchmem", "nodemem"})
        /\ took.switchmem = TakeMemory(S, m).switchmem /\ took.nodemem = TakeMemory(S, m).nodemem
    <3>1. IsNet(idle) /\ idle.buftype = S.buftype /\ idle.switchmem = S.switchmem /\ idle.nodemem = S.nodemem
      BY <1>5 DEF Same, Fields
    <3> HIDE DEF m
    <3> QED BY <1>2, <2>20, <3>1 DEF TakeMemory, Same, IsNet, Fields
  <2>3. took.switchQ = S.switchQ /\ IsNet(took)
    BY <1>5, <2>2 DEF Same, Fields
  <2>21. sw = [r \in Node |-> IF r \in Receivers(m) THEN Append(S.switchQ[r], copy(r)) ELSE S.switchQ[r]]
    BY <2>3
  <2> HIDE DEF sw
  <2>4. Same(took, s, {"switchQ"}) /\ s.switchQ = sw
    BY <2>1, <2>3 DEF Same, IsNet, Fields
  <2>5. /\ s.state = idle.state /\ s.inputQ = idle.inputQ
        /\ s.switchmem = TakeMemory(S, m).switchmem /\ s.nodemem = TakeMemory(S, m).nodemem
    BY <2>2, <2>4 DEF Same, Fields
  <2>6. Same(S, s, {"state", "inputQ", "switchQ", "switchmem", "nodemem"})
    BY <1>5, <2>2, <2>4 DEF Same
  <2>7. ASSUME NEW r \in Receivers(m)
        PROVE  /\ r \in Node /\ copy(r) \in Whole(MsgTo(r)) /\ copy(r).msg = m /\ copy(r) \in NWmsg
               /\ copy(r).waituntil = IF Receiver[m] = -1 THEN S.time + Postdelay[r] ELSE h.waituntil
    <3>1. r \in Node
      BY <1>3, NodeFacts
    <3> HIDE DEF h, m, whole
    <3>2. CASE Receiver[m] = -1
      <4>1. S.time + Postdelay[r] \in Nat
        BY <1>4, <3>1
      <4>2. copy(r) = [whole EXCEPT !.waituntil = S.time + Postdelay[r]]
        BY <3>2
      <4>3. /\ copy(r) \in NWmsg /\ copy(r).msg = whole.msg /\ copy(r).waituntil = S.time + Postdelay[r]
            /\ copy(r).remaining = whole.remaining
        <5> DEFINE w == S.time + Postdelay[r]
        <5>1. w \in Nat /\ copy(r) = [whole EXCEPT !.waituntil = w] /\ whole \in NWmsg
          BY <1>6, <4>1, <4>2
        <5> HIDE DEF w, copy
        <5>2. /\ copy(r) \in NWmsg /\ copy(r).msg = whole.msg /\ copy(r).waituntil = w
              /\ copy(r).remaining = whole.remaining
          BY <5>1, MsgWaits
        <5> QED BY <5>2 DEF w
      <4> HIDE DEF copy
      <4> QED BY <1>6, <3>1, <3>2, <4>3 DEF MsgTo, Whole
    <3>3. CASE Receiver[m] # -1
      <4>1. copy(r) = whole
        BY <3>3
      <4> HIDE DEF copy
      <4> QED BY <1>6, <3>1, <3>3, <4>1 DEF MsgTo, Whole
    <3> QED BY <3>2, <3>3
  <2> HIDE DEF copy, m, whole
  <2>8. s.switchQ \in [Node -> Seq(NWmsg)]
    <3>1. \A r \in Node : sw[r] \in Seq(NWmsg)
      <4> TAKE r \in Node
      <4>1. CASE r \in Receivers(m)
        <5>1. copy(r) \in NWmsg /\ S.switchQ[r] \in Seq(NWmsg) /\ sw[r] = Append(S.switchQ[r], copy(r))
          BY <1>2, <2>7, <2>21, <4>1
        <5> QED BY <5>1, AppendProperties
      <4>2. CASE r \notin Receivers(m)
        BY <1>2, <2>21, <4>2
      <4> QED BY <4>1, <4>2
    <3> QED BY <2>4, <2>21, <3>1
  <2>9. \A r \in Receivers(m) : s.switchQ[r] = Append(S.switchQ[r], copy(r))
    BY <2>4, <2>7, <2>21
  <2>10. \A r \in Node \ Receivers(m) : s.switchQ[r] = S.switchQ[r]
    BY <2>4, <2>21
  <2>11. \A r \in Receivers(m) :
           \E x \in Whole(MsgTo(r)) :
             /\ x.msg = m /\ s.switchQ[r] = Append(S.switchQ[r], x)
             /\ x.waituntil = IF Receiver[x.msg] = -1 THEN S.time + Postdelay[r] ELSE h.waituntil
    <3> SUFFICES ASSUME NEW r \in Receivers(m)
                 PROVE  \E x \in Whole(MsgTo(r)) :
                          /\ x.msg = m /\ s.switchQ[r] = Append(S.switchQ[r], x)
                          /\ x.waituntil = IF Receiver[x.msg] = -1 THEN S.time + Postdelay[r] ELSE h.waituntil
      OBVIOUS
    <3>1. /\ copy(r) \in Whole(MsgTo(r)) /\ copy(r).msg = m
          /\ copy(r).waituntil = IF Receiver[copy(r).msg] = -1 THEN S.time + Postdelay[r] ELSE h.waituntil
      BY <2>7
    <3>2. s.switchQ[r] = Append(S.switchQ[r], copy(r))
      BY <2>9
    <3> QED BY <3>1, <3>2
  <2> QED BY <1>5, <1>8, <2>5, <2>6, <2>8, <2>10, <2>11 DEF Goes, Starts, m
<1>9. CASE Sent(S, i) /\ ~ HasMemory(S, m) /\ S.overflow = "BUFFULLRETRY"
  <2> DEFINE q == <<whole>> \o Tail(S.inputQ[i])
  <2>1. s = [idle EXCEPT !.inputQ[i] = q]
    BY <1>1, <1>9
  <2>2. /\ Idle(MsgFrom(i), q) /\ Msgs(q) = Msgs(S.inputQ[i])
    <3>1. NewFirst(MsgFrom(i), S.inputQ[i], whole, q)
      BY <1>3, <1>6, FramesFacts DEF NewFirst
    <3>2. whole.remaining = Frame(Head(S.inputQ[i]).msg)
      BY <1>6
    <3> HIDE DEF h, m, whole, q
    <3> QED BY <3>1, <3>2, NewHead
  <2> HIDE DEF idle, q
  <2>3. IsNet(idle)
    BY <1>5 DEF Same
  <2>4. Same(idle, s, {"inputQ"}) /\ s.inputQ = [idle.inputQ EXCEPT ![i] = q]
    BY <2>1, <2>3 DEF Same, IsNet, Fields
  <2>5. s.inputQ = [S.inputQ EXCEPT ![i] = q]
    BY <1>2, <1>5, <2>4
  <2>6. s.inputQ[i] = q
    BY <1>2, <2>5
  <2>7. s.state = idle.state
    BY <2>4 DEF Same, Fields
  <2>8. Same(S, s, {"state", "inputQ"})
    BY <1>5, <2>4 DEF Same
  <2>9. \E x \in NWmsg : s.inputQ[i] = <<x>> \o Tail(S.inputQ[i]) /\ x.waituntil = Head(S.inputQ[i]).waituntil
    BY <1>6, <2>6 DEF q
  <2> QED BY <1>5, <1>9, <2>2, <2>5, <2>6, <2>7, <2>8, <2>9 DEF Again, Starts
<1>10. CASE Sent(S, i) /\ ~ HasMemory(S, m) /\ S.overflow # "BUFFULLRETRY"
  <2>1. s = idle
    BY <1>1, <1>10
  <2> HIDE DEF idle, m, h
  <2> QED BY <1>5, <1>10, <2>1 DEF Drops, Starts
<1> QED BY <1>7, <1>8, <1>9, <1>10

SwitchFields == {"state", "inputQ", "switchQ", "switchmem", "nodemem", "nextHit"}

\* Node i has been looked at.
Forwarded(S, s, i) ==
  /\ Net(s) /\ Same(S, s, SwitchFields) /\ s.nextHit <= S.nextHit
  /\ Line(s, i) /\ (s.state[i] = 1 => s.nextHit <= Finish(s, i))
  /\ \A j \in Node \ {i} : s.inputQ[j] = S.inputQ[j] /\ s.state[j] = S.state[j]
  /\ Len(s.inputQ[i]) >= Len(S.inputQ[i]) - 1
  /\ Outputs(S) => Outputs(s)

\* An output of the switch gets one more frame.
LEMMA OutputMore ==
  ASSUME NEW S, NEW s, NEW r, s.swstate = S.swstate, S.switchQ[r] \in Seq(MsgTo(r)),
         \E x \in Whole(MsgTo(r)) : s.switchQ[r] = Append(S.switchQ[r], x)
  PROVE  s.switchQ[r] \in Seq(MsgTo(r)) /\ (Output(S, r) => Output(s, r))
<1> DEFINE q == S.switchQ[r]
           p == s.switchQ[r]
<1>0. PICK x \in Whole(MsgTo(r)) : s.switchQ[r] = Append(S.switchQ[r], x)
  OBVIOUS
<1>1. MsgTo(r) \subseteq NWmsg /\ x \in MsgTo(r)
  BY MsgFacts
<1>2. q \in Seq(MsgTo(r)) /\ p = Append(q, x) /\ <<x>> \in Seq(Whole(MsgTo(r)))
  BY <1>0
<1>3. p = q \o <<x>> /\ p \in Seq(MsgTo(r))
  BY <1>1, <1>2
<1>4. Idle(MsgTo(r), q) => Idle(MsgTo(r), p)
  BY <1>1, <1>2, <1>3, LineMore
<1>5. Busy(MsgTo(r), q) => Busy(MsgTo(r), p)
  BY <1>1, <1>2, <1>3, LineMore
<1> QED BY <1>3, <1>4, <1>5 DEF Output

LEMMA MemoryFacts ==
  ASSUME NEW S, Scalars(S), NEW m \in Message
  PROVE  TakeMemory(S, m).switchmem \in Int /\ TakeMemory(S, m).nodemem \in [Node -> Int]
<1>1. S.switchmem \in Int /\ S.nodemem \in [Node -> Int] /\ Length[m] \in Nat
  BY FrameFacts DEF Scalars
<1>2. Cardinality(Receivers(m)) \in Nat
  <2>1. IsFiniteSet(Node)
    <3>1. NbrOfNodes \in Int /\ 0 \in Int
      BY NodeFacts
    <3> QED BY <3>1, FS_Interval DEF Node
  <2>2. Receivers(m) \in SUBSET Node
    BY NodeFacts
  <2>3. IsFiniteSet(Receivers(m))
    BY <2>1, <2>2, FS_Subset
  <2> QED BY <2>3, FS_CardinalityType
<1>3. CASE S.buftype = "OUTPUTBUF"
  <2>1. /\ TakeMemory(S, m).switchmem = S.switchmem
        /\ TakeMemory(S, m).nodemem = [r \in Node |-> IF r \in Receivers(m) THEN S.nodemem[r] - Length[m] ELSE S.nodemem[r]]
    BY <1>3 DEF TakeMemory
  <2> QED BY <1>1, <2>1
<1>4. CASE S.buftype # "OUTPUTBUF"
  <2>1. /\ TakeMemory(S, m).switchmem = S.switchmem - Cardinality(Receivers(m)) * Length[m]
        /\ TakeMemory(S, m).nodemem = S.nodemem
    BY <1>4 DEF TakeMemory
  <2> QED BY <1>1, <1>2, <2>1
<1> QED BY <1>3, <1>4

LEMMA StaysFacts ==
  ASSUME NEW S, NEW i, MayForward(S, i), NEW s, s = ToSwitch(S, i), Stays(S, s, i)
  PROVE  Forwarded(S, s, i)
<1>1. Net(S) /\ i \in Node /\ S.inputQ \in [Node -> Seq(NWmsg)] /\ S.time \in Nat /\ S.type = "SFDSE"
  BY NetFacts DEF MayForward
<1>2. ~ Sent(S, i) /\ Same(S, s, {"nextHit"}) /\ s.nextHit <= S.nextHit /\ s.nextHit <= Finish(S, i)
  BY DEF Stays
<1>3. s = Hit(S, {Finish(S, i)})
  BY <1>2 DEF ToSwitch
<1>4. Busy(MsgFrom(i), S.inputQ[i])
  <2>1. /\ Head(S.inputQ[i]) \in NWmsg /\ S.inputQ[i] \in Seq(MsgFrom(i)) /\ S.inputQ[i] # << >>
        /\ Tail(S.inputQ[i]) \in Seq(Whole(MsgFrom(i)))
    BY HeadFacts DEF MayForward
  <2>2. Head(S.inputQ[i]).remaining \in Int
    BY <2>1, MsgFacts
  <2> QED BY <1>2, <2>1, <2>2 DEF Busy, Sent
<1>5. Finish(S, i) \in Nat
  <2>1. MsgFrom(i) \in SUBSET NWmsg
    BY MsgFacts
  <2>2. S.type \in Kinds
    BY <1>1 DEF Kinds
  <2> QED BY <1>1, <1>4, <2>1, <2>2, RemXTimeFacts
<1>6. /\ Net(s) /\ s.inputQ = S.inputQ /\ s.state = S.state /\ s.type = S.type /\ s.time = S.time
      /\ s.switchQ = S.switchQ /\ s.swstate = S.swstate
  <2>1. {Finish(S, i)} \in SUBSET Nat
    BY <1>5
  <2> QED BY <1>1, <1>3, <2>1, HitNet
<1>7. Finish(s, i) = Finish(S, i)
  BY <1>6, FinishSame
<1>8. Same(S, s, SwitchFields)
  BY <1>2 DEF Same, SwitchFields
<1>9. Line(s, i)
  <2>1. S.state[i] = 1
    BY DEF MayForward
  <2> QED BY <1>4, <1>6, <2>1 DEF Line, Sends
<1>10. Outputs(S) => Outputs(s)
  BY <1>6 DEF Outputs, Output
<1>11. Len(s.inputQ[i]) >= Len(S.inputQ[i]) - 1
  <2>1. Len(S.inputQ[i]) \in Nat
    BY <1>1
  <2> QED BY <1>6, <2>1
<1> QED BY <1>2, <1>6, <1>7, <1>8, <1>9, <1>10, <1>11 DEF Forwarded

\* The frame goes, is dropped, or is to be sent again.
LEMMA StartsFacts ==
  ASSUME NEW S, NEW i, MayForward(S, i), NEW s, NEW q, Idle(MsgFrom(i), q), Len(q) >= Len(S.inputQ[i]) - 1,
         Starts(S, s, i, SwitchFields \ {"nextHit"}), s.inputQ = [S.inputQ EXCEPT ![i] = q],
         s.switchmem \in Int, s.nodemem \in [Node -> Int],
         s.switchQ \in [Node -> Seq(NWmsg)], \A r \in Node : s.switchQ[r] \in Seq(MsgTo(r)),
         Outputs(S) => Outputs(s)
  PROVE  Forwarded(S, s, i)
<1>1. /\ Net(S) /\ i \in Node /\ S.inputQ \in [Node -> Seq(NWmsg)] /\ S.state \in [Node -> 0 .. 3]
      /\ S.type = "SFDSE" /\ Queues(S) /\ Scalars(S) /\ S.nextHit \in Nat
  BY NetFacts DEF MayForward
<1>2. /\ Same(S, s, SwitchFields \ {"nextHit"}) /\ s.state = [S.state EXCEPT ![i] = 0]
  BY DEF Starts
<1>3. s.nextHit = S.nextHit /\ s.type = S.type
  BY <1>2 DEF Same, Fields, SwitchFields
<1>4. s.state \in [Node -> 0 .. 3] /\ s.state[i] = 0 /\ \A j \in Node \ {i} : s.state[j] = S.state[j]
  <2>1. 0 \in 0 .. 3
    OBVIOUS
  <2>2. s.state \in [Node -> 0 .. 3]
    BY <1>1, <1>2, <2>1, StateExcept
  <2> QED BY <1>1, <1>2, <2>2
<1>5. s.inputQ[i] = q /\ \A j \in Node \ {i} : s.inputQ[j] = S.inputQ[j]
  BY <1>1
<1>6. q \in Seq(MsgFrom(i)) /\ q \in Seq(NWmsg)
  <2>1. MsgFrom(i) \subseteq NWmsg
    BY MsgFacts
  <2>2. q \in Seq(MsgFrom(i))
    BY <2>1, LineFacts
  <2> QED BY <2>1, <2>2, SeqMonotonic
<1>7. Queues(s)
  <2>1. /\ s.preprocQ = S.preprocQ /\ s.statpreprocQ = S.statpreprocQ /\ s.statinputQ = S.statinputQ
        /\ s.outputQ = S.outputQ /\ s.postprocQ = S.postprocQ
    BY <1>2 DEF Same, Fields, SwitchFields
  <2>2. s.inputQ \in [Node -> Seq(NWmsg)]
    BY <1>1, <1>6
  <2>3. \A j \in Node : s.inputQ[j] \in Seq(MsgFrom(j))
    <3> TAKE j \in Node
    <3>1. S.inputQ[j] \in Seq(MsgFrom(j))
      BY <1>1 DEF Queues
    <3> QED BY <1>5, <1>6, <3>1
  <2> QED BY <1>1, <2>1, <2>2, <2>3 DEF Queues
<1>8. Scalars(s)
  <2>1. NewScalars(s, SwitchFields \ {"nextHit"})
    BY <1>4 DEF NewScalars, SwitchFields
  <2> QED BY <1>1, <1>2, <2>1, ScalarsAgain
<1>9. Net(s)
  <2>1. IsNet(s)
    BY <1>2 DEF Same
  <2> QED BY <1>7, <1>8, <2>1 DEF Net
<1>10. Line(s, i)
  BY <1>1, <1>3, <1>4, <1>5 DEF Line, Sends
<1>11. Same(S, s, SwitchFields)
  BY <1>2 DEF Same
<1> QED BY <1>1, <1>3, <1>4, <1>5, <1>9, <1>10, <1>11 DEF Forwarded

LEMMA ToSwitchFacts ==
  ASSUME NEW S, NEW i, MayForward(S, i), NEW s, s = ToSwitch(S, i)
  PROVE  Forwarded(S, s, i)
<1>1. Stays(S, s, i) \/ Goes(S, s, i) \/ Again(S, s, i) \/ Drops(S, s, i)
  BY ToSwitchCases
<1>2. /\ Net(S) /\ i \in Node /\ Queues(S) /\ Scalars(S) /\ S.switchQ \in [Node -> Seq(NWmsg)]
      /\ S.switchmem \in Int /\ S.nodemem \in [Node -> Int]
  BY NetFacts DEF MayForward, Scalars
<1>3. Idle(MsgFrom(i), Tail(S.inputQ[i])) /\ Len(Tail(S.inputQ[i])) >= Len(S.inputQ[i]) - 1
  <2>1. S.inputQ[i] \in Seq(NWmsg) /\ S.inputQ[i] # << >>
    BY HeadFacts DEF MayForward
  <2>2. Len(Tail(S.inputQ[i])) = Len(S.inputQ[i]) - 1 /\ Len(S.inputQ[i]) \in Nat
    BY <2>1, HeadAndTail
  <2> QED BY <2>2 DEF MayForward, Idle
<1>4. \A r \in Node : S.switchQ[r] \in Seq(MsgTo(r))
  BY <1>2 DEF Queues
<1>5. CASE Stays(S, s, i)
  BY <1>5, StaysFacts
<1>6. CASE Goes(S, s, i)
  <2> DEFINE m == Head(S.inputQ[i]).msg
  <2>1. m \in Message
    BY HeadFacts
  <2> HIDE DEF m
  <2>2. Starts(S, s, i, {"state", "inputQ", "switchQ", "switchmem", "nodemem"})
    BY <1>6 DEF Goes
  <2>3. Starts(S, s, i, SwitchFields \ {"nextHit"}) /\ s.swstate = S.swstate
    BY <2>2 DEF Starts, Same, SwitchFields, Fields
  <2>4. s.switchmem \in Int /\ s.nodemem \in [Node -> Int]
    <3>1. s.switchmem = TakeMemory(S, m).switchmem /\ s.nodemem = TakeMemory(S, m).nodemem
      BY <1>6 DEF Goes, m
    <3> QED BY <1>2, <2>1, <3>1, MemoryFacts
  <2>5. /\ s.inputQ = [S.inputQ EXCEPT ![i] = Tail(S.inputQ[i])] /\ s.switchQ \in [Node -> Seq(NWmsg)]
        /\ \A r \in Receivers(m) : \E x \in Whole(MsgTo(r)) : s.switchQ[r] = Append(S.switchQ[r], x)
        /\ \A r \in Node \ Receivers(m) : s.switchQ[r] = S.switchQ[r]
    BY <1>6 DEF Goes, m
  <2>6. ASSUME NEW r \in Node
        PROVE  s.switchQ[r] \in Seq(MsgTo(r)) /\ (Output(S, r) => Output(s, r))
    <3>1. CASE r \in Receivers(m)
      <4>1. \E x \in Whole(MsgTo(r)) : s.switchQ[r] = Append(S.switchQ[r], x)
        BY <2>5, <3>1
      <4>2. S.switchQ[r] \in Seq(MsgTo(r))
        BY <1>4
      <4>3. s.swstate = S.swstate
        BY <2>3
      <4> QED BY <4>1, <4>2, <4>3, OutputMore
    <3>2. CASE r \notin Receivers(m)
      <4>1. s.switchQ[r] = S.switchQ[r]
        BY <2>5, <3>2
      <4> QED BY <1>4, <2>3, <4>1 DEF Output
    <3> QED BY <3>1, <3>2
  <2>7. Outputs(S) => Outputs(s)
    BY <2>6 DEF Outputs
  <2>8. \A r \in Node : s.switchQ[r] \in Seq(MsgTo(r))
    BY <2>6
  <2> QED BY <1>3, <2>3, <2>4, <2>5, <2>7, <2>8, StartsFacts
<1>7. ASSUME NEW q, Idle(MsgFrom(i), q), Len(q) >= Len(S.inputQ[i]) - 1, Starts(S, s, i, {"state", "inputQ"}),
             s.inputQ = [S.inputQ EXCEPT ![i] = q]
      PROVE  Forwarded(S, s, i)
  <2>1. Starts(S, s, i, SwitchFields \ {"nextHit"})
    BY <1>7 DEF Starts, Same, SwitchFields
  <2>2. /\ s.swstate = S.swstate /\ s.switchQ = S.switchQ /\ s.switchmem = S.switchmem
        /\ s.nodemem = S.nodemem
    BY <1>7 DEF Starts, Same, Fields
  <2>3. Outputs(S) => Outputs(s)
    BY <2>2 DEF Outputs, Output
  <2>4. /\ s.switchmem \in Int /\ s.nodemem \in [Node -> Int] /\ s.switchQ \in [Node -> Seq(NWmsg)]
        /\ \A r \in Node : s.switchQ[r] \in Seq(MsgTo(r))
    BY <1>2, <1>4, <2>2
  <2> QED BY <1>7, <2>1, <2>3, <2>4, StartsFacts
<1>8. CASE Again(S, s, i)
  <2>1. Idle(MsgFrom(i), s.inputQ[i]) /\ Msgs(s.inputQ[i]) = Msgs(S.inputQ[i])
    BY <1>8 DEF Again
  <2>2. MsgFrom(i) \subseteq NWmsg
    BY MsgFacts
  <2>3. s.inputQ[i] \in Seq(NWmsg)
    <3>1. s.inputQ[i] \in Seq(MsgFrom(i))
      BY <2>1, <2>2, LineFacts
    <3> QED BY <2>2, <3>1, SeqMonotonic
  <2>4. Len(s.inputQ[i]) = Len(S.inputQ[i]) /\ Len(S.inputQ[i]) \in Nat
    BY <2>1, <2>3, HeadFacts, MsgsFacts
  <2>5. Len(s.inputQ[i]) >= Len(S.inputQ[i]) - 1
    BY <2>4
  <2> QED BY <1>7, <1>8, <2>5 DEF Again
<1>9. CASE Drops(S, s, i)
  BY <1>3, <1>7, <1>9 DEF Drops
<1> QED BY <1>1, <1>5, <1>6, <1>8, <1>9

-----------------------------------------------------------------------------
(***************************************************************************)
(* The loops over the nodes: what FoldLeft computes, one node at a time.   *)
(***************************************************************************)
\* Node r is looked at in the structure x, or the length of a message is added.
StepOne(o, x, r) == CASE o = "forward" -> ToSwitch(x, r)
                      [] o = "deliver" -> ToReceiver(x, r)
                      [] OTHER         -> x + Length[r.msg]

\* g is what FoldLeft iterates to, on the sets of positions up to k.
Iterates(o, base, q, g, k) ==
  g = [T \in SUBSET (1 .. k) |->
         IF T = {} THEN base ELSE StepOne(o, g[T \ {Max(T)}], q[Max(T)])]

\* a holds the intermediate results of N steps.
StepByStep(o, base, q, a, N) ==
  a[0] = base /\ \A k \in 1 .. N : a[k] = StepOne(o, a[k - 1], q[k])

LEMMA LastPosition ==
  ASSUME NEW k \in Nat, NEW T \in SUBSET (1 .. k), T # {}
  PROVE  /\ Max(T) \in T /\ T \ {Max(T)} \in SUBSET (1 .. k) /\ Max(T) \in 1 .. k
         /\ k \in T => Max(T) = k
<1>1. T \in SUBSET (0 .. k)
  OBVIOUS
<1>2. Max(T) \in T /\ \A y \in T : y <= Max(T)
  BY <1>1, MaxInSet
<1>3. Max(T) \in 1 .. k
  BY <1>2
<1> HIDE DEF Max
<1>4. k \in T => Max(T) = k
  BY <1>2, <1>3
<1> QED BY <1>2, <1>3, <1>4

LEMMA LowerPositions ==
  ASSUME NEW k \in Nat, k # 0
  PROVE  /\ k - 1 \in Nat
         /\ \A T \in SUBSET (1 .. k) : k \notin T => T \in SUBSET (1 .. k - 1)
         /\ \A T \in SUBSET (1 .. k) : T \ {k} \in SUBSET (1 .. k - 1)
         /\ \A T \in SUBSET (1 .. k - 1) : k \notin T /\ T \in SUBSET (1 .. k)
         /\ (1 .. k) \ {k} = 1 .. k - 1
OBVIOUS

\* The recursive definition of the iteration has a solution: there is no
\* shortest sequence without one.
LEMMA IterationExists ==
  ASSUME NEW o, NEW base, NEW q, NEW N \in Nat
  PROVE  \E g : Iterates(o, base, q, g, N)
<1> DEFINE Step(g, T) ==
             IF T = {} THEN base ELSE StepOne(o, g[T \ {Max(T)}], q[Max(T)])
           Solves(g, k) == g = [T \in SUBSET (1 .. k) |-> Step(g, T)]
           Fails == {k \in Nat : ~ \E g : Solves(g, k)}
<1>1. SUFFICES ASSUME Fails # {} PROVE FALSE
  BY DEF Iterates
<1>2. PICK k \in Nat : k \in Fails /\ \A j \in Fails : k <= j
  <2>1. Fails \in SUBSET Nat
    OBVIOUS
  <2> HIDE DEF Fails
  <2> QED BY <1>1, <2>1, MinInSet
<1>3. k # 0
  <2> SUFFICES ASSUME k = 0 PROVE FALSE
    OBVIOUS
  <2>1. Solves([T \in SUBSET (1 .. 0) |-> base], 0)
    OBVIOUS
  <2> QED BY <1>2, <2>1
<1>4. PICK g : Solves(g, k - 1)
  <2>1. k - 1 \in Nat /\ ~ (k <= k - 1)
    BY <1>3
  <2> HIDE DEF Solves
  <2> QED BY <1>2, <2>1
<1> DEFINE h == [T \in SUBSET (1 .. k) |->
                   IF k \in T THEN StepOne(o, g[T \ {k}], q[k]) ELSE g[T]]
<1>5. ASSUME NEW T \in SUBSET (1 .. k) PROVE h[T] = Step(h, T)
  <2>1. CASE T = {}
    <3>1. {} \in SUBSET (1 .. k - 1) /\ k \notin {} /\ h[{}] = g[{}]
      OBVIOUS
    <3>2. g[{}] = base
      BY <1>4, <3>1
    <3> HIDE DEF h
    <3> QED BY <2>1, <3>1, <3>2
  <2>2. CASE T # {} /\ k \in T
    <3>1. Max(T) = k
      BY <2>2, LastPosition
    <3>2. T \ {k} \in SUBSET (1 .. k) /\ k \notin T \ {k}
      OBVIOUS
    <3>3. h[T \ {k}] = g[T \ {k}]
      BY <3>2
    <3>4. h[T] = StepOne(o, g[T \ {k}], q[k])
      BY <2>2
    <3> HIDE DEF h
    <3> QED BY <2>2, <3>1, <3>3, <3>4
  <2>3. CASE T # {} /\ k \notin T
    <3> DEFINE W == T \ {Max(T)}
    <3>1. T \in SUBSET (1 .. k - 1) /\ k - 1 \in Nat
      BY <1>3, <2>3, LowerPositions
    <3>2. W \in SUBSET (1 .. k - 1) /\ k \notin W
      BY <2>3, <3>1, LastPosition
    <3>3. W \in SUBSET (1 .. k)
      OBVIOUS
    <3> HIDE DEF W
    <3>4. h[W] = g[W] /\ h[T] = g[T]
      BY <2>3, <3>2, <3>3
    <3>5. g[T] = Step(g, T)
      BY <1>4, <3>1
    <3> HIDE DEF h
    <3> QED BY <2>3, <3>4, <3>5 DEF W
  <2> QED BY <2>1, <2>2, <2>3
<1>6. Solves(h, k)
  <2>1. h = [T \in SUBSET (1 .. k) |-> h[T]]
    OBVIOUS
  <2> HIDE DEF h
  <2>2. [T \in SUBSET (1 .. k) |-> h[T]] = [T \in SUBSET (1 .. k) |-> Step(h, T)]
    BY <1>5
  <2> QED BY <2>1, <2>2
<1> QED BY <1>2, <1>6

LEMMA IterationSteps ==
  ASSUME NEW o, NEW base, NEW q, NEW N \in Nat, NEW g, Iterates(o, base, q, g, N)
  PROVE  \E a : StepByStep(o, base, q, a, N) /\ a[N] = g[1 .. N]
<1> DEFINE a == [k \in 0 .. N |-> g[1 .. k]]
<1>1. ASSUME NEW k \in 1 .. N PROVE a[k] = StepOne(o, a[k - 1], q[k])
  <2>1. /\ 1 .. k \in SUBSET (1 .. N) /\ k \in 1 .. k /\ k \in Nat /\ k # 0
        /\ 1 .. k # {} /\ 1 .. k \in SUBSET (1 .. k) /\ k \in 0 .. N /\ k - 1 \in 0 .. N
    OBVIOUS
  <2>2. Max(1 .. k) = k
    BY <2>1, LastPosition
  <2>3. (1 .. k) \ {k} = 1 .. k - 1
    BY <2>1, LowerPositions
  <2>4. g[1 .. k] = StepOne(o, g[(1 .. k) \ {Max(1 .. k)}], q[Max(1 .. k)])
    BY <2>1 DEF Iterates
  <2>5. g[1 .. k] = StepOne(o, g[1 .. k - 1], q[k])
    BY <2>2, <2>3, <2>4
  <2>6. a[k] = g[1 .. k] /\ a[k - 1] = g[1 .. k - 1]
    BY <2>1
  <2> QED BY <2>5, <2>6
<1>2. a[0] = base
  <2>1. {} \in SUBSET (1 .. N) /\ 1 .. 0 = {}
    OBVIOUS
  <2>2. g[{}] = base
    BY <2>1 DEF Iterates
  <2> QED BY <2>1, <2>2
<1>3. a[N] = g[1 .. N]
  OBVIOUS
<1> HIDE DEF a
<1> QED BY <1>1, <1>2, <1>3 DEF StepByStep

LEMMA ForwardOneByOne ==
  ASSUME NEW base, NEW q, NEW N \in Nat, DOMAIN q = 1 .. N
  PROVE  \E a : StepByStep("forward", base, q, a, N) /\ a[N] = FoldLeft(ToSwitch, base, q)
<1> DEFINE Solves(g) == g = [T \in SUBSET (1 .. N) |->
                               IF T = {} THEN base ELSE ToSwitch(g[T \ {Max(T)}], q[Max(T)])]
           g == CHOOSE f : Solves(f)
<1>1. FoldLeft(ToSwitch, base, q) = g[1 .. N]
  BY DEF FoldLeft, MapThenFoldSet
<1>2. \A f : Solves(f) <=> Iterates("forward", base, q, f, N)
  BY DEF Iterates, StepOne
<1>3. \E f : Solves(f)
  BY <1>2, IterationExists
<1>4. Iterates("forward", base, q, g, N)
  <2> HIDE DEF Solves
  <2> QED BY <1>2, <1>3
<1> HIDE DEF g
<1> QED BY <1>1, <1>4, IterationSteps

LEMMA DeliverOneByOne ==
  ASSUME NEW base, NEW q, NEW N \in Nat, DOMAIN q = 1 .. N
  PROVE  \E a : StepByStep("deliver", base, q, a, N) /\ a[N] = FoldLeft(ToReceiver, base, q)
<1> DEFINE Solves(g) == g = [T \in SUBSET (1 .. N) |->
                               IF T = {} THEN base ELSE ToReceiver(g[T \ {Max(T)}], q[Max(T)])]
           g == CHOOSE f : Solves(f)
<1>1. FoldLeft(ToReceiver, base, q) = g[1 .. N]
  BY DEF FoldLeft, MapThenFoldSet
<1>2. \A f : Solves(f) <=> Iterates("deliver", base, q, f, N)
  BY DEF Iterates, StepOne
<1>3. \E f : Solves(f)
  BY <1>2, IterationExists
<1>4. Iterates("deliver", base, q, g, N)
  <2> HIDE DEF Solves
  <2> QED BY <1>2, <1>3
<1> HIDE DEF g
<1> QED BY <1>1, <1>4, IterationSteps

LEMMA AddOneByOne ==
  ASSUME NEW q, NEW N \in Nat, DOMAIN q = 1 .. N
  PROVE  \E a : /\ StepByStep("bits", 0, q, a, N)
                /\ a[N] = Bits(q)
<1> DEFINE Solves(g) == g = [T \in SUBSET (1 .. N) |->
                               IF T = {} THEN 0 ELSE g[T \ {Max(T)}] + Length[q[Max(T)].msg]]
           g == CHOOSE f : Solves(f)
<1>1. Bits(q) = g[1 .. N]
  BY DEF Bits, FoldLeft, MapThenFoldSet
<1>2. \A f : Solves(f) <=> Iterates("bits", 0, q, f, N)
  BY DEF Iterates, StepOne
<1>3. \E f : Solves(f)
  BY <1>2, IterationExists
<1>4. Iterates("bits", 0, q, g, N)
  <2> HIDE DEF Solves
  <2> QED BY <1>2, <1>3
<1> HIDE DEF g
<1> QED BY <1>1, <1>4, IterationSteps

-----------------------------------------------------------------------------
(***************************************************************************)
(* From the switch to the receivers.                                       *)
(***************************************************************************)
\* Output r of the switch sends, and has perhaps sent, its first frame.
MayReceive(S, r) ==
  /\ Net(S) /\ S.type = "SFDSE" /\ r \in Node /\ S.swstate[r] = 1
  /\ S.switchQ[r] # << >> /\ Tail(S.switchQ[r]) \in Seq(Whole(MsgTo(r)))

\* What can become of that frame
Remains(S, s, r) ==
  /\ Head(S.switchQ[r]).remaining > 0
  /\ Same(S, s, {"nextHit"}) /\ s.nextHit <= S.nextHit /\ s.nextHit <= SwitchFinish(S, r)

Comes(S, s, r) ==
  /\ Head(S.switchQ[r]).remaining <= 0
  /\ Same(S, s, {"swstate", "switchQ", "outputQ", "switchmem", "nodemem"})
  /\ s.swstate = [S.swstate EXCEPT ![r] = 0]
  /\ s.switchQ = [S.switchQ EXCEPT ![r] = Tail(S.switchQ[r])]
  /\ s.switchmem = FreeMemory(S, r, Head(S.switchQ[r]).msg).switchmem
  /\ s.nodemem = FreeMemory(S, r, Head(S.switchQ[r]).msg).nodemem
  /\ \E x \in MsgTo(r) :
       /\ x.msg = Head(S.switchQ[r]).msg /\ x.waituntil = Head(S.switchQ[r]).waituntil
       /\ s.outputQ = [S.outputQ EXCEPT ![r] = Append(S.outputQ[r], x)]

LEMMA FirstInSwitch ==
  ASSUME NEW S, NEW r, MayReceive(S, r)
  PROVE  /\ Head(S.switchQ[r]) \in MsgTo(r) /\ Head(S.switchQ[r]) \in NWmsg
         /\ Head(S.switchQ[r]).msg \in Message /\ Head(S.switchQ[r]).remaining \in Int
         /\ S.switchQ[r] \in Seq(MsgTo(r)) /\ S.switchQ[r] \in Seq(NWmsg)
<1>1. S.switchQ[r] \in Seq(MsgTo(r)) /\ S.switchQ[r] # << >> /\ S.switchQ[r] \in Seq(NWmsg)
  BY NetFacts DEF MayReceive, Queues
<1>2. Head(S.switchQ[r]) \in MsgTo(r)
  BY <1>1, HeadAndTail
<1> QED BY <1>1, <1>2, MsgFacts DEF MsgTo

LEMMA SwitchFinishFacts ==
  ASSUME NEW S, S.time \in Nat, NEW r, NEW A \in SUBSET NWmsg, Busy(A, S.switchQ[r])
  PROVE  SwitchFinish(S, r) \in Nat
<1>1. Head(S.switchQ[r]) \in NWmsg /\ Head(S.switchQ[r]).remaining > 0
  <2>1. S.switchQ[r] \in Seq(A) /\ S.switchQ[r] # << >>
    BY DEF Busy
  <2>2. Head(S.switchQ[r]) \in A
    BY <2>1, HeadAndTail
  <2> QED BY <2>2 DEF Busy
<1>2. Head(S.switchQ[r]).remaining \in Nat /\ Datarate \in Nat \ {0}
  <2>1. Head(S.switchQ[r]).remaining \in Int
    BY <1>1, MsgFacts
  <2> QED BY <1>1, <2>1, FrameFacts
<1>3. Head(S.switchQ[r]).remaining \div Datarate \in Nat
  BY <1>2
<1> QED BY <1>3 DEF SwitchFinish

LEMMA ToReceiverCases ==
  ASSUME NEW S, NEW r, MayReceive(S, r), NEW s, s = ToReceiver(S, r)
  PROVE  Remains(S, s, r) \/ Comes(S, s, r)
<1> DEFINE m == Head(S.switchQ[r])
           x == [m EXCEPT !.remaining = Frame(m.msg)]
           done == [S EXCEPT !.swstate[r] = 0, !.switchQ[r] = Tail(@), !.outputQ[r] = Append(@, x)]
<1>1. s = IF m.remaining > 0 THEN Hit(S, {SwitchFinish(S, r)}) ELSE FreeMemory(done, r, m.msg)
  BY DEF ToReceiver
<1>2. /\ Net(S) /\ IsNet(S) /\ r \in Node /\ S.time \in Nat
      /\ S.swstate \in [Node -> {0, 1}] /\ S.switchQ \in [Node -> Seq(NWmsg)]
      /\ S.outputQ \in [Node -> Seq(NWmsg)] /\ S.nodemem \in [Node -> Int]
  BY NetFacts DEF MayReceive, Scalars
<1>3. m \in MsgTo(r) /\ m \in NWmsg /\ m.msg \in Message /\ m.remaining \in Int
  BY FirstInSwitch
<1>4. CASE m.remaining > 0
  <2>1. Busy(MsgTo(r), S.switchQ[r])
    BY <1>4, FirstInSwitch DEF Busy, MayReceive
  <2>2. SwitchFinish(S, r) \in Nat
    <3>1. MsgTo(r) \in SUBSET NWmsg
      BY MsgFacts
    <3> QED BY <1>2, <2>1, <3>1, SwitchFinishFacts
  <2>3. {SwitchFinish(S, r)} \in SUBSET Nat
    BY <2>2
  <2>4. s = Hit(S, {SwitchFinish(S, r)})
    BY <1>1, <1>4
  <2>5. /\ Same(S, s, {"nextHit"}) /\ s.nextHit <= S.nextHit
        /\ \A t \in {SwitchFinish(S, r)} : s.nextHit <= t
    BY <1>2, <2>3, <2>4, HitNet
  <2> QED BY <1>4, <2>5 DEF Remains
<1>5. CASE m.remaining <= 0
  <2>1. s = FreeMemory(done, r, m.msg)
    BY <1>1, <1>3, <1>5
  <2>2. /\ Same(S, done, {"swstate", "switchQ", "outputQ"})
        /\ done.swstate = [S.swstate EXCEPT ![r] = 0]
        /\ done.switchQ = [S.switchQ EXCEPT ![r] = Tail(S.switchQ[r])]
        /\ done.outputQ = [S.outputQ EXCEPT ![r] = Append(S.outputQ[r], x)]
    <3> HIDE DEF x
    <3> QED BY <1>2 DEF Same, IsNet, Fields
  <2> HIDE DEF done
  <2>3. /\ IsNet(done) /\ done.buftype = S.buftype /\ done.switchmem = S.switchmem
        /\ done.nodemem = S.nodemem
    BY <2>2 DEF Same, Fields
  <2>4. /\ Same(done, s, {"switchmem", "nodemem"})
        /\ s.switchmem = FreeMemory(S, r, m.msg).switchmem
        /\ s.nodemem = FreeMemory(S, r, m.msg).nodemem
    <3> DEFINE b == m.msg
    <3>1. s = FreeMemory(done, r, b)
      BY <2>1
    <3>2. IsNet(S)
      BY <1>2
    <3> HIDE DEF b
    <3>3. /\ Same(done, s, {"switchmem", "nodemem"})
          /\ s.switchmem = FreeMemory(S, r, b).switchmem
          /\ s.nodemem = FreeMemory(S, r, b).nodemem
      <4>1. CASE S.buftype = "OUTPUTBUF"
        <5>1. /\ s = [done EXCEPT !.nodemem[r] = done.nodemem[r] + Length[b]]
              /\ FreeMemory(S, r, b) = [S EXCEPT !.nodemem[r] = S.nodemem[r] + Length[b]]
          BY <2>3, <3>1, <4>1 DEF FreeMemory
        <5>2. /\ FreeMemory(S, r, b).switchmem = S.switchmem
              /\ FreeMemory(S, r, b).nodemem = [S.nodemem EXCEPT ![r] = S.nodemem[r] + Length[b]]
          BY <3>2, <5>1 DEF IsNet, Fields
        <5>3. /\ Same(done, s, {"switchmem", "nodemem"}) /\ s.switchmem = done.switchmem
              /\ s.nodemem = [done.nodemem EXCEPT ![r] = done.nodemem[r] + Length[b]]
          BY <2>3, <5>1 DEF Same, IsNet, Fields
        <5> QED BY <2>3, <5>2, <5>3
      <4>2. CASE S.buftype # "OUTPUTBUF"
        <5>1. /\ s = [done EXCEPT !.switchmem = done.switchmem + Length[b]]
              /\ FreeMemory(S, r, b) = [S EXCEPT !.switchmem = S.switchmem + Length[b]]
          BY <2>3, <3>1, <4>2 DEF FreeMemory
        <5>2. /\ FreeMemory(S, r, b).switchmem = S.switchmem + Length[b]
              /\ FreeMemory(S, r, b).nodemem = S.nodemem
          BY <3>2, <5>1 DEF IsNet, Fields
        <5>3. /\ Same(done, s, {"switchmem", "nodemem"}) /\ s.switchmem = done.switchmem + Length[b]
              /\ s.nodemem = done.nodemem
          BY <2>3, <5>1 DEF Same, IsNet, Fields
        <5> QED BY <2>3, <5>2, <5>3
      <4> QED BY <4>1, <4>2
    <3> QED BY <3>3 DEF b
  <2>5. s.swstate = done.swstate /\ s.switchQ = done.switchQ /\ s.outputQ = done.outputQ
    BY <2>4 DEF Same, Fields
  <2>6. Same(S, s, {"swstate", "switchQ", "outputQ", "switchmem", "nodemem"})
    BY <2>2, <2>4 DEF Same
  <2>7. x \in MsgTo(r) /\ x.msg = m.msg /\ x.waituntil = m.waituntil
    <3>1. Frames(MsgTo(r)) /\ Frame(m.msg) \in Int
      BY <1>3, FramesFacts, FrameFacts
    <3> HIDE DEF m
    <3> QED BY <1>3, <3>1, OtherRemaining
  <2>8. \E y \in MsgTo(r) : /\ y.msg = Head(S.switchQ[r]).msg /\ y.waituntil = Head(S.switchQ[r]).waituntil
                            /\ s.outputQ = [S.outputQ EXCEPT ![r] = Append(S.outputQ[r], y)]
    <3> HIDE DEF x
    <3> QED BY <2>2, <2>5, <2>7
  <2> HIDE DEF x
  <2> QED BY <1>5, <2>2, <2>4, <2>5, <2>6, <2>8 DEF Comes
<1> QED BY <1>3, <1>4, <1>5

ReceiveFields == {"swstate", "switchQ", "outputQ", "switchmem", "nodemem", "nextHit"}

\* Output r has been looked at.
Received(S, s, r) ==
  /\ Net(s) /\ Same(S, s, ReceiveFields) /\ s.nextHit <= S.nextHit
  /\ Output(s, r) /\ (s.swstate[r] = 1 => s.nextHit <= SwitchFinish(s, r))
  /\ \A j \in Node \ {r} : s.switchQ[j] = S.switchQ[j] /\ s.swstate[j] = S.swstate[j]

LEMMA RemainsFacts ==
  ASSUME NEW S, NEW r, MayReceive(S, r), NEW s, s = ToReceiver(S, r), Remains(S, s, r)
  PROVE  Received(S, s, r)
<1>1. Net(S) /\ r \in Node /\ S.time \in Nat /\ S.swstate[r] = 1
  BY NetFacts DEF MayReceive
<1>2. /\ Head(S.switchQ[r]).remaining > 0 /\ Same(S, s, {"nextHit"}) /\ s.nextHit <= S.nextHit
      /\ s.nextHit <= SwitchFinish(S, r)
  BY DEF Remains
<1>3. s = Hit(S, {SwitchFinish(S, r)})
  BY <1>2 DEF ToReceiver
<1>4. Busy(MsgTo(r), S.switchQ[r])
  BY <1>2, FirstInSwitch DEF Busy, MayReceive
<1>5. SwitchFinish(S, r) \in Nat
  <2>1. MsgTo(r) \in SUBSET NWmsg
    BY MsgFacts
  <2> QED BY <1>1, <1>4, <2>1, SwitchFinishFacts
<1>6. /\ Net(s) /\ s.time = S.time /\ s.switchQ = S.switchQ /\ s.swstate = S.swstate
  <2>1. {SwitchFinish(S, r)} \in SUBSET Nat
    BY <1>5
  <2> QED BY <1>1, <1>3, <2>1, HitNet
<1>7. SwitchFinish(s, r) = SwitchFinish(S, r)
  BY <1>6 DEF SwitchFinish
<1>8. Same(S, s, ReceiveFields)
  BY <1>2 DEF Same, ReceiveFields
<1>9. Output(s, r)
  BY <1>1, <1>4, <1>6 DEF Output
<1> QED BY <1>2, <1>6, <1>7, <1>8, <1>9 DEF Received

LEMMA ToReceiverFacts ==
  ASSUME NEW S, NEW r, MayReceive(S, r), NEW s, s = ToReceiver(S, r)
  PROVE  Received(S, s, r)
<1>1. Remains(S, s, r) \/ Comes(S, s, r)
  BY ToReceiverCases
<1>2. CASE Remains(S, s, r)
  BY <1>2, RemainsFacts
<1>3. CASE Comes(S, s, r)
  <2>1. /\ Net(S) /\ r \in Node /\ Queues(S) /\ Scalars(S) /\ S.switchQ \in [Node -> Seq(NWmsg)]
        /\ S.outputQ \in [Node -> Seq(NWmsg)] /\ S.swstate \in [Node -> {0, 1}]
        /\ S.switchmem \in Int /\ S.nodemem \in [Node -> Int] /\ S.nextHit \in Nat
    BY NetFacts DEF MayReceive, Scalars
  <2>2. /\ Same(S, s, {"swstate", "switchQ", "outputQ", "switchmem", "nodemem"})
        /\ s.swstate = [S.swstate EXCEPT ![r] = 0]
        /\ s.switchQ = [S.switchQ EXCEPT ![r] = Tail(S.switchQ[r])]
        /\ s.switchmem = FreeMemory(S, r, Head(S.switchQ[r]).msg).switchmem
        /\ s.nodemem = FreeMemory(S, r, Head(S.switchQ[r]).msg).nodemem
    BY <1>3 DEF Comes
  <2>3. PICK x \in MsgTo(r) : s.outputQ = [S.outputQ EXCEPT ![r] = Append(S.outputQ[r], x)]
    BY <1>3 DEF Comes
  <2>4. Head(S.switchQ[r]).msg \in Message /\ S.switchQ[r] \in Seq(NWmsg) /\ S.switchQ[r] # << >>
    BY FirstInSwitch DEF MayReceive
  <2>5. Tail(S.switchQ[r]) \in Seq(Whole(MsgTo(r)))
    BY DEF MayReceive
  <2>6. Idle(MsgTo(r), Tail(S.switchQ[r])) /\ Tail(S.switchQ[r]) \in Seq(MsgTo(r)) /\ Tail(S.switchQ[r]) \in Seq(NWmsg)
    <3>1. MsgTo(r) \subseteq NWmsg
      BY MsgFacts
    <3>2. Idle(MsgTo(r), Tail(S.switchQ[r]))
      BY <2>5 DEF Idle
    <3>3. Tail(S.switchQ[r]) \in Seq(MsgTo(r))
      BY <3>1, <3>2, LineFacts
    <3> QED BY <3>1, <3>2, <3>3, SeqMonotonic
  <2>7. s.swstate \in [Node -> {0, 1}] /\ s.swstate[r] = 0 /\ \A j \in Node \ {r} : s.swstate[j] = S.swstate[j]
    <3>1. 0 \in {0, 1}
      OBVIOUS
    <3>2. s.swstate \in [Node -> {0, 1}]
      BY <2>1, <2>2, <3>1, Zenon
    <3> QED BY <2>1, <2>2, <3>2
  <2>8. /\ s.switchQ \in [Node -> Seq(NWmsg)] /\ s.switchQ[r] = Tail(S.switchQ[r])
        /\ \A j \in Node \ {r} : s.switchQ[j] = S.switchQ[j]
    BY <2>1, <2>2, <2>6
  <2>9. /\ s.outputQ \in [Node -> Seq(NWmsg)] /\ \A j \in Node : s.outputQ[j] \in Seq(MsgTo(j))
    <3>1. x \in NWmsg
      BY MsgFacts
    <3>2. S.outputQ[r] \in Seq(MsgTo(r)) /\ S.outputQ[r] \in Seq(NWmsg)
      BY <2>1 DEF Queues
    <3>3. Append(S.outputQ[r], x) \in Seq(MsgTo(r)) /\ Append(S.outputQ[r], x) \in Seq(NWmsg)
      BY <3>1, <3>2, AppendProperties
    <3>4. s.outputQ \in [Node -> Seq(NWmsg)]
      BY <2>1, <2>3, <3>3
    <3>5. \A j \in Node : s.outputQ[j] \in Seq(MsgTo(j))
      <4> TAKE j \in Node
      <4>1. S.outputQ[j] \in Seq(MsgTo(j))
        BY <2>1 DEF Queues
      <4> QED BY <2>1, <2>3, <3>3, <4>1
    <3> QED BY <3>4, <3>5
  <2>10. s.switchmem \in Int /\ s.nodemem \in [Node -> Int]
    <3> DEFINE m == Head(S.switchQ[r]).msg
    <3>1. Length[m] \in Int
      BY <2>4, FrameFacts
    <3>2. s.switchmem = FreeMemory(S, r, m).switchmem /\ s.nodemem = FreeMemory(S, r, m).nodemem
      BY <2>2
    <3>3. IsNet(S)
      BY <2>1 DEF Net
    <3> HIDE DEF m
    <3>4. CASE S.buftype = "OUTPUTBUF"
      <4>1. FreeMemory(S, r, m) = [S EXCEPT !.nodemem[r] = S.nodemem[r] + Length[m]]
        BY <3>4 DEF FreeMemory
      <4>2. s.nodemem = [S.nodemem EXCEPT ![r] = S.nodemem[r] + Length[m]] /\ s.switchmem = S.switchmem
        BY <3>2, <3>3, <4>1 DEF IsNet, Fields
      <4> QED BY <2>1, <3>1, <4>2
    <3>5. CASE S.buftype # "OUTPUTBUF"
      <4>1. FreeMemory(S, r, m) = [S EXCEPT !.switchmem = S.switchmem + Length[m]]
        BY <3>5 DEF FreeMemory
      <4>2. s.nodemem = S.nodemem /\ s.switchmem = S.switchmem + Length[m]
        BY <3>2, <3>3, <4>1 DEF IsNet, Fields
      <4> QED BY <2>1, <3>1, <4>2
    <3> QED BY <3>4, <3>5
  <2>11. Queues(s)
    <3>1. /\ s.preprocQ = S.preprocQ /\ s.statpreprocQ = S.statpreprocQ /\ s.statinputQ = S.statinputQ
          /\ s.inputQ = S.inputQ /\ s.postprocQ = S.postprocQ
      BY <2>2 DEF Same, Fields
    <3>2. \A j \in Node : s.switchQ[j] \in Seq(MsgTo(j))
      <4> TAKE j \in Node
      <4>1. S.switchQ[j] \in Seq(MsgTo(j))
        BY <2>1 DEF Queues
      <4> QED BY <2>6, <2>8, <4>1
    <3> QED BY <2>1, <2>8, <2>9, <3>1, <3>2 DEF Queues
  <2>12. Scalars(s)
    <3>1. NewScalars(s, {"swstate", "switchQ", "outputQ", "switchmem", "nodemem"})
      BY <2>7, <2>10 DEF NewScalars
    <3> QED BY <2>1, <2>2, <3>1, ScalarsAgain
  <2>13. Net(s) /\ s.nextHit = S.nextHit
    <3>1. IsNet(s) /\ s.nextHit = S.nextHit
      BY <2>2 DEF Same, Fields
    <3> QED BY <2>11, <2>12, <3>1 DEF Net
  <2>14. Output(s, r)
    BY <2>6, <2>7, <2>8 DEF Output
  <2>15. Same(S, s, ReceiveFields)
    BY <2>2 DEF Same, ReceiveFields
  <2> QED BY <2>1, <2>7, <2>8, <2>13, <2>14, <2>15 DEF Received
<1> QED BY <1>1, <1>2, <1>3

\* The nodes q have been sending, the first k of them have been looked at.
MayForwardAll(t, q) ==
  /\ Net(t) /\ t.type = "SFDSE" /\ Outputs(t) /\ q \in Seq(Node) /\ NoDuplicates(q)
  /\ \A k \in 1 .. Len(q) : /\ t.state[q[k]] = 1 /\ t.inputQ[q[k]] # << >>
                            /\ Tail(t.inputQ[q[k]]) \in Seq(Whole(MsgFrom(q[k])))

ForwardedTo(t, x, q, k) ==
  /\ Net(x) /\ Same(t, x, SwitchFields) /\ x.nextHit <= t.nextHit /\ Outputs(x)
  /\ \A j \in 1 .. k : Line(x, q[j]) /\ (x.state[q[j]] = 1 => x.nextHit <= Finish(x, q[j]))
  /\ \A j \in 1 .. k : Len(x.inputQ[q[j]]) >= Len(t.inputQ[q[j]]) - 1
  /\ \A i \in Node : (\A j \in 1 .. k : q[j] # i) => x.inputQ[i] = t.inputQ[i] /\ x.state[i] = t.state[i]

LEMMA ForwardStep ==
  ASSUME NEW t, NEW q, MayForwardAll(t, q), NEW k \in 1 .. Len(q), NEW x, ForwardedTo(t, x, q, k - 1),
         NEW y, y = ToSwitch(x, q[k])
  PROVE  MayForward(x, q[k]) /\ Forwarded(x, y, q[k]) /\ ForwardedTo(t, y, q, k)
<1> DEFINE i == q[k]
<1>1. q \in Seq(Node) /\ i \in Node /\ k - 1 \in Nat /\ \A j \in 1 .. k - 1 : q[j] \in Node /\ q[j] # i
  BY DEF MayForwardAll, NoDuplicates
<1>2. /\ Net(x) /\ Same(t, x, SwitchFields) /\ x.nextHit <= t.nextHit /\ Outputs(x)
      /\ \A j \in 1 .. k - 1 : Line(x, q[j]) /\ (x.state[q[j]] = 1 => x.nextHit <= Finish(x, q[j]))
      /\ \A j \in 1 .. k - 1 : Len(x.inputQ[q[j]]) >= Len(t.inputQ[q[j]]) - 1
      /\ \A j \in Node : (\A n \in 1 .. k - 1 : q[n] # j)
                           => x.inputQ[j] = t.inputQ[j] /\ x.state[j] = t.state[j]
  BY DEF ForwardedTo
<1>3. MayForward(x, i)
  <2>1. t.type = "SFDSE" /\ t.state[i] = 1 /\ t.inputQ[i] # << >> /\ Tail(t.inputQ[i]) \in Seq(Whole(MsgFrom(i)))
    BY DEF MayForwardAll
  <2>2. x.type = t.type
    BY <1>2 DEF Same, Fields, SwitchFields
  <2>3. x.inputQ[i] = t.inputQ[i] /\ x.state[i] = t.state[i]
    BY <1>1, <1>2
  <2> HIDE DEF i
  <2> QED BY <1>1, <1>2, <2>1, <2>2, <2>3 DEF MayForward
<1>4. Forwarded(x, y, i)
  <2> HIDE DEF i
  <2>1. y = ToSwitch(x, i)
    BY DEF i
  <2> QED BY <1>3, <2>1, ToSwitchFacts
<1>5. /\ Net(y) /\ Same(x, y, SwitchFields) /\ y.nextHit <= x.nextHit
      /\ Line(y, i) /\ (y.state[i] = 1 => y.nextHit <= Finish(y, i))
      /\ \A j \in Node \ {i} : y.inputQ[j] = x.inputQ[j] /\ y.state[j] = x.state[j]
      /\ Outputs(y) /\ Len(y.inputQ[i]) >= Len(x.inputQ[i]) - 1
  BY <1>2, <1>4 DEF Forwarded
<1> HIDE DEF i
<1>6. Same(t, y, SwitchFields)
  BY <1>2, <1>5 DEF Same
<1>7. y.nextHit <= t.nextHit /\ x.nextHit \in Nat /\ y.nextHit \in Nat
  <2>1. t.nextHit \in Nat /\ x.nextHit \in Nat /\ y.nextHit \in Nat
    BY <1>2, <1>5, NetFacts DEF MayForwardAll
  <2> QED BY <1>2, <1>5, <2>1
<1>8. y.type = x.type /\ y.time = x.time
  BY <1>5 DEF Same, Fields, SwitchFields
<1>9. ASSUME NEW j \in 1 .. k
      PROVE  Line(y, q[j]) /\ (y.state[q[j]] = 1 => y.nextHit <= Finish(y, q[j]))
  <2>1. CASE j = k
    BY <1>5, <2>1 DEF i
  <2>2. CASE j # k
    <3>1. j \in 1 .. k - 1 /\ q[j] \in Node \ {i}
      BY <1>1, <2>2
    <3>2. y.inputQ[q[j]] = x.inputQ[q[j]] /\ y.state[q[j]] = x.state[q[j]]
      BY <1>5, <3>1
    <3>3. Line(x, q[j]) /\ (x.state[q[j]] = 1 => x.nextHit <= Finish(x, q[j]))
      BY <1>2, <3>1
    <3>4. Finish(y, q[j]) = Finish(x, q[j])
      BY <1>8, <3>2 DEF Finish, RemXTime, Rate
    <3>5. Line(y, q[j])
      BY <1>8, <3>2, <3>3 DEF Line, Sends
    <3>6. ASSUME y.state[q[j]] = 1 PROVE y.nextHit <= Finish(y, q[j])
      <4>1. x.nextHit <= Finish(x, q[j]) /\ Finish(x, q[j]) \in Nat
        <5>1. x.state[q[j]] = 1
          BY <3>2, <3>6
        <5>2. Busy(MsgFrom(q[j]), x.inputQ[q[j]])
          BY <3>3, <5>1 DEF Line, Sends
        <5>3. x.type \in Kinds /\ x.time \in Nat
          BY <1>2, NetFacts
        <5>4. MsgFrom(q[j]) \in SUBSET NWmsg
          BY MsgFacts
        <5>5. q[j] \in Node
          BY <3>1
        <5>6. Finish(x, q[j]) \in Nat
          <6> DEFINE n == q[j]
          <6>1. n \in Node /\ Busy(MsgFrom(n), x.inputQ[n]) /\ MsgFrom(n) \in SUBSET NWmsg
            BY <5>2, <5>4, <5>5
          <6> HIDE DEF n
          <6>2. Finish(x, n) \in Nat
            BY <5>3, <6>1, RemXTimeFacts
          <6> QED BY <6>2 DEF n
        <5> QED BY <3>3, <5>1, <5>6
      <4> QED BY <1>5, <1>7, <3>4, <4>1
    <3> QED BY <3>5, <3>6
  <2> QED BY <2>1, <2>2
<1>10. ASSUME NEW j \in Node, \A n \in 1 .. k : q[n] # j
       PROVE  y.inputQ[j] = t.inputQ[j] /\ y.state[j] = t.state[j]
  <2>1. \A n \in 1 .. k - 1 : q[n] # j
    BY <1>10
  <2>2. j # i
    BY <1>10 DEF i
  <2> QED BY <1>2, <1>5, <2>1, <2>2
<1>12. ASSUME NEW j \in 1 .. k PROVE Len(y.inputQ[q[j]]) >= Len(t.inputQ[q[j]]) - 1
  <2>1. CASE j = k
    <3>1. x.inputQ[i] = t.inputQ[i]
      BY <1>1, <1>2
    <3> QED BY <1>5, <2>1, <3>1 DEF i
  <2>2. CASE j # k
    <3>1. j \in 1 .. k - 1 /\ q[j] \in Node \ {i}
      BY <1>1, <2>2
    <3>2. y.inputQ[q[j]] = x.inputQ[q[j]]
      BY <1>5, <3>1
    <3> QED BY <1>2, <3>1, <3>2
  <2> QED BY <2>1, <2>2
<1>11. ForwardedTo(t, y, q, k)
  BY <1>5, <1>6, <1>7, <1>9, <1>10, <1>12 DEF ForwardedTo
<1> QED BY <1>3, <1>4, <1>11 DEF i

\* a holds what the structure is after k nodes have been looked at.
ForwardsInTurn(t, x, q, a) ==
  /\ a[0] = t /\ a[Len(q)] = x
  /\ \A k \in 1 .. Len(q) : /\ a[k] = ToSwitch(a[k - 1], q[k])
                            /\ MayForward(a[k - 1], q[k]) /\ Forwarded(a[k - 1], a[k], q[k])

LEMMA ForwardLoop ==
  ASSUME NEW t, NEW q, MayForwardAll(t, q), NEW x, x = FoldLeft(ToSwitch, t, q)
  PROVE  /\ ForwardedTo(t, x, q, Len(q))
         /\ \E a : ForwardsInTurn(t, x, q, a)
<1> DEFINE N == Len(q)
<1>1. N \in Nat /\ DOMAIN q = 1 .. N /\ q \in Seq(Node)
  BY DEF MayForwardAll
<1>2. PICK a : StepByStep("forward", t, q, a, N) /\ a[N] = FoldLeft(ToSwitch, t, q)
  <2> HIDE DEF N
  <2> QED BY <1>1, ForwardOneByOne
<1>3. a[0] = t /\ a[N] = x /\ \A k \in 1 .. N : a[k] = ToSwitch(a[k - 1], q[k])
  BY <1>2 DEF StepByStep, StepOne
<1>4. ForwardedTo(t, t, q, 0)
  <2>1. Net(t) /\ t.nextHit \in Nat /\ Outputs(t)
    BY NetFacts DEF MayForwardAll
  <2>2. Same(t, t, SwitchFields)
    BY <2>1 DEF Same, Net
  <2> QED BY <2>1, <2>2 DEF ForwardedTo
<1> DEFINE Good == {k \in Nat : k <= N => ForwardedTo(t, a[k], q, k)}
<1>5. 0 \in Good
  BY <1>3, <1>4
<1>6. \A k \in Nat : k \in Good => k + 1 \in Good
  <2> SUFFICES ASSUME NEW k \in Nat, k <= N => ForwardedTo(t, a[k], q, k), k + 1 <= N
               PROVE  ForwardedTo(t, a[k + 1], q, k + 1)
    OBVIOUS
  <2>1. k + 1 \in 1 .. N /\ (k + 1) - 1 = k
    BY <1>1
  <2>2. ForwardedTo(t, a[k], q, k)
    BY <1>1
  <2>3. a[k + 1] = ToSwitch(a[k], q[k + 1])
    BY <1>3, <2>1
  <2> DEFINE n == k + 1
  <2>4. n \in 1 .. Len(q) /\ ForwardedTo(t, a[k], q, n - 1) /\ a[n] = ToSwitch(a[k], q[n])
    BY <2>1, <2>2, <2>3
  <2> HIDE DEF n, N
  <2>5. ForwardedTo(t, a[n], q, n)
    BY <2>4, ForwardStep
  <2> QED BY <2>5 DEF n
<1> HIDE DEF Good
<1>7. Nat \subseteq Good
  BY <1>5, <1>6, AllNumbers
<1>8. \A k \in 0 .. N : ForwardedTo(t, a[k], q, k)
  BY <1>1, <1>7 DEF Good
<1>9. ASSUME NEW k \in 1 .. N
      PROVE  MayForward(a[k - 1], q[k]) /\ Forwarded(a[k - 1], a[k], q[k])
  <2>1. k - 1 \in 0 .. N
    BY <1>1
  <2>2. ForwardedTo(t, a[k - 1], q, k - 1) /\ a[k] = ToSwitch(a[k - 1], q[k]) /\ k \in 1 .. Len(q)
    BY <1>3, <1>8, <2>1
  <2> HIDE DEF N
  <2> QED BY <2>2, ForwardStep
<1>10. ForwardedTo(t, x, q, N)
  BY <1>1, <1>3, <1>8
<1>11. ForwardsInTurn(t, x, q, a)
  BY <1>3, <1>9 DEF ForwardsInTurn
<1> QED BY <1>10, <1>11

\* The outputs q have been sending, the first k of them have been looked at.
MayReceiveAll(t, q) ==
  /\ Net(t) /\ t.type = "SFDSE" /\ q \in Seq(Node) /\ NoDuplicates(q)
  /\ \A k \in 1 .. Len(q) : /\ t.swstate[q[k]] = 1 /\ t.switchQ[q[k]] # << >>
                            /\ Tail(t.switchQ[q[k]]) \in Seq(Whole(MsgTo(q[k])))

ReceivedTo(t, x, q, k) ==
  /\ Net(x) /\ Same(t, x, ReceiveFields) /\ x.nextHit <= t.nextHit
  /\ \A j \in 1 .. k : Output(x, q[j]) /\ (x.swstate[q[j]] = 1 => x.nextHit <= SwitchFinish(x, q[j]))
  /\ \A i \in Node : (\A j \in 1 .. k : q[j] # i) => x.switchQ[i] = t.switchQ[i] /\ x.swstate[i] = t.swstate[i]

LEMMA ReceiveStep ==
  ASSUME NEW t, NEW q, MayReceiveAll(t, q), NEW k \in 1 .. Len(q), NEW x, ReceivedTo(t, x, q, k - 1),
         NEW y, y = ToReceiver(x, q[k])
  PROVE  MayReceive(x, q[k]) /\ Received(x, y, q[k]) /\ ReceivedTo(t, y, q, k)
<1> DEFINE i == q[k]
<1>1. q \in Seq(Node) /\ i \in Node /\ k - 1 \in Nat /\ \A j \in 1 .. k - 1 : q[j] \in Node /\ q[j] # i
  BY DEF MayReceiveAll, NoDuplicates
<1>2. /\ Net(x) /\ Same(t, x, ReceiveFields) /\ x.nextHit <= t.nextHit
      /\ \A j \in 1 .. k - 1 : Output(x, q[j]) /\ (x.swstate[q[j]] = 1 => x.nextHit <= SwitchFinish(x, q[j]))
      /\ \A j \in Node : (\A n \in 1 .. k - 1 : q[n] # j)
                           => x.switchQ[j] = t.switchQ[j] /\ x.swstate[j] = t.swstate[j]
  BY DEF ReceivedTo
<1>3. MayReceive(x, i)
  <2>1. t.type = "SFDSE" /\ t.swstate[i] = 1 /\ t.switchQ[i] # << >> /\ Tail(t.switchQ[i]) \in Seq(Whole(MsgTo(i)))
    BY DEF MayReceiveAll
  <2>2. x.type = t.type
    BY <1>2 DEF Same, Fields, ReceiveFields
  <2>3. x.switchQ[i] = t.switchQ[i] /\ x.swstate[i] = t.swstate[i]
    BY <1>1, <1>2
  <2> HIDE DEF i
  <2> QED BY <1>1, <1>2, <2>1, <2>2, <2>3 DEF MayReceive
<1>4. Received(x, y, i)
  <2> HIDE DEF i
  <2>1. y = ToReceiver(x, i)
    BY DEF i
  <2> QED BY <1>3, <2>1, ToReceiverFacts
<1>5. /\ Net(y) /\ Same(x, y, ReceiveFields) /\ y.nextHit <= x.nextHit
      /\ Output(y, i) /\ (y.swstate[i] = 1 => y.nextHit <= SwitchFinish(y, i))
      /\ \A j \in Node \ {i} : y.switchQ[j] = x.switchQ[j] /\ y.swstate[j] = x.swstate[j]
  BY <1>4 DEF Received
<1> HIDE DEF i
<1>6. Same(t, y, ReceiveFields)
  BY <1>2, <1>5 DEF Same
<1>7. y.nextHit <= t.nextHit /\ x.nextHit \in Nat /\ y.nextHit \in Nat
  <2>1. t.nextHit \in Nat /\ x.nextHit \in Nat /\ y.nextHit \in Nat
    BY <1>2, <1>5, NetFacts DEF MayReceiveAll
  <2> QED BY <1>2, <1>5, <2>1
<1>8. y.time = x.time
  BY <1>5 DEF Same, Fields, ReceiveFields
<1>9. ASSUME NEW j \in 1 .. k
      PROVE  Output(y, q[j]) /\ (y.swstate[q[j]] = 1 => y.nextHit <= SwitchFinish(y, q[j]))
  <2>1. CASE j = k
    BY <1>5, <2>1 DEF i
  <2>2. CASE j # k
    <3>1. j \in 1 .. k - 1 /\ q[j] \in Node \ {i}
      BY <1>1, <2>2
    <3>2. y.switchQ[q[j]] = x.switchQ[q[j]] /\ y.swstate[q[j]] = x.swstate[q[j]]
      BY <1>5, <3>1
    <3>3. Output(x, q[j]) /\ (x.swstate[q[j]] = 1 => x.nextHit <= SwitchFinish(x, q[j]))
      BY <1>2, <3>1
    <3>4. SwitchFinish(y, q[j]) = SwitchFinish(x, q[j])
      BY <1>8, <3>2 DEF SwitchFinish
    <3>5. Output(y, q[j])
      BY <3>2, <3>3 DEF Output
    <3>6. ASSUME y.swstate[q[j]] = 1 PROVE y.nextHit <= SwitchFinish(y, q[j])
      <4>1. x.nextHit <= SwitchFinish(x, q[j]) /\ SwitchFinish(x, q[j]) \in Nat
        <5> DEFINE n == q[j]
        <5>1. x.swstate[n] = 1
          BY <3>2, <3>6
        <5>2. Busy(MsgTo(n), x.switchQ[n])
          BY <3>3, <5>1 DEF Output
        <5>3. x.time \in Nat
          BY <1>2, NetFacts
        <5>4. MsgTo(n) \in SUBSET NWmsg
          BY MsgFacts
        <5> HIDE DEF n
        <5>5. SwitchFinish(x, n) \in Nat
          BY <5>2, <5>3, <5>4, SwitchFinishFacts
        <5> QED BY <3>3, <5>1, <5>5 DEF n
      <4> QED BY <1>5, <1>7, <3>4, <4>1
    <3> QED BY <3>5, <3>6
  <2> QED BY <2>1, <2>2
<1>10. ASSUME NEW j \in Node, \A n \in 1 .. k : q[n] # j
       PROVE  y.switchQ[j] = t.switchQ[j] /\ y.swstate[j] = t.swstate[j]
  <2>1. \A n \in 1 .. k - 1 : q[n] # j
    BY <1>10
  <2>2. j # i
    BY <1>10 DEF i
  <2> QED BY <1>2, <1>5, <2>1, <2>2
<1>11. ReceivedTo(t, y, q, k)
  BY <1>5, <1>6, <1>7, <1>9, <1>10 DEF ReceivedTo
<1> QED BY <1>3, <1>4, <1>11 DEF i

\* a holds what the structure is after k nodes have been looked at.
ReceivesInTurn(t, x, q, a) ==
  /\ a[0] = t /\ a[Len(q)] = x
  /\ \A k \in 1 .. Len(q) : /\ a[k] = ToReceiver(a[k - 1], q[k])
                            /\ MayReceive(a[k - 1], q[k]) /\ Received(a[k - 1], a[k], q[k])

LEMMA ReceiveLoop ==
  ASSUME NEW t, NEW q, MayReceiveAll(t, q), NEW x, x = FoldLeft(ToReceiver, t, q)
  PROVE  /\ ReceivedTo(t, x, q, Len(q))
         /\ \E a : ReceivesInTurn(t, x, q, a)
<1> DEFINE N == Len(q)
<1>1. N \in Nat /\ DOMAIN q = 1 .. N /\ q \in Seq(Node)
  BY DEF MayReceiveAll
<1>2. PICK a : StepByStep("deliver", t, q, a, N) /\ a[N] = FoldLeft(ToReceiver, t, q)
  <2> HIDE DEF N
  <2> QED BY <1>1, DeliverOneByOne
<1>3. a[0] = t /\ a[N] = x /\ \A k \in 1 .. N : a[k] = ToReceiver(a[k - 1], q[k])
  BY <1>2 DEF StepByStep, StepOne
<1>4. ReceivedTo(t, t, q, 0)
  <2>1. Net(t) /\ t.nextHit \in Nat
    BY NetFacts DEF MayReceiveAll
  <2>2. Same(t, t, ReceiveFields)
    BY <2>1 DEF Same, Net
  <2> QED BY <2>1, <2>2 DEF ReceivedTo
<1> DEFINE Good == {k \in Nat : k <= N => ReceivedTo(t, a[k], q, k)}
<1>5. 0 \in Good
  BY <1>3, <1>4
<1>6. \A k \in Nat : k \in Good => k + 1 \in Good
  <2> SUFFICES ASSUME NEW k \in Nat, k <= N => ReceivedTo(t, a[k], q, k), k + 1 <= N
               PROVE  ReceivedTo(t, a[k + 1], q, k + 1)
    OBVIOUS
  <2>1. k + 1 \in 1 .. N /\ (k + 1) - 1 = k
    BY <1>1
  <2>2. ReceivedTo(t, a[k], q, k)
    BY <1>1
  <2>3. a[k + 1] = ToReceiver(a[k], q[k + 1])
    BY <1>3, <2>1
  <2> DEFINE n == k + 1
  <2>4. n \in 1 .. Len(q) /\ ReceivedTo(t, a[k], q, n - 1) /\ a[n] = ToReceiver(a[k], q[n])
    BY <2>1, <2>2, <2>3
  <2> HIDE DEF n, N
  <2>5. ReceivedTo(t, a[n], q, n)
    BY <2>4, ReceiveStep
  <2> QED BY <2>5 DEF n
<1> HIDE DEF Good
<1>7. Nat \subseteq Good
  BY <1>5, <1>6, AllNumbers
<1>8. \A k \in 0 .. N : ReceivedTo(t, a[k], q, k)
  BY <1>1, <1>7 DEF Good
<1>9. ASSUME NEW k \in 1 .. N
      PROVE  MayReceive(a[k - 1], q[k]) /\ Received(a[k - 1], a[k], q[k])
  <2>1. k - 1 \in 0 .. N
    BY <1>1
  <2>2. ReceivedTo(t, a[k - 1], q, k - 1) /\ a[k] = ToReceiver(a[k - 1], q[k]) /\ k \in 1 .. Len(q)
    BY <1>3, <1>8, <2>1
  <2> HIDE DEF N
  <2> QED BY <2>2, ReceiveStep
<1>10. ReceivedTo(t, x, q, N)
  BY <1>1, <1>3, <1>8
<1>11. ReceivesInTurn(t, x, q, a)
  BY <1>3, <1>9 DEF ReceivesInTurn
<1> QED BY <1>10, <1>11

\* Outputs that are idle start to send.
SwitchTimely(S) == \A r \in Node : S.swstate[r] = 1 => S.nextHit <= SwitchFinish(S, r)

LEMMA StartToReceiversFacts ==
  ASSUME NEW S, Net(S), Outputs(S), SwitchTimely(S), NEW s, s = StartToReceivers(S)
  PROVE  /\ Net(s) /\ Outputs(s) /\ SwitchTimely(s) /\ Same(S, s, {"swstate", "nextHit"})
         /\ s.nextHit <= S.nextHit
<1> DEFINE starts == {r \in Node : S.swstate[r] = 0 /\ S.switchQ[r] # << >>}
           x == [S EXCEPT !.swstate = [r \in Node |-> IF r \in starts THEN 1 ELSE @[r]]]
           times == {SwitchFinish(S, r) : r \in starts}
<1>1. s = Hit(x, times)
  BY DEF StartToReceivers
<1>2. IsNet(S) /\ S.swstate \in [Node -> {0, 1}] /\ S.nextHit \in Nat /\ S.time \in Nat
  BY NetFacts
<1>3. Same(S, x, {"swstate"}) /\ x.swstate = [r \in Node |-> IF r \in starts THEN 1 ELSE S.swstate[r]]
  BY <1>2 DEF Same, IsNet, Fields
<1>4. \A r \in starts : /\ r \in Node /\ S.swstate[r] = 0
                        /\ Busy(MsgTo(r), S.switchQ[r]) /\ SwitchFinish(S, r) \in Nat
  <2> SUFFICES ASSUME NEW r \in starts
               PROVE  Busy(MsgTo(r), S.switchQ[r]) /\ SwitchFinish(S, r) \in Nat
    OBVIOUS
  <2>1. r \in Node /\ S.swstate[r] = 0 /\ S.switchQ[r] # << >> /\ MsgTo(r) \in SUBSET NWmsg
    BY MsgFacts
  <2>2. Idle(MsgTo(r), S.switchQ[r])
    BY <2>1 DEF Outputs, Output
  <2>3. Busy(MsgTo(r), S.switchQ[r])
    BY <2>1, <2>2, IdleStarts
  <2>4. SwitchFinish(S, r) \in Nat
    BY <1>2, <2>1, <2>3, SwitchFinishFacts
  <2> QED BY <2>3, <2>4
<1>5. times \in SUBSET Nat /\ \A r \in starts : SwitchFinish(S, r) \in times
  BY <1>4
<1> HIDE DEF starts, x, times
<1>6. /\ x.switchQ = S.switchQ /\ x.time = S.time /\ x.nextHit = S.nextHit
  BY <1>3 DEF Same, Fields
<1>7. Net(x)
  <2>1. x.swstate \in [Node -> {0, 1}]
    BY <1>2, <1>3
  <2>2. NewScalars(x, {"swstate"})
    BY <2>1 DEF NewScalars
  <2>3. {"swstate"} \cap QueueFields = {}
    BY DEF QueueFields
  <2> QED BY <1>3, <2>2, <2>3, NetAgain
<1>8. /\ Net(s) /\ Same(x, s, {"nextHit"}) /\ s.nextHit <= x.nextHit /\ \A n \in times : s.nextHit <= n
      /\ s.switchQ = x.switchQ /\ s.swstate = x.swstate /\ s.time = x.time
  BY <1>1, <1>5, <1>7, HitNet
<1>9. \A r \in Node : SwitchFinish(s, r) = SwitchFinish(S, r)
  BY <1>6, <1>8 DEF SwitchFinish
<1>10. Outputs(s)
  <2> SUFFICES ASSUME NEW r \in Node PROVE Output(s, r)
    BY DEF Outputs
  <2>1. s.switchQ[r] = S.switchQ[r] /\ s.swstate[r] = IF r \in starts THEN 1 ELSE S.swstate[r]
    BY <1>3, <1>6, <1>8
  <2>2. CASE r \in starts
    BY <1>4, <2>1, <2>2 DEF Output
  <2>3. CASE r \notin starts
    BY <2>1, <2>3 DEF Outputs, Output
  <2> QED BY <2>2, <2>3
<1>11. SwitchTimely(s)
  <2> SUFFICES ASSUME NEW r \in Node, s.swstate[r] = 1 PROVE s.nextHit <= SwitchFinish(s, r)
    BY DEF SwitchTimely
  <2>1. CASE r \in starts
    BY <1>5, <1>8, <1>9, <2>1
  <2>2. CASE r \notin starts
    <3>1. S.swstate[r] = 1
      BY <1>3, <1>8, <2>2
    <3>2. S.nextHit <= SwitchFinish(S, r) /\ SwitchFinish(S, r) \in Nat
      <4>1. Busy(MsgTo(r), S.switchQ[r]) /\ MsgTo(r) \in SUBSET NWmsg
        BY <3>1, MsgFacts DEF Outputs, Output
      <4>2. SwitchFinish(S, r) \in Nat
        BY <1>2, <4>1, SwitchFinishFacts
      <4> QED BY <3>1, <4>2 DEF SwitchTimely
    <3>3. s.nextHit \in Nat
      BY <1>8, NetFacts
    <3> QED BY <1>2, <1>6, <1>8, <1>9, <3>2, <3>3
  <2> QED BY <2>1, <2>2
<1>12. Same(S, s, {"swstate", "nextHit"})
  BY <1>3, <1>8 DEF Same
<1> QED BY <1>6, <1>8, <1>10, <1>11, <1>12

\* The block may be called earlier.
LEMMA TimelyLater ==
  ASSUME NEW S, Net(S), Lines(S), Timely(S), NEW s, Net(s), s.inputQ = S.inputQ, s.state = S.state,
         s.type = S.type, s.time = S.time, s.nextHit <= S.nextHit
  PROVE  Lines(s) /\ Timely(s)
<1>1. S.time \in Nat /\ S.nextHit \in Nat /\ s.nextHit \in Nat /\ S.type \in Kinds
  BY NetFacts
<1>2. \A i : Finish(s, i) = Finish(S, i)
  BY FinishSame
<1>3. Lines(s)
  BY DEF Lines, Line, Sends
<1>4. ASSUME NEW i \in Node, s.state[i] = 1 PROVE s.nextHit <= Finish(s, i)
  <2>1. Busy(MsgFrom(i), S.inputQ[i]) /\ MsgFrom(i) \in SUBSET NWmsg
    BY <1>4, MsgFacts DEF Lines, Line, Sends
  <2>2. Finish(S, i) \in Nat
    BY <1>1, <2>1, RemXTimeFacts
  <2>3. S.nextHit <= Finish(S, i)
    BY <1>4 DEF Timely
  <2> QED BY <1>1, <1>2, <2>2, <2>3
<1> QED BY <1>3, <1>4 DEF Timely

\* The switch's part of what Spend does
SwitchSpent(S, W, e) ==
  [S EXCEPT !.switchQ = [r \in Node |-> IF r \in W
     THEN <<[Head(S.switchQ[r]) EXCEPT !.remaining = @ - Datarate * e]>> \o Tail(@[r])
     ELSE @[r]]]

LEMMA SwitchSpentFacts ==
  ASSUME NEW S, Net(S), NEW W \in SUBSET Node, NEW e \in Nat,
         \A r \in W : S.switchQ[r] # << >> /\ Tail(S.switchQ[r]) \in Seq(Whole(MsgTo(r))),
         NEW s, s = SwitchSpent(S, W, e)
  PROVE  /\ Net(s) /\ Same(S, s, {"switchQ"})
         /\ \A r \in W : s.switchQ[r] # << >> /\ Tail(s.switchQ[r]) = Tail(S.switchQ[r])
                         /\ \E n \in Int : s.switchQ[r] = <<[Head(S.switchQ[r]) EXCEPT !.remaining = n]>> \o Tail(S.switchQ[r])
         /\ \A r \in Node \ W : s.switchQ[r] = S.switchQ[r]
         /\ \A r \in Node : Msgs(s.switchQ[r]) = Msgs(S.switchQ[r])
<1> DEFINE first(r) == [Head(S.switchQ[r]) EXCEPT !.remaining = Head(S.switchQ[r]).remaining - Datarate * e]
           sw == [r \in Node |-> IF r \in W THEN <<first(r)>> \o Tail(S.switchQ[r]) ELSE S.switchQ[r]]
<1>1. s = [S EXCEPT !.switchQ = sw]
  BY DEF SwitchSpent
<1>2. IsNet(S) /\ Queues(S) /\ Scalars(S) /\ S.switchQ \in [Node -> Seq(NWmsg)]
  BY NetFacts
<1>3. ASSUME NEW r \in W
      PROVE  /\ sw[r] \in Seq(MsgTo(r)) /\ sw[r] # << >> /\ Tail(sw[r]) = Tail(S.switchQ[r])
             /\ \E n \in Int : sw[r] = <<[Head(S.switchQ[r]) EXCEPT !.remaining = n]>> \o Tail(S.switchQ[r])
             /\ Msgs(sw[r]) = Msgs(S.switchQ[r])
  <2> DEFINE q == S.switchQ[r]
             A == MsgTo(r)
             n == Head(q).remaining - Datarate * e
             p == sw[r]
  <2>1. q \in Seq(A) /\ q # << >> /\ Tail(q) \in Seq(Whole(A)) /\ Frames(A) /\ A \in SUBSET NWmsg
    BY <1>2, FramesFacts, MsgFacts DEF Queues
  <2>2. p = <<[Head(q) EXCEPT !.remaining = n]>> \o Tail(q)
    OBVIOUS
  <2> HIDE DEF q, A, sw, p
  <2>3. Head(q) \in A
    BY <2>1, HeadAndTail
  <2>4. n \in Int
    <3>1. Head(q).remaining \in Int
      BY <2>1, <2>3, MsgFacts
    <3> QED BY <3>1, FrameFacts
  <2> HIDE DEF n
  <2> DEFINE y == [Head(q) EXCEPT !.remaining = n]
  <2>5. y \in A /\ y.msg = Head(q).msg
    BY <2>1, <2>3, <2>4, OtherRemaining
  <2>6. p = <<y>> \o Tail(q)
    BY <2>2
  <2>7. \E z \in Int : p = <<[Head(q) EXCEPT !.remaining = z]>> \o Tail(q)
    BY <2>2, <2>4
  <2> HIDE DEF y
  <2>8. NewFirst(A, q, y, p)
    BY <2>1, <2>5, <2>6 DEF NewFirst
  <2>9. p \in Seq(A) /\ p # << >> /\ Tail(p) = Tail(q) /\ Msgs(p) = Msgs(q)
    BY <2>8, NewHead
  <2> QED BY <2>7, <2>9 DEF p, q, A
<1>4. \A r \in Node \ W : sw[r] = S.switchQ[r]
  OBVIOUS
<1>5. sw = [r \in Node |-> sw[r]]
  OBVIOUS
<1> HIDE DEF sw, first
<1>6. Same(S, s, {"switchQ"}) /\ s.switchQ = sw
  BY <1>1, <1>2 DEF Same, IsNet, Fields
<1>7. \A r \in Node : sw[r] \in Seq(MsgTo(r)) /\ sw[r] \in Seq(NWmsg)
  <2> TAKE r \in Node
  <2>1. sw[r] \in Seq(MsgTo(r))
    BY <1>2, <1>3, <1>4 DEF Queues
  <2> QED BY <2>1, MsgFacts, SeqMonotonic
<1>8. Queues(s)
  <2>1. /\ s.preprocQ = S.preprocQ /\ s.statpreprocQ = S.statpreprocQ /\ s.statinputQ = S.statinputQ
        /\ s.inputQ = S.inputQ /\ s.outputQ = S.outputQ /\ s.postprocQ = S.postprocQ
    BY <1>6 DEF Same, Fields
  <2>2. s.switchQ \in [Node -> Seq(NWmsg)]
    BY <1>5, <1>6, <1>7
  <2> QED BY <1>2, <1>6, <1>7, <2>1, <2>2 DEF Queues
<1>9. Scalars(s)
  <2>1. NewScalars(s, {"switchQ"})
    BY DEF NewScalars
  <2> QED BY <1>2, <1>6, <2>1, ScalarsAgain
<1>10. Net(s)
  BY <1>6, <1>8, <1>9 DEF Net, Same
<1> QED BY <1>3, <1>4, <1>6, <1>10


SFDSEFields == {"state", "inputQ", "swstate", "switchQ", "outputQ", "switchmem", "nodemem", "nextHit"}

\* The switched network: u is reached when the loop over the nodes is done, v
\* when they have started, w after the outputs' frames have been counted down,
\* and y after the loop over the outputs.
SFDSESteps(S, e, t, u, v, w, y, s) ==
  /\ t = Spend(S, NodesOf(S.state), e)
  /\ u = FoldLeft(ToSwitch, t, ForNodes(NodesOf(S.state)))
  /\ v = StartAll(u)
  /\ w = SwitchSpent(v, NodesOf(S.swstate), e)
  /\ y = FoldLeft(ToReceiver, w, ForNodes(NodesOf(S.swstate)))
  /\ s = StartToReceivers(y)

LEMMA SFDSEInSteps ==
  ASSUME NEW S, NEW e, NEW s, s = SFDSE(S, e)
  PROVE  \E t, u, v, w, y : SFDSESteps(S, e, t, u, v, w, y, s)
<1> DEFINE t == Spend(S, NodesOf(S.state), e)
           u == FoldLeft(ToSwitch, t, ForNodes(NodesOf(S.state)))
           v == StartAll(u)
           w == SwitchSpent(v, NodesOf(S.swstate), e)
           y == FoldLeft(ToReceiver, w, ForNodes(NodesOf(S.swstate)))
<1>1. s = StartToReceivers(y)
  BY DEF SFDSE, SwitchSpent, NodesOf
<1>2. SFDSESteps(S, e, t, u, v, w, y, s)
  <2>1. t = Spend(S, NodesOf(S.state), e)
    OBVIOUS
  <2> HIDE DEF t
  <2>2. u = FoldLeft(ToSwitch, t, ForNodes(NodesOf(S.state)))
    OBVIOUS
  <2> HIDE DEF u
  <2>3. v = StartAll(u)
    OBVIOUS
  <2> HIDE DEF v
  <2>4. w = SwitchSpent(v, NodesOf(S.swstate), e)
    OBVIOUS
  <2> HIDE DEF w
  <2>5. y = FoldLeft(ToReceiver, w, ForNodes(NodesOf(S.swstate)))
    OBVIOUS
  <2> HIDE DEF y
  <2> QED BY <1>1, <2>1, <2>2, <2>3, <2>4, <2>5 DEF SFDSESteps
<1> QED BY <1>2

LEMMA SFDSEForwards ==
  ASSUME NEW S, Net(S), Lines(S), Outputs(S), S.type = "SFDSE", NEW e \in Nat,
         NEW q, q = ForNodes(NodesOf(S.state)),
         NEW t, t = Spend(S, NodesOf(S.state), e),
         NEW u, u = FoldLeft(ToSwitch, t, q), NEW v, v = StartAll(u)
  PROVE  /\ Same(S, t, {"inputQ"}) /\ \A i \in Node : Msgs(t.inputQ[i]) = Msgs(S.inputQ[i])
         /\ Net(t) /\ MayForwardAll(t, q) /\ Same(t, u, SwitchFields)
         /\ Same(u, v, {"state", "nextHit"}) /\ v.nextHit <= S.nextHit
         /\ Net(u) /\ Lines(u) /\ Outputs(u) /\ Net(v) /\ Lines(v) /\ Timely(v) /\ Outputs(v)
         /\ \A i \in Node : v.state[i] = 0 => v.inputQ[i] = << >>
         /\ LoseOne(NodesOf(S.state), S.inputQ, v.inputQ)
<1> DEFINE B == NodesOf(S.state)
<1>1. /\ IsNet(S) /\ Queues(S) /\ Scalars(S) /\ S.type \in Kinds /\ S.nextHit \in Nat
  BY NetFacts
<1>2. B \in SUBSET Node /\ \A i \in B : i \in Node /\ S.state[i] = 1
  BY DEF NodesOf
<1>3. \A i \in Node : i \notin B => S.state[i] # 1
  BY DEF NodesOf
<1>4. Heads(S, B)
  <2>1. \A i \in B : Busy(MsgFrom(i), S.inputQ[i])
    BY <1>2 DEF Lines, Line, Sends
  <2> QED BY <2>1 DEF Heads, Busy
<1>5. t = Spend(S, B, e) /\ q = ForNodes(B)
  OBVIOUS
<1> HIDE DEF B
<1>6. /\ Same(S, t, {"inputQ"}) /\ Queues(t) /\ Heads(t, B)
      /\ \A i \in Node \ B : t.inputQ[i] = S.inputQ[i]
      /\ \A i \in Node : Msgs(t.inputQ[i]) = Msgs(S.inputQ[i])
  BY <1>1, <1>2, <1>4, <1>5, SpendFacts
<1>7. /\ t.type = S.type /\ t.state = S.state /\ t.nextHit = S.nextHit /\ t.switchQ = S.switchQ
      /\ t.swstate = S.swstate /\ t.time = S.time
  BY <1>6 DEF Same, Fields
<1>8. Net(t)
  <2>1. NewScalars(t, {"inputQ"})
    BY DEF NewScalars
  <2>2. Scalars(t)
    BY <1>1, <1>6, <2>1, ScalarsAgain
  <2> QED BY <1>6, <2>2 DEF Net, Same
<1>9. Outputs(t)
  BY <1>7 DEF Outputs, Output
<1>10. /\ q \in Seq(B) /\ q \in Seq(Node) /\ NoDuplicates(q)
       /\ \A i \in B : \E k \in 1 .. Len(q) : q[k] = i
  <2>1. B \in SUBSET Node /\ q = ForNodes(B)
    BY <1>2, <1>5
  <2> QED BY <2>1, ForNodesFacts
<1>11. MayForwardAll(t, q)
  <2>1. \A k \in 1 .. Len(q) : /\ t.state[q[k]] = 1 /\ t.inputQ[q[k]] # << >>
                               /\ Tail(t.inputQ[q[k]]) \in Seq(Whole(MsgFrom(q[k])))
    <3> TAKE k \in 1 .. Len(q)
    <3>1. q[k] \in B
      BY <1>10
    <3> QED BY <1>2, <1>6, <1>7, <3>1 DEF Heads
  <2> QED BY <1>7, <1>8, <1>9, <1>10, <2>1 DEF MayForwardAll
<1>12. ForwardedTo(t, u, q, Len(q))
  BY <1>11, ForwardLoop
<1>13. /\ Net(u) /\ Same(t, u, SwitchFields) /\ u.nextHit <= t.nextHit /\ Outputs(u)
       /\ \A j \in 1 .. Len(q) : Line(u, q[j]) /\ (u.state[q[j]] = 1 => u.nextHit <= Finish(u, q[j]))
       /\ \A j \in 1 .. Len(q) : Len(u.inputQ[q[j]]) >= Len(t.inputQ[q[j]]) - 1
       /\ \A i \in Node : (\A j \in 1 .. Len(q) : q[j] # i) => u.inputQ[i] = t.inputQ[i] /\ u.state[i] = t.state[i]
  BY <1>12 DEF ForwardedTo
<1>14. u.type = S.type
  BY <1>7, <1>13 DEF Same, Fields, SwitchFields
<1>15. ASSUME NEW i \in Node \ B
       PROVE  u.inputQ[i] = S.inputQ[i] /\ u.state[i] = S.state[i]
  <2>1. \A j \in 1 .. Len(q) : q[j] # i
    BY <1>10
  <2> QED BY <1>6, <1>7, <1>13, <2>1
<1>16. Lines(u)
  <2> SUFFICES ASSUME NEW i \in Node PROVE Line(u, i)
    BY DEF Lines
  <2>1. CASE i \in B
    <3>1. PICK k \in 1 .. Len(q) : q[k] = i
      BY <1>10, <2>1
    <3> QED BY <1>13, <3>1
  <2>2. CASE i \notin B
    BY <1>14, <1>15, <2>2 DEF Lines, Line, Sends
  <2> QED BY <2>1, <2>2
<1>17. Timely(u)
  <2> SUFFICES ASSUME NEW i \in Node, u.state[i] = 1 PROVE u.nextHit <= Finish(u, i)
    BY DEF Timely
  <2>1. i \in B
    BY <1>3, <1>15
  <2>2. PICK k \in 1 .. Len(q) : q[k] = i
    BY <1>10, <2>1
  <2> QED BY <1>13, <2>2
<1>18. /\ Net(v) /\ Lines(v) /\ Timely(v) /\ Same(u, v, {"state", "nextHit"})
       /\ v.nextHit <= u.nextHit
       /\ \A i \in Node : v.state[i] = 0 => v.inputQ[i] = << >>
  <2>1. u.type # "TDMA"
    BY <1>14
  <2> QED BY <1>13, <1>16, <1>17, <2>1, StartAllFacts
<1>19. v.nextHit <= S.nextHit
  <2>1. u.nextHit \in Nat /\ v.nextHit \in Nat
    BY <1>13, <1>18, NetFacts
  <2> QED BY <1>1, <1>7, <1>13, <1>18, <2>1
<1>20. Outputs(v)
  <2>1. v.switchQ = u.switchQ /\ v.swstate = u.swstate
    BY <1>18 DEF Same, Fields
  <2> QED BY <1>13, <2>1 DEF Outputs, Output
<1>21. LoseOne(B, S.inputQ, v.inputQ)
  <2> SUFFICES ASSUME NEW i \in Node
               PROVE  Len(v.inputQ[i]) >= Len(S.inputQ[i]) - (IF i \in B THEN 1 ELSE 0)
    BY DEF LoseOne
  <2>1. v.inputQ = u.inputQ
    BY <1>18 DEF Same, Fields
  <2>2. /\ S.inputQ[i] \in Seq(NWmsg) /\ t.inputQ[i] \in Seq(NWmsg)
        /\ Msgs(t.inputQ[i]) = Msgs(S.inputQ[i])
    BY <1>1, <1>6 DEF Queues
  <2>3. Len(t.inputQ[i]) = Len(S.inputQ[i]) /\ Len(S.inputQ[i]) \in Nat
    BY <2>2, MsgsFacts
  <2>4. CASE i \in B
    <3>1. PICK k \in 1 .. Len(q) : q[k] = i
      BY <1>10, <2>4
    <3>2. Len(u.inputQ[i]) >= Len(t.inputQ[i]) - 1
      BY <1>13, <3>1
    <3> QED BY <2>1, <2>3, <2>4, <3>2
  <2>5. CASE i \notin B
    <3>1. u.inputQ[i] = S.inputQ[i]
      BY <1>15, <2>5
    <3> QED BY <2>1, <2>3, <2>5, <3>1
  <2> QED BY <2>4, <2>5
<1> QED BY <1>6, <1>8, <1>11, <1>13, <1>16, <1>18, <1>19, <1>20, <1>21 DEF B

LEMMA SFDSEReceives ==
  ASSUME NEW v, Net(v), Lines(v), Timely(v), Outputs(v), v.type = "SFDSE", NEW e \in Nat,
         NEW q, q = ForNodes(NodesOf(v.swstate)),
         NEW w, w = SwitchSpent(v, NodesOf(v.swstate), e),
         NEW y, y = FoldLeft(ToReceiver, w, q), NEW s, s = StartToReceivers(y)
  PROVE  /\ Same(v, w, {"switchQ"}) /\ \A i \in Node : Msgs(w.switchQ[i]) = Msgs(v.switchQ[i])
         /\ \A r \in Node : v.switchQ[r] # << >> /\ v.swstate[r] = 1 =>
              \E n \in Int : w.switchQ[r] = <<[Head(v.switchQ[r]) EXCEPT !.remaining = n]>> \o Tail(v.switchQ[r])
         /\ \A r \in Node : v.swstate[r] # 1 => w.switchQ[r] = v.switchQ[r]
         /\ Net(w) /\ MayReceiveAll(w, q) /\ Same(w, y, ReceiveFields)
         /\ Same(y, s, {"swstate", "nextHit"}) /\ s.nextHit <= v.nextHit
         /\ Net(y) /\ Net(s) /\ Lines(s) /\ Timely(s) /\ Outputs(s) /\ SwitchTimely(s)
<1> DEFINE W == NodesOf(v.swstate)
<1>1. v.nextHit \in Nat /\ v.swstate \in [Node -> {0, 1}]
  BY NetFacts
<1>2. W \in SUBSET Node /\ \A r \in W : r \in Node /\ v.swstate[r] = 1
  BY DEF NodesOf
<1>3. \A r \in Node : r \notin W => v.swstate[r] # 1
  BY DEF NodesOf
<1>4. \A r \in W : v.switchQ[r] # << >> /\ Tail(v.switchQ[r]) \in Seq(Whole(MsgTo(r)))
  <2>1. \A r \in W : Busy(MsgTo(r), v.switchQ[r])
    BY <1>2 DEF Outputs, Output
  <2> QED BY <2>1 DEF Busy
<1>5. w = SwitchSpent(v, W, e) /\ q = ForNodes(W)
  OBVIOUS
<1> HIDE DEF W
<1>6. /\ Net(w) /\ Same(v, w, {"switchQ"})
      /\ \A r \in W : w.switchQ[r] # << >> /\ Tail(w.switchQ[r]) = Tail(v.switchQ[r])
                      /\ \E n \in Int : w.switchQ[r] = <<[Head(v.switchQ[r]) EXCEPT !.remaining = n]>> \o Tail(v.switchQ[r])
      /\ \A r \in Node \ W : w.switchQ[r] = v.switchQ[r]
      /\ \A r \in Node : Msgs(w.switchQ[r]) = Msgs(v.switchQ[r])
  <2>1. W \in SUBSET Node /\ w = SwitchSpent(v, W, e)
    BY <1>2, <1>5
  <2> QED BY <1>4, <2>1, SwitchSpentFacts
<1>7. /\ w.type = v.type /\ w.state = v.state /\ w.nextHit = v.nextHit /\ w.inputQ = v.inputQ
      /\ w.swstate = v.swstate /\ w.time = v.time
  BY <1>6 DEF Same, Fields
<1>8. /\ q \in Seq(W) /\ q \in Seq(Node) /\ NoDuplicates(q)
      /\ \A i \in W : \E k \in 1 .. Len(q) : q[k] = i
  <2>1. W \in SUBSET Node /\ q = ForNodes(W)
    BY <1>2, <1>5
  <2> QED BY <2>1, ForNodesFacts
<1>9. MayReceiveAll(w, q)
  <2>1. \A k \in 1 .. Len(q) : /\ w.swstate[q[k]] = 1 /\ w.switchQ[q[k]] # << >>
                               /\ Tail(w.switchQ[q[k]]) \in Seq(Whole(MsgTo(q[k])))
    <3> TAKE k \in 1 .. Len(q)
    <3>1. q[k] \in W
      BY <1>8
    <3>2. w.swstate[q[k]] = 1
      BY <1>2, <1>7, <3>1
    <3>3. w.switchQ[q[k]] # << >> /\ Tail(w.switchQ[q[k]]) = Tail(v.switchQ[q[k]])
      BY <1>6, <3>1, Zenon
    <3> QED BY <1>4, <3>1, <3>2, <3>3
  <2>2. w.type = "SFDSE"
    BY <1>7
  <2> QED BY <1>6, <1>8, <2>1, <2>2 DEF MayReceiveAll
<1>10. ReceivedTo(w, y, q, Len(q))
  BY <1>9, ReceiveLoop
<1>11. /\ Net(y) /\ Same(w, y, ReceiveFields) /\ y.nextHit <= w.nextHit
       /\ \A j \in 1 .. Len(q) : Output(y, q[j]) /\ (y.swstate[q[j]] = 1 => y.nextHit <= SwitchFinish(y, q[j]))
       /\ \A i \in Node : (\A j \in 1 .. Len(q) : q[j] # i) => y.switchQ[i] = w.switchQ[i] /\ y.swstate[i] = w.swstate[i]
  BY <1>10 DEF ReceivedTo
<1>12. y.inputQ = v.inputQ /\ y.state = v.state /\ y.type = v.type /\ y.time = v.time
  BY <1>7, <1>11 DEF Same, Fields, ReceiveFields
<1>13. ASSUME NEW r \in Node \ W
       PROVE  y.switchQ[r] = v.switchQ[r] /\ y.swstate[r] = v.swstate[r]
  <2>1. \A j \in 1 .. Len(q) : q[j] # r
    BY <1>8
  <2>2. w.switchQ[r] = v.switchQ[r]
    BY <1>6, Zenon
  <2> QED BY <1>7, <1>11, <2>1, <2>2
<1>14. Outputs(y)
  <2> SUFFICES ASSUME NEW r \in Node PROVE Output(y, r)
    BY DEF Outputs
  <2>1. CASE r \in W
    <3>1. PICK k \in 1 .. Len(q) : q[k] = r
      BY <1>8, <2>1
    <3> QED BY <1>11, <3>1
  <2>2. CASE r \notin W
    BY <1>13, <2>2 DEF Outputs, Output
  <2> QED BY <2>1, <2>2
<1>15. SwitchTimely(y)
  <2> SUFFICES ASSUME NEW r \in Node, y.swstate[r] = 1 PROVE y.nextHit <= SwitchFinish(y, r)
    BY DEF SwitchTimely
  <2>1. r \in W
    BY <1>3, <1>13
  <2>2. PICK k \in 1 .. Len(q) : q[k] = r
    BY <1>8, <2>1
  <2> QED BY <1>11, <2>2
<1>16. /\ Net(s) /\ Outputs(s) /\ SwitchTimely(s) /\ Same(y, s, {"swstate", "nextHit"})
       /\ s.nextHit <= y.nextHit
  BY <1>11, <1>14, <1>15, StartToReceiversFacts
<1>17. s.nextHit <= v.nextHit
  <2>1. y.nextHit \in Nat /\ s.nextHit \in Nat
    BY <1>11, <1>16, NetFacts
  <2> QED BY <1>1, <1>7, <1>11, <1>16, <2>1
<1>18. Lines(s) /\ Timely(s)
  <2>1. s.inputQ = v.inputQ /\ s.state = v.state /\ s.type = v.type /\ s.time = v.time
    BY <1>12, <1>16 DEF Same, Fields
  <2> QED BY <1>16, <1>17, <2>1, TimelyLater
<1>19. \A r \in Node : v.switchQ[r] # << >> /\ v.swstate[r] = 1 =>
              \E n \in Int : w.switchQ[r] = <<[Head(v.switchQ[r]) EXCEPT !.remaining = n]>> \o Tail(v.switchQ[r])
  <2> TAKE r \in Node
  <2> HAVE v.switchQ[r] # << >> /\ v.swstate[r] = 1
  <2>1. r \in W
    BY DEF W, NodesOf
  <2> QED BY <1>6, <2>1, Zenon
<1>20. \A r \in Node : v.swstate[r] # 1 => w.switchQ[r] = v.switchQ[r]
  BY <1>2, <1>6, Zenon
<1> QED BY <1>6, <1>9, <1>11, <1>16, <1>17, <1>18, <1>19, <1>20, Zenon

LEMMA SFDSEFacts ==
  ASSUME NEW S, Net(S), Lines(S), Outputs(S), S.type = "SFDSE", NEW e \in Nat, NEW s, s = SFDSE(S, e)
  PROVE  /\ Net(s) /\ Lines(s) /\ Timely(s) /\ Outputs(s) /\ SwitchTimely(s)
         /\ Same(S, s, SFDSEFields) /\ s.nextHit <= S.nextHit
         /\ \A i \in Node : s.state[i] = 0 => s.inputQ[i] = << >>
         /\ LoseOne(NodesOf(S.state), S.inputQ, s.inputQ)
<1>1. PICK t, u, v, w, y : SFDSESteps(S, e, t, u, v, w, y, s)
  BY SFDSEInSteps
<1> DEFINE q == ForNodes(NodesOf(S.state))
           p == ForNodes(NodesOf(v.swstate))
<1>2. q = ForNodes(NodesOf(S.state)) /\ p = ForNodes(NodesOf(v.swstate))
  OBVIOUS
<1> HIDE DEF q, p
<1>3. /\ t = Spend(S, NodesOf(S.state), e) /\ u = FoldLeft(ToSwitch, t, q) /\ v = StartAll(u)
  BY <1>1, <1>2 DEF SFDSESteps
<1>4. /\ Same(S, t, {"inputQ"}) /\ Same(t, u, SwitchFields)
      /\ Same(u, v, {"state", "nextHit"}) /\ v.nextHit <= S.nextHit
      /\ Net(v) /\ Lines(v) /\ Timely(v) /\ Outputs(v)
      /\ \A i \in Node : v.state[i] = 0 => v.inputQ[i] = << >>
      /\ LoseOne(NodesOf(S.state), S.inputQ, v.inputQ)
  BY <1>2, <1>3, SFDSEForwards
<1>5. Same(S, v, {"inputQ"} \cup SwitchFields)
  BY <1>4 DEF Same, SwitchFields
<1>6. v.swstate = S.swstate /\ v.type = "SFDSE"
  BY <1>5 DEF Same, Fields, SwitchFields
<1>7. /\ w = SwitchSpent(v, NodesOf(v.swstate), e) /\ y = FoldLeft(ToReceiver, w, p)
      /\ s = StartToReceivers(y)
  BY <1>1, <1>2, <1>6 DEF SFDSESteps
<1>8. /\ Same(v, w, {"switchQ"}) /\ Same(w, y, ReceiveFields) /\ Same(y, s, {"swstate", "nextHit"})
      /\ s.nextHit <= v.nextHit /\ Net(s) /\ Lines(s) /\ Timely(s) /\ Outputs(s) /\ SwitchTimely(s)
  BY <1>2, <1>4, <1>6, <1>7, SFDSEReceives
<1>9. Same(v, s, {"switchQ"} \cup ReceiveFields)
  BY <1>8 DEF Same, ReceiveFields
<1>10. Same(S, s, SFDSEFields)
  BY <1>5, <1>9 DEF Same, SFDSEFields, SwitchFields, ReceiveFields
<1>11. s.nextHit <= S.nextHit
  <2>1. S.nextHit \in Nat /\ v.nextHit \in Nat /\ s.nextHit \in Nat
    BY <1>4, <1>8, NetFacts
  <2> QED BY <1>4, <1>8, <2>1
<1>12. /\ \A i \in Node : s.state[i] = 0 => s.inputQ[i] = << >>
       /\ LoseOne(NodesOf(S.state), S.inputQ, s.inputQ)
  <2>1. s.state = v.state /\ s.inputQ = v.inputQ
    BY <1>9 DEF Same, Fields, ReceiveFields
  <2> QED BY <1>4, <2>1
<1> QED BY <1>8, <1>10, <1>11, <1>12

-----------------------------------------------------------------------------
(***************************************************************************)
(* The memory of the switch.  SumFunction adds the values of a function in *)
(* the order in which CHOOSE finds its arguments.                          *)
(***************************************************************************)
AnyOf(T) == CHOOSE x \in T : TRUE

\* g[T] is the sum of the values of f on the set T, for the subsets T of A.
Sums(f, A, g) ==
  g = [T \in SUBSET A |-> IF T = {} THEN 0 ELSE f[AnyOf(T)] + g[T \ {AnyOf(T)}]]

LEMMA SmallerSets ==
  ASSUME NEW A, IsFiniteSet(A), NEW T \in SUBSET A
  PROVE  /\ IsFiniteSet(T) /\ Cardinality(T) \in Nat
         /\ T # {} => /\ AnyOf(T) \in T /\ AnyOf(T) \in A /\ T \ {AnyOf(T)} \in SUBSET A
                      /\ Cardinality(T \ {AnyOf(T)}) = Cardinality(T) - 1
         /\ T = {} <=> Cardinality(T) = 0
<1>1. IsFiniteSet(T) /\ Cardinality(T) \in Nat
  BY FS_Subset, FS_CardinalityType
<1>2. T # {} => AnyOf(T) \in T
  BY DEF AnyOf
<1>3. T # {} => Cardinality(T \ {AnyOf(T)}) = Cardinality(T) - 1
  BY <1>1, <1>2, FS_RemoveElement
<1>4. T = {} <=> Cardinality(T) = 0
  BY <1>1, FS_EmptySet
<1> QED BY <1>1, <1>2, <1>3, <1>4

LEMMA SumsExist ==
  ASSUME NEW A, IsFiniteSet(A), NEW f
  PROVE  \E g : Sums(f, A, g)
<1> DEFINE Next1(g, T) == IF T = {} THEN 0 ELSE f[AnyOf(T)] + g[T \ {AnyOf(T)}]
           Solves(g, n) == \A T \in SUBSET A : Cardinality(T) <= n => g[T] = Next1(g, T)
           Good == {n \in Nat : \E g : Solves(g, n)}
<1>1. 0 \in Good
  <2> DEFINE g == [T \in SUBSET A |-> 0]
  <2>1. ASSUME NEW T \in SUBSET A, Cardinality(T) <= 0 PROVE T = {} /\ g[T] = 0
    <3>1. Cardinality(T) \in Nat /\ (T = {} <=> Cardinality(T) = 0)
      BY SmallerSets
    <3> QED BY <2>1, <3>1
  <2>2. Solves(g, 0)
    BY <2>1
  <2> QED BY <2>2
<1>2. ASSUME NEW n \in Nat, n \in Good PROVE n + 1 \in Good
  <2>1. PICK g : Solves(g, n)
    BY <1>2
  <2> DEFINE h == [T \in SUBSET A |-> IF Cardinality(T) <= n THEN g[T] ELSE Next1(g, T)]
  <2>2. ASSUME NEW T \in SUBSET A, Cardinality(T) <= n + 1 PROVE h[T] = Next1(h, T)
    <3>1. /\ Cardinality(T) \in Nat
          /\ T # {} => /\ T \ {AnyOf(T)} \in SUBSET A
                       /\ Cardinality(T \ {AnyOf(T)}) = Cardinality(T) - 1
      BY SmallerSets
    <3>2. h[T] = Next1(g, T)
      BY <2>1
    <3>3. T # {} => h[T \ {AnyOf(T)}] = g[T \ {AnyOf(T)}]
      BY <2>2, <3>1
    <3> HIDE DEF h
    <3> QED BY <3>2, <3>3
  <2>3. Solves(h, n + 1)
    <3> HIDE DEF h, Next1
    <3> QED BY <2>2
  <2> HIDE DEF Solves, h
  <2> QED BY <2>3
<1>3. Nat \subseteq Good
  <2> HIDE DEF Good
  <2> QED BY <1>1, <1>2, AllNumbers
<1>4. Cardinality(A) \in Nat /\ \A T \in SUBSET A : Cardinality(T) <= Cardinality(A)
  BY FS_CardinalityType, FS_Subset
<1>5. PICK g : Solves(g, Cardinality(A))
  <2> HIDE DEF Solves
  <2> QED BY <1>3, <1>4
<1> DEFINE h == [T \in SUBSET A |-> g[T]]
<1>6. ASSUME NEW T \in SUBSET A PROVE h[T] = Next1(h, T)
  <2>1. h[T] = Next1(g, T)
    BY <1>4, <1>5
  <2>2. T # {} => h[T \ {AnyOf(T)}] = g[T \ {AnyOf(T)}]
    BY SmallerSets
  <2> HIDE DEF h
  <2> QED BY <2>1, <2>2
<1>7. h = [T \in SUBSET A |-> h[T]]
  OBVIOUS
<1>8. Sums(f, A, h)
  <2> HIDE DEF h
  <2>1. [T \in SUBSET A |-> h[T]] = [T \in SUBSET A |-> Next1(h, T)]
    BY <1>6
  <2> QED BY <1>7, <2>1 DEF Sums
<1> QED BY <1>8

LEMMA SumFacts ==
  ASSUME NEW A, IsFiniteSet(A), NEW f, DOMAIN f = A
  PROVE  \E g : Sums(f, A, g) /\ SumFunction(f) = g[A]
<1> DEFINE Solves(g) == g = [T \in SUBSET A |->
                               IF T = {} THEN 0
                               ELSE f[CHOOSE x \in T : TRUE] + g[T \ {CHOOSE x \in T : TRUE}]]
           g == CHOOSE h : Solves(h)
<1>1. SumFunction(f) = g[A]
  BY DEF SumFunction, SumFunctionOnSet, FoldFunctionOnSet, MapThenFoldSet
<1>2. \A h : Solves(h) <=> Sums(f, A, h)
  BY DEF Sums, AnyOf
<1>3. \E h : Solves(h)
  <2>1. PICK h : Sums(f, A, h)
    BY SumsExist
  <2> HIDE DEF Solves
  <2> QED BY <1>2, <2>1
<1>4. Sums(f, A, g)
  <2> HIDE DEF Solves
  <2> QED BY <1>2, <1>3
<1> HIDE DEF g
<1> QED BY <1>1, <1>4

LEMMA Distribute ==
  ASSUME NEW c \in Int, NEW d \in Int
  PROVE  (c + 1) * d = c * d + d /\ c * d \in Int
  OBVIOUS

\* The values of f on R have changed by d in f2.
Differ(f, f2, A, R, d) ==
  /\ f \in [A -> Int] /\ f2 \in [A -> Int]
  /\ \A x \in A : f2[x] = IF x \in R THEN f[x] + d ELSE f[x]

SumsMove(A, R, d, g, g2) ==
  \A T \in SUBSET A :
    g[T] \in Int /\ Cardinality(R \cap T) \in Nat /\ g2[T] = g[T] + Cardinality(R \cap T) * d

LEMMA SumsDiffer ==
  ASSUME NEW A, IsFiniteSet(A), NEW f, NEW f2, NEW R, NEW d \in Int, Differ(f, f2, A, R, d),
         NEW g, Sums(f, A, g), NEW g2, Sums(f2, A, g2)
  PROVE  SumsMove(A, R, d, g, g2)
<1> DEFINE Right(T) == g[T] \in Int /\ Cardinality(R \cap T) \in Nat /\ g2[T] = g[T] + Cardinality(R \cap T) * d
           Good == {n \in Nat : \A T \in SUBSET A : Cardinality(T) = n => Right(T)}
<1>1. 0 \in Good
  <2> SUFFICES ASSUME NEW T \in SUBSET A, Cardinality(T) = 0 PROVE Right(T)
    OBVIOUS
  <2>1. T = {}
    <3>1. T = {} <=> Cardinality(T) = 0
      BY SmallerSets
    <3> QED BY <3>1
  <2>2. g[{}] = 0 /\ g2[{}] = 0
    BY DEF Sums
  <2>3. R \cap {} = {} /\ Cardinality({}) = 0
    BY FS_EmptySet
  <2> QED BY <2>1, <2>2, <2>3
<1>2. ASSUME NEW n \in Nat, n \in Good PROVE n + 1 \in Good
  <2> SUFFICES ASSUME NEW T \in SUBSET A, Cardinality(T) = n + 1 PROVE Right(T)
    OBVIOUS
  <2> DEFINE x == AnyOf(T)
             W == T \ {x}
             c == Cardinality(R \cap W)
  <2>1. /\ IsFiniteSet(T) /\ (T = {} <=> Cardinality(T) = 0)
        /\ T # {} => x \in T /\ x \in A /\ W \in SUBSET A /\ Cardinality(W) = Cardinality(T) - 1
    BY SmallerSets
  <2>2. x \in T /\ x \in A /\ W \in SUBSET A /\ Cardinality(W) = n /\ T # {}
    BY <2>1
  <2>3. Right(W)
    BY <1>2, <2>2
  <2>4. g[T] = f[x] + g[W] /\ g2[T] = f2[x] + g2[W]
    BY <2>2 DEF Sums
  <2>5. Cardinality(R \cap T) = IF x \in R THEN c + 1 ELSE c
    <3>1. IsFiniteSet(R \cap T) /\ R \cap W = (R \cap T) \ {x}
      <4>1. R \cap T \in SUBSET T
        OBVIOUS
      <4> QED BY <2>1, <4>1, FS_Subset
    <3>2. x \in R \cap T <=> x \in R
      BY <2>2
    <3>3. c = IF x \in R THEN Cardinality(R \cap T) - 1 ELSE Cardinality(R \cap T)
      <4> DEFINE Q == R \cap T
      <4>1. IsFiniteSet(Q) /\ R \cap W = Q \ {x} /\ (x \in Q <=> x \in R)
        BY <3>1, <3>2
      <4> HIDE DEF Q
      <4>2. Cardinality(Q \ {x}) = IF x \in Q THEN Cardinality(Q) - 1 ELSE Cardinality(Q)
        BY <4>1, FS_RemoveElement
      <4> QED BY <4>1, <4>2 DEF Q
    <3>4. Cardinality(R \cap T) \in Nat
      BY <3>1, FS_CardinalityType
    <3> HIDE DEF c
    <3> QED BY <3>3, <3>4
  <2>6. f[x] \in Int /\ f2[x] = IF x \in R THEN f[x] + d ELSE f[x]
    BY <2>2 DEF Differ
  <2>7. c \in Nat /\ g[W] \in Int /\ g2[W] = g[W] + c * d
    BY <2>3
  <2>8. (c + 1) * d = c * d + d /\ c * d \in Int
    BY <2>7, Distribute
  <2> HIDE DEF x, W, c
  <2> QED BY <2>4, <2>5, <2>6, <2>7, <2>8
<1>3. Nat \subseteq Good
  <2> HIDE DEF Good
  <2> QED BY <1>1, <1>2, AllNumbers
<1> SUFFICES ASSUME NEW T \in SUBSET A PROVE Right(T)
  BY DEF SumsMove
<1>4. Cardinality(T) \in Nat
  BY SmallerSets
<1>5. Cardinality(T) \in Good
  BY <1>3, <1>4
<1> QED BY <1>5

LEMMA NodesAreFinite ==
  /\ IsFiniteSet(Node) /\ Cardinality(Node) = NbrOfNodes
  BY NodeFacts, FS_Interval DEF Node

\* What the nodes R have more of, the sum over the nodes has.
LEMMA SumChanges ==
  ASSUME NEW f, NEW f2, NEW R \in SUBSET Node, NEW d \in Int, Differ(f, f2, Node, R, d)
  PROVE  /\ SumFunction(f) \in Int /\ Cardinality(R) \in Nat
         /\ SumFunction(f2) = SumFunction(f) + Cardinality(R) * d
<1>1. DOMAIN f = Node /\ DOMAIN f2 = Node
  BY DEF Differ
<1>2. PICK g : Sums(f, Node, g) /\ SumFunction(f) = g[Node]
  BY <1>1, NodesAreFinite, SumFacts
<1>3. PICK g2 : Sums(f2, Node, g2) /\ SumFunction(f2) = g2[Node]
  BY <1>1, NodesAreFinite, SumFacts
<1>4. SumsMove(Node, R, d, g, g2)
  BY <1>2, <1>3, NodesAreFinite, SumsDiffer
<1>5. Node \in SUBSET Node /\ R \cap Node = R
  OBVIOUS
<1>6. g[Node] \in Int /\ Cardinality(R) \in Nat /\ g2[Node] = g[Node] + Cardinality(R) * d
  BY <1>4, <1>5 DEF SumsMove
<1> QED BY <1>2, <1>3, <1>6

LEMMA SumNothing ==
  SumFunction([r \in Node |-> 0]) = 0
<1> DEFINE f == [r \in Node |-> 0]
<1>1. DOMAIN f = Node /\ \A r \in Node : f[r] = 0
  OBVIOUS
<1> HIDE DEF f
<1>2. PICK g : Sums(f, Node, g) /\ SumFunction(f) = g[Node]
  BY <1>1, NodesAreFinite, SumFacts
<1> DEFINE Good == {n \in Nat : \A T \in SUBSET Node : Cardinality(T) = n => g[T] = 0}
<1>3. 0 \in Good
  <2> SUFFICES ASSUME NEW T \in SUBSET Node, Cardinality(T) = 0 PROVE g[T] = 0
    OBVIOUS
  <2>1. T = {} <=> Cardinality(T) = 0
    BY NodesAreFinite, SmallerSets
  <2> QED BY <1>2, <2>1 DEF Sums
<1>4. ASSUME NEW n \in Nat, n \in Good PROVE n + 1 \in Good
  <2> SUFFICES ASSUME NEW T \in SUBSET Node, Cardinality(T) = n + 1 PROVE g[T] = 0
    OBVIOUS
  <2>1. /\ (T = {} <=> Cardinality(T) = 0)
        /\ T # {} => /\ AnyOf(T) \in Node /\ T \ {AnyOf(T)} \in SUBSET Node
                     /\ Cardinality(T \ {AnyOf(T)}) = Cardinality(T) - 1
    BY NodesAreFinite, SmallerSets
  <2>2. T # {}
    BY <2>1
  <2>3. g[T \ {AnyOf(T)}] = 0
    <3>1. Cardinality(T \ {AnyOf(T)}) = n
      BY <2>1, <2>2
    <3> QED BY <1>4, <2>1, <2>2, <3>1
  <2>4. g[T] = f[AnyOf(T)] + g[T \ {AnyOf(T)}]
    BY <1>2, <2>2 DEF Sums
  <2> QED BY <1>1, <2>1, <2>2, <2>3, <2>4
<1>5. Nat \subseteq Good
  <2> HIDE DEF Good
  <2> QED BY <1>3, <1>4, AllNumbers
<1>6. Cardinality(Node) \in Nat /\ Node \in SUBSET Node
  BY NodesAreFinite, NodeFacts
<1>7. g[Node] = 0
  BY <1>5, <1>6
<1> QED BY <1>2, <1>7 DEF f

\* a[k] is the memory of the first k frames of q.
CountsUp(q, a) ==
  /\ a[0] = 0 /\ \A k \in 1 .. Len(q) : a[k] = a[k - 1] + Length[q[k].msg]
  /\ \A k \in 0 .. Len(q) : a[k] \in Nat

LEMMA BitsCount ==
  ASSUME NEW q \in Seq(NWmsg)
  PROVE  \E a : CountsUp(q, a) /\ a[Len(q)] = Bits(q)
<1> DEFINE N == Len(q)
<1>1. N \in Nat /\ DOMAIN q = 1 .. N
  OBVIOUS
<1>2. PICK a : StepByStep("bits", 0, q, a, N) /\ a[N] = Bits(q)
  <2> HIDE DEF N
  <2> QED BY <1>1, AddOneByOne
<1>3. a[0] = 0 /\ \A k \in 1 .. N : a[k] = a[k - 1] + Length[q[k].msg]
  BY <1>2 DEF StepByStep, StepOne
<1>4. \A k \in 1 .. N : Length[q[k].msg] \in Nat
  <2> SUFFICES ASSUME NEW k \in 1 .. N PROVE Length[q[k].msg] \in Nat
    OBVIOUS
  <2>1. q[k] \in NWmsg
    OBVIOUS
  <2>2. q[k].msg \in Message
    BY <2>1, MsgFacts
  <2> QED BY <2>2, FrameFacts
<1> DEFINE Good == {k \in Nat : k <= N => a[k] \in Nat}
<1>5. 0 \in Good
  BY <1>3
<1>6. ASSUME NEW n \in Nat, n \in Good PROVE n + 1 \in Good
  <2> SUFFICES ASSUME n + 1 <= N PROVE a[n + 1] \in Nat
    OBVIOUS
  <2>1. n + 1 \in 1 .. N /\ (n + 1) - 1 = n /\ n <= N
    BY <1>1
  <2>2. a[n] \in Nat /\ Length[q[n + 1].msg] \in Nat
    BY <1>4, <1>6, <2>1
  <2>3. a[n + 1] = a[n] + Length[q[n + 1].msg]
    BY <1>3, <2>1
  <2> QED BY <2>2, <2>3
<1>7. Nat \subseteq Good
  <2> HIDE DEF Good
  <2> QED BY <1>5, <1>6, AllNumbers
<1>8. \A k \in 0 .. N : a[k] \in Nat
  BY <1>1, <1>7
<1> QED BY <1>2, <1>3, <1>8 DEF CountsUp

\* The frames of p are s places further in q.
Shifted(p, q, s) ==
  /\ p \in Seq(NWmsg) /\ q \in Seq(NWmsg) /\ s \in Nat /\ Len(p) + s <= Len(q)
  /\ \A k \in 1 .. Len(p) : p[k].msg = q[k + s].msg

LEMMA CountShift ==
  ASSUME NEW q, NEW p, NEW s, Shifted(p, q, s), NEW a, CountsUp(q, a), NEW b, CountsUp(p, b)
  PROVE  a[Len(p) + s] = b[Len(p)] + a[s]
<1> DEFINE K == Len(p)
<1>9. /\ p \in Seq(NWmsg) /\ q \in Seq(NWmsg) /\ s \in Nat /\ K + s <= Len(q) /\ K = Len(p) /\ K \in Nat
      /\ \A k \in 1 .. K : p[k].msg = q[k + s].msg
  BY DEF Shifted
<1> HIDE DEF K
<1>0. Len(p) \in Nat /\ Len(q) \in Nat
  BY <1>9
<1> DEFINE Good == {k \in Nat : k <= K => a[k + s] = b[k] + a[s]}
<1>1. 0 \in Good
  BY <1>0, <1>9 DEF CountsUp
<1>2. ASSUME NEW n \in Nat, n \in Good PROVE n + 1 \in Good
  <2> SUFFICES ASSUME n + 1 <= K PROVE a[(n + 1) + s] = b[n + 1] + a[s]
    OBVIOUS
  <2>1. /\ n + 1 \in 1 .. Len(p) /\ (n + 1) - 1 = n /\ n + 1 \in 1 .. K
        /\ (n + 1) + s \in 1 .. Len(q) /\ ((n + 1) + s) - 1 = n + s /\ n <= K
        /\ n \in 0 .. Len(p) /\ n + s \in 0 .. Len(q) /\ s \in 0 .. Len(q)
        /\ n + 1 \in 0 .. Len(p) /\ (n + 1) + s \in 0 .. Len(q)
    BY <1>0, <1>9
  <2>2. b[n + 1] = b[n] + Length[p[n + 1].msg]
    BY <2>1 DEF CountsUp
  <2>3. a[(n + 1) + s] = a[n + s] + Length[q[(n + 1) + s].msg]
    BY <2>1 DEF CountsUp
  <2>4. p[n + 1].msg = q[(n + 1) + s].msg
    BY <1>9, <2>1
  <2>5. a[n + s] = b[n] + a[s]
    BY <1>2, <2>1
  <2>6. a[s] \in Nat /\ b[n] \in Nat /\ a[n + s] \in Nat
    BY <2>1 DEF CountsUp
  <2>7. Length[p[n + 1].msg] \in Nat
    <3>1. p[n + 1] \in NWmsg
      BY <1>9, <2>1
    <3>2. p[n + 1].msg \in Message
      BY <3>1, MsgFacts
    <3> QED BY <3>2, FrameFacts
  <2> QED BY <2>2, <2>3, <2>4, <2>5, <2>6, <2>7
<1>3. Nat \subseteq Good
  <2> HIDE DEF Good
  <2> QED BY <1>1, <1>2, AllNumbers
<1>4. K \in Good /\ K <= K
  BY <1>3, <1>9
<1> QED BY <1>4, <1>9

LEMMA BitsFacts ==
  /\ \A q \in Seq(NWmsg) : Bits(q) \in Nat
  /\ Bits(<< >>) = 0
<1>1. ASSUME NEW q \in Seq(NWmsg) PROVE Bits(q) \in Nat
  <2>1. PICK a : CountsUp(q, a) /\ a[Len(q)] = Bits(q)
    BY BitsCount
  <2>2. Len(q) \in 0 .. Len(q)
    OBVIOUS
  <2> QED BY <2>1, <2>2 DEF CountsUp
<1>2. Bits(<< >>) = 0
  <2> DEFINE q == << >>
  <2>1. q \in Seq(NWmsg) /\ Len(q) = 0
    OBVIOUS
  <2> HIDE DEF q
  <2>2. PICK a : CountsUp(q, a) /\ a[Len(q)] = Bits(q)
    BY <2>1, BitsCount
  <2>3. Bits(q) = 0
    BY <2>1, <2>2 DEF CountsUp
  <2> QED BY <2>3 DEF q
<1> QED BY <1>1, <1>2

\* The memory depends on the messages only.
LEMMA BitsSame ==
  ASSUME NEW q \in Seq(NWmsg), NEW p \in Seq(NWmsg), Msgs(p) = Msgs(q)
  PROVE  Bits(p) = Bits(q)
<1>1. PICK a : CountsUp(q, a) /\ a[Len(q)] = Bits(q)
  BY BitsCount
<1>2. PICK b : CountsUp(p, b) /\ b[Len(p)] = Bits(p)
  BY BitsCount
<1>3. /\ Len(Msgs(q)) = Len(q) /\ Len(Msgs(p)) = Len(p)
      /\ \A k \in 1 .. Len(q) : Msgs(q)[k] = q[k].msg
      /\ \A k \in 1 .. Len(p) : Msgs(p)[k] = p[k].msg
  BY MsgsFacts
<1>4. Shifted(p, q, 0) /\ Len(p) + 0 = Len(q)
  BY <1>3 DEF Shifted
<1>5. a[0] = 0
  BY <1>1 DEF CountsUp
<1>6. a[Len(p) + 0] = b[Len(p)] + a[0]
  BY <1>1, <1>2, <1>4, CountShift
<1>7. Bits(p) \in Nat
  BY BitsFacts
<1> QED BY <1>1, <1>2, <1>4, <1>5, <1>6, <1>7

LEMMA BitsAppend ==
  ASSUME NEW q \in Seq(NWmsg), NEW x \in NWmsg
  PROVE  Bits(Append(q, x)) = Bits(q) + Length[x.msg]
<1> DEFINE r == Append(q, x)
           K == Len(q)
<1>1. /\ r \in Seq(NWmsg) /\ Len(r) = K + 1 /\ K \in Nat /\ r[K + 1] = x
      /\ K + 1 \in 1 .. Len(r) /\ (K + 1) - 1 = K /\ K + 0 = K /\ K = Len(q)
  OBVIOUS
<1>9. Shifted(q, r, 0)
  BY DEF Shifted
<1> HIDE DEF r, K
<1>2. PICK a : CountsUp(r, a) /\ a[Len(r)] = Bits(r)
  BY <1>1, BitsCount
<1>3. PICK b : CountsUp(q, b) /\ b[Len(q)] = Bits(q)
  BY BitsCount
<1>4. a[0] = 0
  BY <1>2 DEF CountsUp
<1>5. a[Len(q) + 0] = b[Len(q)] + a[0]
  BY <1>2, <1>3, <1>9, CountShift
<1>6. Bits(q) \in Nat
  BY BitsFacts
<1>7. a[K + 1] = a[K] + Length[x.msg]
  BY <1>1, <1>2 DEF CountsUp
<1>8. Bits(r) = Bits(q) + Length[x.msg]
  BY <1>1, <1>2, <1>3, <1>4, <1>5, <1>6, <1>7
<1> QED BY <1>8 DEF r

LEMMA BitsTail ==
  ASSUME NEW q \in Seq(NWmsg), q # << >>
  PROVE  Bits(q) = Length[Head(q).msg] + Bits(Tail(q)) /\ Bits(Tail(q)) \in Nat
<1> DEFINE p == Tail(q)
           K == Len(p)
<1>1. /\ p \in Seq(NWmsg) /\ Len(q) = K + 1 /\ K \in Nat /\ q[1] = Head(q)
      /\ 1 \in 1 .. Len(q) /\ 1 - 1 = 0 /\ K = Len(p)
  OBVIOUS
<1>9. Shifted(p, q, 1)
  BY DEF Shifted
<1> HIDE DEF p, K
<1>2. PICK a : CountsUp(q, a) /\ a[Len(q)] = Bits(q)
  BY BitsCount
<1>3. PICK b : CountsUp(p, b) /\ b[Len(p)] = Bits(p)
  BY <1>1, BitsCount
<1>4. Length[Head(q).msg] \in Nat
  <2>1. Head(q) \in NWmsg
    BY <1>1
  <2>2. Head(q).msg \in Message
    BY <2>1, MsgFacts
  <2> QED BY <2>2, FrameFacts
<1>5. a[1] = Length[Head(q).msg]
  <2>1. a[1] = a[0] + Length[q[1].msg] /\ a[0] = 0
    BY <1>1, <1>2 DEF CountsUp
  <2> QED BY <1>1, <1>4, <2>1
<1>6. a[Len(p) + 1] = b[Len(p)] + a[1]
  BY <1>2, <1>3, <1>9, CountShift
<1>7. Bits(p) \in Nat
  BY <1>1, BitsFacts
<1>8. Bits(q) = Length[Head(q).msg] + Bits(p)
  BY <1>1, <1>2, <1>3, <1>4, <1>5, <1>6, <1>7
<1> QED BY <1>7, <1>8 DEF p

\* What the frames in the outputs of the switch take
BitsOf(S) == [r \in Node |-> Bits(S.switchQ[r])]

\* The switch has given out exactly the memory of the frames that are in it.
Accounted(S) ==
  /\ S.buftype = "OUTPUTBUF" =>
       \A r \in Node : S.nodemem[r] + Bits(S.switchQ[r]) = SwitchMem \div NbrOfNodes /\ S.nodemem[r] >= 0
  /\ S.buftype # "OUTPUTBUF" =>
       S.switchmem + SumFunction(BitsOf(S)) = SwitchMem /\ S.switchmem >= 0

LEMMA BitsOfFacts ==
  ASSUME NEW S, Net(S)
  PROVE  /\ \A r \in Node : S.switchQ[r] \in Seq(NWmsg) /\ S.switchQ[r] \in Seq(MsgTo(r))
         /\ \A r \in Node : BitsOf(S)[r] = Bits(S.switchQ[r]) /\ Bits(S.switchQ[r]) \in Int
         /\ BitsOf(S) \in [Node -> Int]
         /\ S.switchmem \in Int /\ S.nodemem \in [Node -> Int]
<1>1. Queues(S) /\ Scalars(S)
  BY NetFacts
<1>2. \A r \in Node : S.switchQ[r] \in Seq(NWmsg) /\ S.switchQ[r] \in Seq(MsgTo(r))
  BY <1>1 DEF Queues
<1>3. \A r \in Node : Bits(S.switchQ[r]) \in Int
  BY <1>2, BitsFacts
<1>4. S.switchmem \in Int /\ S.nodemem \in [Node -> Int]
  BY <1>1 DEF Scalars
<1> QED BY <1>2, <1>3, <1>4 DEF BitsOf

\* What the switch does with its memory leaves the frames of its outputs alone,
\* or takes or gives back the memory of one frame for each of the outputs R.
MemoryKept(S, s) ==
  s.buftype = S.buftype /\ s.switchmem = S.switchmem /\ s.nodemem = S.nodemem

LEMMA AccountedSame ==
  ASSUME NEW S, Net(S), Accounted(S), NEW s, Net(s), MemoryKept(S, s),
         \A r \in Node : Msgs(s.switchQ[r]) = Msgs(S.switchQ[r])
  PROVE  Accounted(s)
<1>1. \A r \in Node : Bits(s.switchQ[r]) = Bits(S.switchQ[r])
  <2> SUFFICES ASSUME NEW r \in Node PROVE Bits(s.switchQ[r]) = Bits(S.switchQ[r])
    OBVIOUS
  <2>1. s.switchQ[r] \in Seq(NWmsg) /\ S.switchQ[r] \in Seq(NWmsg)
    BY BitsOfFacts
  <2> QED BY <2>1, BitsSame
<1>2. BitsOf(s) = BitsOf(S)
  BY <1>1 DEF BitsOf
<1> QED BY <1>1, <1>2 DEF Accounted, MemoryKept

Takes(S, s, R, d) ==
  /\ s.buftype = S.buftype
  /\ \A r \in Node : Bits(s.switchQ[r]) = IF r \in R THEN Bits(S.switchQ[r]) + d ELSE Bits(S.switchQ[r])
  /\ S.buftype = "OUTPUTBUF" =>
       \A r \in Node : s.nodemem[r] >= 0 /\ s.nodemem[r] = IF r \in R THEN S.nodemem[r] - d ELSE S.nodemem[r]
  /\ S.buftype # "OUTPUTBUF" => s.switchmem = S.switchmem - Cardinality(R) * d /\ s.switchmem >= 0

LEMMA AccountedTakes ==
  ASSUME NEW S, Net(S), Accounted(S), NEW s, Net(s), NEW R \in SUBSET Node, NEW d \in Int, Takes(S, s, R, d)
  PROVE  Accounted(s)
<1>1. CASE S.buftype = "OUTPUTBUF"
  <2> SUFFICES ASSUME NEW r \in Node
               PROVE  s.nodemem[r] + Bits(s.switchQ[r]) = SwitchMem \div NbrOfNodes /\ s.nodemem[r] >= 0
    BY <1>1 DEF Accounted, Takes
  <2>1. S.nodemem[r] \in Int /\ Bits(S.switchQ[r]) \in Int
    BY BitsOfFacts
  <2>2. S.nodemem[r] + Bits(S.switchQ[r]) = SwitchMem \div NbrOfNodes
    BY <1>1 DEF Accounted
  <2>3. /\ Bits(s.switchQ[r]) = IF r \in R THEN Bits(S.switchQ[r]) + d ELSE Bits(S.switchQ[r])
        /\ s.nodemem[r] >= 0 /\ s.nodemem[r] = IF r \in R THEN S.nodemem[r] - d ELSE S.nodemem[r]
    BY <1>1 DEF Takes
  <2> QED BY <2>1, <2>2, <2>3
<1>2. CASE S.buftype # "OUTPUTBUF"
  <2> DEFINE f == BitsOf(S)
             f2 == BitsOf(s)
  <2>1. Differ(f, f2, Node, R, d)
    BY BitsOfFacts DEF Differ, Takes, BitsOf
  <2>2. f = BitsOf(S) /\ f2 = BitsOf(s)
    OBVIOUS
  <2> HIDE DEF f, f2
  <2>3. /\ SumFunction(f) \in Int /\ Cardinality(R) \in Nat
        /\ SumFunction(f2) = SumFunction(f) + Cardinality(R) * d
    BY <2>1, SumChanges
  <2> DEFINE c == Cardinality(R) * d
  <2>4. c \in Int
    BY <2>3, Distribute
  <2>5. SumFunction(f2) = SumFunction(f) + c /\ s.switchmem = S.switchmem - c /\ s.switchmem >= 0
    BY <1>2, <2>3 DEF Takes
  <2> HIDE DEF c
  <2>6. S.switchmem + SumFunction(f) = SwitchMem /\ S.switchmem \in Int
    BY <1>2, <2>2, BitsOfFacts DEF Accounted
  <2>7. s.switchmem + SumFunction(f2) = SwitchMem
    BY <2>3, <2>4, <2>5, <2>6
  <2>8. s.buftype # "OUTPUTBUF"
    BY <1>2 DEF Takes
  <2> QED BY <2>2, <2>5, <2>7, <2>8 DEF Accounted
<1> QED BY <1>1, <1>2

LEMMA ToSwitchAccounts ==
  ASSUME NEW S, NEW i, MayForward(S, i), Accounted(S), NEW s, s = ToSwitch(S, i), Net(s)
  PROVE  Accounted(s)
<1>1. Net(S) /\ S.swstate = S.swstate
  BY DEF MayForward
<1>2. CASE Stays(S, s, i) \/ Again(S, s, i) \/ Drops(S, s, i)
  <2>1. Same(S, s, {"state", "inputQ", "nextHit"})
    BY <1>2 DEF Stays, Again, Drops, Starts, Same
  <2>2. MemoryKept(S, s) /\ s.switchQ = S.switchQ
    BY <2>1 DEF Same, Fields, MemoryKept
  <2>3. \A r \in Node : Msgs(s.switchQ[r]) = Msgs(S.switchQ[r])
    BY <2>2
  <2> QED BY <1>1, <2>2, <2>3, AccountedSame
<1>3. CASE Goes(S, s, i)
  <2> DEFINE m == Head(S.inputQ[i]).msg
             R == Receivers(m)
             d == Length[m]
  <2>1. m \in Message /\ R \in SUBSET Node /\ d \in Nat
    BY HeadFacts, NodeFacts, FrameFacts
  <2>2. Same(S, s, {"state", "inputQ", "switchQ", "switchmem", "nodemem"})
    BY <1>3 DEF Goes, Starts
  <2>3. s.buftype = S.buftype
    BY <2>2 DEF Same, Fields
  <2>4. /\ HasMemory(S, m) /\ s.switchmem = TakeMemory(S, m).switchmem
        /\ s.nodemem = TakeMemory(S, m).nodemem
        /\ \A r \in R : \E x \in Whole(MsgTo(r)) : x.msg = m /\ s.switchQ[r] = Append(S.switchQ[r], x)
        /\ \A r \in Node \ R : s.switchQ[r] = S.switchQ[r]
    BY <1>3 DEF Goes
  <2>5. R = Receivers(m) /\ d = Length[m]
    OBVIOUS
  <2> HIDE DEF m, R, d
  <2>6. IsNet(S) /\ S.nodemem \in [Node -> Int] /\ S.switchmem \in Int
    BY <1>1, NetFacts, BitsOfFacts
  <2>7. \A r \in Node : Bits(s.switchQ[r]) = IF r \in R THEN Bits(S.switchQ[r]) + d ELSE Bits(S.switchQ[r])
    <3> SUFFICES ASSUME NEW r \in Node
                 PROVE  Bits(s.switchQ[r]) = IF r \in R THEN Bits(S.switchQ[r]) + d ELSE Bits(S.switchQ[r])
      OBVIOUS
    <3>1. CASE r \in R
      <4>1. PICK x \in Whole(MsgTo(r)) : x.msg = m /\ s.switchQ[r] = Append(S.switchQ[r], x)
        BY <2>4, <3>1
      <4>2. x \in NWmsg /\ S.switchQ[r] \in Seq(NWmsg)
        BY <1>1, MsgFacts, BitsOfFacts
      <4>3. Bits(Append(S.switchQ[r], x)) = Bits(S.switchQ[r]) + Length[x.msg]
        BY <4>2, BitsAppend
      <4> QED BY <2>5, <3>1, <4>1, <4>3
    <3>2. CASE r \notin R
      BY <2>4, <3>2
    <3> QED BY <3>1, <3>2
  <2>8. ASSUME S.buftype = "OUTPUTBUF", NEW r \in Node
        PROVE  s.nodemem[r] >= 0 /\ s.nodemem[r] = IF r \in R THEN S.nodemem[r] - d ELSE S.nodemem[r]
    <3>1. TakeMemory(S, m) = [S EXCEPT !.nodemem =
             [n \in Node |-> IF n \in R THEN S.nodemem[n] - d ELSE S.nodemem[n]]]
      BY <2>5, <2>8 DEF TakeMemory
    <3> DEFINE g == [n \in Node |-> IF n \in R THEN S.nodemem[n] - d ELSE S.nodemem[n]]
    <3>2. g[r] = IF r \in R THEN S.nodemem[r] - d ELSE S.nodemem[r]
      OBVIOUS
    <3>3. TakeMemory(S, m) = [S EXCEPT !.nodemem = g]
      BY <3>1
    <3> HIDE DEF g
    <3>4. s.nodemem = g
      BY <2>4, <2>6, <3>3 DEF IsNet, Fields
    <3>5. r \in R => S.nodemem[r] >= d
      BY <2>4, <2>5, <2>8 DEF HasMemory
    <3>6. S.nodemem[r] >= 0 /\ S.nodemem[r] \in Int
      BY <2>6, <2>8 DEF Accounted
    <3> QED BY <2>1, <3>2, <3>4, <3>5, <3>6
  <2>9. ASSUME S.buftype # "OUTPUTBUF"
        PROVE  s.switchmem = S.switchmem - Cardinality(R) * d /\ s.switchmem >= 0
    <3> DEFINE c == Cardinality(R) * d
    <3>1. TakeMemory(S, m) = [S EXCEPT !.switchmem = S.switchmem - c]
      BY <2>5, <2>9 DEF TakeMemory
    <3>2. S.switchmem >= c
      BY <2>4, <2>5, <2>9 DEF HasMemory
    <3>3. c \in Int
      <4>1. IsFiniteSet(R)
        BY <2>1, NodesAreFinite, FS_Subset
      <4>2. Cardinality(R) \in Int
        BY <4>1, FS_CardinalityType
      <4> QED BY <2>1, <4>2, Distribute
    <3>4. c = Cardinality(R) * d
      OBVIOUS
    <3> HIDE DEF c
    <3>5. s.switchmem = S.switchmem - c
      BY <2>4, <2>6, <3>1 DEF IsNet, Fields
    <3>6. s.switchmem >= 0
      BY <2>6, <3>2, <3>3, <3>5
    <3> QED BY <3>4, <3>5, <3>6
  <2>10. Takes(S, s, R, d)
    BY <2>3, <2>7, <2>8, <2>9 DEF Takes
  <2> QED BY <1>1, <2>1, <2>10, AccountedTakes
<1> QED BY <1>2, <1>3, ToSwitchCases

LEMMA ToReceiverAccounts ==
  ASSUME NEW S, NEW r, MayReceive(S, r), Accounted(S), NEW s, s = ToReceiver(S, r), Net(s)
  PROVE  Accounted(s)
<1>1. Net(S) /\ r \in Node /\ S.switchQ[r] # << >>
  BY DEF MayReceive
<1>2. CASE Remains(S, s, r)
  <2>2. MemoryKept(S, s) /\ s.switchQ = S.switchQ
    BY <1>2 DEF Remains, Same, Fields, MemoryKept
  <2>3. \A n \in Node : Msgs(s.switchQ[n]) = Msgs(S.switchQ[n])
    BY <2>2
  <2> QED BY <1>1, <2>2, <2>3, AccountedSame
<1>3. CASE Comes(S, s, r)
  <2> DEFINE m == Head(S.switchQ[r]).msg
             R == {r}
             d == Length[m]
  <2>1. m \in Message /\ d \in Nat
    BY FirstInSwitch, FrameFacts
  <2>2. s.buftype = S.buftype
    BY <1>3 DEF Comes, Same, Fields
  <2>3. /\ s.switchQ = [S.switchQ EXCEPT ![r] = Tail(S.switchQ[r])]
        /\ s.switchmem = FreeMemory(S, r, m).switchmem /\ s.nodemem = FreeMemory(S, r, m).nodemem
    BY <1>3 DEF Comes
  <2>4. d = Length[m] /\ d = Length[Head(S.switchQ[r]).msg]
    OBVIOUS
  <2> HIDE DEF m, d
  <2>5. IsNet(S) /\ Queues(S) /\ S.nodemem \in [Node -> Int] /\ S.switchmem \in Int
    BY <1>1, NetFacts, BitsOfFacts
  <2>6. /\ s.switchQ[r] = Tail(S.switchQ[r]) /\ \A n \in Node \ {r} : s.switchQ[n] = S.switchQ[n]
    BY <1>1, <2>3, <2>5 DEF Queues
  <2>7. Bits(S.switchQ[r]) = d + Bits(Tail(S.switchQ[r])) /\ Bits(Tail(S.switchQ[r])) \in Nat
    <3>1. S.switchQ[r] \in Seq(NWmsg)
      BY <1>1, BitsOfFacts
    <3> QED BY <1>1, <2>4, <3>1, BitsTail
  <2>8. \A n \in Node : Bits(s.switchQ[n]) = IF n \in R THEN Bits(S.switchQ[n]) + (0 - d) ELSE Bits(S.switchQ[n])
    BY <2>1, <2>6, <2>7
  <2>9. ASSUME S.buftype = "OUTPUTBUF", NEW n \in Node
        PROVE  /\ s.nodemem[n] >= 0
               /\ s.nodemem[n] = IF n \in R THEN S.nodemem[n] - (0 - d) ELSE S.nodemem[n]
    <3>1. FreeMemory(S, r, m) = [S EXCEPT !.nodemem = [S.nodemem EXCEPT ![r] = S.nodemem[r] + d]]
      BY <2>4, <2>9 DEF FreeMemory
    <3> DEFINE g == [S.nodemem EXCEPT ![r] = S.nodemem[r] + d]
    <3>2. g[n] = IF n \in R THEN S.nodemem[n] + d ELSE S.nodemem[n]
      BY <2>5
    <3>3. FreeMemory(S, r, m) = [S EXCEPT !.nodemem = g]
      BY <3>1
    <3> HIDE DEF g
    <3>4. s.nodemem = g
      BY <2>3, <2>5, <3>3 DEF IsNet, Fields
    <3>5. S.nodemem[n] >= 0 /\ S.nodemem[n] \in Int
      BY <2>5, <2>9 DEF Accounted
    <3> QED BY <2>1, <3>2, <3>4, <3>5
  <2>10. ASSUME S.buftype # "OUTPUTBUF"
         PROVE  s.switchmem = S.switchmem - Cardinality(R) * (0 - d) /\ s.switchmem >= 0
    <3>1. FreeMemory(S, r, m) = [S EXCEPT !.switchmem = S.switchmem + d]
      BY <2>4, <2>10 DEF FreeMemory
    <3>2. s.switchmem = S.switchmem + d
      BY <2>3, <2>5, <3>1 DEF IsNet, Fields
    <3>3. S.switchmem >= 0
      BY <2>10 DEF Accounted
    <3>4. Cardinality(R) = 1
      BY FS_Singleton
    <3> QED BY <2>1, <2>5, <3>2, <3>3, <3>4
  <2>11. Takes(S, s, R, 0 - d)
    BY <2>2, <2>8, <2>9, <2>10 DEF Takes
  <2>12. R \in SUBSET Node /\ 0 - d \in Int
    BY <1>1, <2>1
  <2> HIDE DEF R
  <2> QED BY <1>1, <2>11, <2>12, AccountedTakes
<1> QED BY <1>2, <1>3, ToReceiverCases

LEMMA ForwardLoopAccounts ==
  ASSUME NEW t, NEW q, MayForwardAll(t, q), Accounted(t), NEW x, x = FoldLeft(ToSwitch, t, q)
  PROVE  Accounted(x)
<1>1. PICK a : ForwardsInTurn(t, x, q, a)
  BY ForwardLoop
<1> DEFINE Good == {n \in Nat : n <= Len(q) => Accounted(a[n])}
<1>2. 0 \in Good
  BY <1>1 DEF ForwardsInTurn
<1>3. ASSUME NEW n \in Nat, n \in Good PROVE n + 1 \in Good
  <2> SUFFICES ASSUME n + 1 <= Len(q) PROVE Accounted(a[n + 1])
    OBVIOUS
  <2>1. Len(q) \in Nat
    BY DEF MayForwardAll
  <2>2. n + 1 \in 1 .. Len(q) /\ n + 1 - 1 = n /\ n <= Len(q)
    BY <2>1
  <2>3. Accounted(a[n])
    BY <1>3, <2>2
  <2> DEFINE k == n + 1
  <2>4. k \in 1 .. Len(q) /\ k - 1 = n
    BY <2>2
  <2> HIDE DEF k
  <2>5. a[k] = ToSwitch(a[n], q[k]) /\ MayForward(a[n], q[k]) /\ Forwarded(a[n], a[k], q[k])
    BY <1>1, <2>4 DEF ForwardsInTurn
  <2>6. Net(a[k])
    BY <2>5 DEF Forwarded
  <2>7. Accounted(a[k])
    BY <2>3, <2>5, <2>6, ToSwitchAccounts
  <2> QED BY <2>7 DEF k
<1>4. Nat \subseteq Good
  <2> HIDE DEF Good
  <2> QED BY <1>2, <1>3, AllNumbers
<1>5. Len(q) \in Nat
  BY DEF MayForwardAll
<1>6. Accounted(a[Len(q)])
  BY <1>4, <1>5
<1> QED BY <1>1, <1>6 DEF ForwardsInTurn

LEMMA ReceiveLoopAccounts ==
  ASSUME NEW t, NEW q, MayReceiveAll(t, q), Accounted(t), NEW x, x = FoldLeft(ToReceiver, t, q)
  PROVE  Accounted(x)
<1>1. PICK a : ReceivesInTurn(t, x, q, a)
  BY ReceiveLoop
<1> DEFINE Good == {n \in Nat : n <= Len(q) => Accounted(a[n])}
<1>2. 0 \in Good
  BY <1>1 DEF ReceivesInTurn
<1>3. ASSUME NEW n \in Nat, n \in Good PROVE n + 1 \in Good
  <2> SUFFICES ASSUME n + 1 <= Len(q) PROVE Accounted(a[n + 1])
    OBVIOUS
  <2>1. Len(q) \in Nat
    BY DEF MayReceiveAll
  <2>2. n + 1 \in 1 .. Len(q) /\ n + 1 - 1 = n /\ n <= Len(q)
    BY <2>1
  <2>3. Accounted(a[n])
    BY <1>3, <2>2
  <2> DEFINE k == n + 1
  <2>4. k \in 1 .. Len(q) /\ k - 1 = n
    BY <2>2
  <2> HIDE DEF k
  <2>5. a[k] = ToReceiver(a[n], q[k]) /\ MayReceive(a[n], q[k]) /\ Received(a[n], a[k], q[k])
    BY <1>1, <2>4 DEF ReceivesInTurn
  <2>6. Net(a[k])
    BY <2>5 DEF Received
  <2>7. Accounted(a[k])
    BY <2>3, <2>5, <2>6, ToReceiverAccounts
  <2> QED BY <2>7 DEF k
<1>4. Nat \subseteq Good
  <2> HIDE DEF Good
  <2> QED BY <1>2, <1>3, AllNumbers
<1>5. Len(q) \in Nat
  BY DEF MayReceiveAll
<1>6. Accounted(a[Len(q)])
  BY <1>4, <1>5
<1> QED BY <1>1, <1>6 DEF ReceivesInTurn

\* A step that leaves the switch alone
LEMMA AccountedElsewhere ==
  ASSUME NEW S, Net(S), Accounted(S), NEW s, Net(s), NEW F, Same(S, s, F),
         F \cap {"buftype", "switchmem", "nodemem", "switchQ"} = {}
  PROVE  Accounted(s)
<1>1. MemoryKept(S, s) /\ s.switchQ = S.switchQ
  BY DEF Same, Fields, MemoryKept
<1>2. \A r \in Node : Msgs(s.switchQ[r]) = Msgs(S.switchQ[r])
  BY <1>1
<1> QED BY <1>1, <1>2, AccountedSame

LEMMA SFDSEAccounts ==
  ASSUME NEW S, Net(S), Lines(S), Outputs(S), S.type = "SFDSE", NEW e \in Nat, NEW s, s = SFDSE(S, e),
         Accounted(S)
  PROVE  Accounted(s)
<1>1. PICK t, u, v, w, y : SFDSESteps(S, e, t, u, v, w, y, s)
  BY SFDSEInSteps
<1> DEFINE q == ForNodes(NodesOf(S.state))
           p == ForNodes(NodesOf(v.swstate))
<1>2. q = ForNodes(NodesOf(S.state)) /\ p = ForNodes(NodesOf(v.swstate))
  OBVIOUS
<1> HIDE DEF q, p
<1>3. /\ t = Spend(S, NodesOf(S.state), e) /\ u = FoldLeft(ToSwitch, t, q) /\ v = StartAll(u)
  BY <1>1, <1>2 DEF SFDSESteps
<1>4. /\ Same(S, t, {"inputQ"}) /\ Net(t) /\ MayForwardAll(t, q) /\ Same(t, u, SwitchFields)
      /\ Same(u, v, {"state", "nextHit"})
      /\ Net(u) /\ Net(v) /\ Lines(v) /\ Timely(v) /\ Outputs(v)
  BY <1>2, <1>3, SFDSEForwards
<1>5. Same(S, v, {"inputQ"} \cup SwitchFields)
  BY <1>4 DEF Same, SwitchFields
<1>6. v.swstate = S.swstate /\ v.type = "SFDSE"
  BY <1>5 DEF Same, Fields, SwitchFields
<1>7. /\ w = SwitchSpent(v, NodesOf(v.swstate), e) /\ y = FoldLeft(ToReceiver, w, p)
      /\ s = StartToReceivers(y)
  BY <1>1, <1>2, <1>6 DEF SFDSESteps
<1>8. /\ Same(v, w, {"switchQ"}) /\ \A i \in Node : Msgs(w.switchQ[i]) = Msgs(v.switchQ[i])
      /\ Net(w) /\ MayReceiveAll(w, p) /\ Same(y, s, {"swstate", "nextHit"}) /\ Net(y) /\ Net(s)
  BY <1>2, <1>4, <1>6, <1>7, SFDSEReceives
<1> DEFINE F1 == {"inputQ"}
           F2 == {"state", "nextHit"}
           F3 == {"swstate", "nextHit"}
           G == {"buftype", "switchmem", "nodemem", "switchQ"}
<1>9. /\ Same(S, t, F1) /\ Same(u, v, F2) /\ Same(y, s, F3)
      /\ F1 \cap {"buftype", "switchmem", "nodemem", "switchQ"} = {}
      /\ F2 \cap {"buftype", "switchmem", "nodemem", "switchQ"} = {}
      /\ F3 \cap {"buftype", "switchmem", "nodemem", "switchQ"} = {}
  BY <1>4, <1>8
<1> HIDE DEF F1, F2, F3
<1>10. Accounted(t)
  BY <1>4, <1>9, AccountedElsewhere
<1>11. Accounted(u)
  BY <1>3, <1>4, <1>10, ForwardLoopAccounts
<1>12. Accounted(v)
  BY <1>4, <1>9, <1>11, AccountedElsewhere
<1>13. MemoryKept(v, w)
  BY <1>8 DEF Same, Fields, MemoryKept
<1>14. Accounted(w)
  BY <1>4, <1>8, <1>12, <1>13, AccountedSame
<1>15. Accounted(y)
  BY <1>7, <1>8, <1>14, ReceiveLoopAccounts
<1> QED BY <1>8, <1>9, <1>15, AccountedElsewhere

-----------------------------------------------------------------------------
(***************************************************************************)
(* The wired network is a FIFO link between any two nodes: the order of    *)
(* the messages in its queues.                                             *)
(***************************************************************************)
LEMMA FromFrames ==
  ASSUME NEW a, NEW q \in Seq(NWmsg)
  PROVE  From(a, q) = Msgs(Among(q, MsgFrom(a)))
<1> DEFINE Good == {p \in Seq(NWmsg) : From(a, p) = Msgs(Among(p, MsgFrom(a)))}
<1>1. << >> \in Good
  BY EmptySeq, FromSmall, AmongEmpty, MsgsSmall
<1>2. ASSUME NEW p \in Seq(NWmsg), NEW x \in NWmsg, p \in Good PROVE Append(p, x) \in Good
  <2>1. Append(p, x) = p \o <<x>> /\ Append(p, x) \in Seq(NWmsg) /\ <<x>> \in Seq(NWmsg)
    OBVIOUS
  <2>2. From(a, Append(p, x)) = From(a, p) \o From(a, <<x>>)
    BY <2>1, FromConcat
  <2>3. Among(p, MsgFrom(a)) \in Seq(NWmsg)
    BY AmongType
  <2>4. CASE Sender[x.msg] = a
    <3>1. x \in MsgFrom(a)
      BY <2>4 DEF MsgFrom
    <3>2. Among(Append(p, x), MsgFrom(a)) = Append(Among(p, MsgFrom(a)), x)
      BY <3>1, AmongAppend
    <3>3. Append(Among(p, MsgFrom(a)), x) = Among(p, MsgFrom(a)) \o <<x>>
      BY <2>3
    <3>4. Msgs(Among(p, MsgFrom(a)) \o <<x>>) = Msgs(Among(p, MsgFrom(a))) \o Msgs(<<x>>)
      BY <2>1, <2>3, MsgsConcat
    <3>5. Msgs(<<x>>) = From(a, <<x>>)
      <4>1. Msgs(<<x>>) = <<x.msg>>
        BY MsgsSmall
      <4>2. From(a, <<x>>) = <<x.msg>>
        BY <2>4, FromSmall, Zenon
      <4> QED BY <4>1, <4>2
    <3> QED BY <1>2, <2>1, <2>2, <3>2, <3>3, <3>4, <3>5
  <2>5. CASE Sender[x.msg] # a
    <3>1. x \notin MsgFrom(a)
      BY <2>5 DEF MsgFrom
    <3>2. Among(Append(p, x), MsgFrom(a)) = Among(p, MsgFrom(a))
      BY <3>1, AmongAppend
    <3>3. From(a, <<x>>) = << >>
      BY <2>5, FromSmall, Zenon
    <3>5. From(a, p) \in Seq(Message)
      BY FromConcat
    <3>4. From(a, p) \o << >> = From(a, p)
      BY <3>5, ConcatEmptySeq
    <3> QED BY <1>2, <2>1, <2>2, <3>2, <3>3, <3>4
  <2> QED BY <2>4, <2>5
<1> HIDE DEF Good
<1>3. Seq(NWmsg) \subseteq Good
  BY <1>1, <1>2, AllSequences
<1> QED BY <1>3 DEF Good

\* The messages from a in q come in the order of first those in D and then those
\* in L if nobody in L is in front of one in D.
LEMMA FromSplit ==
  ASSUME NEW a, NEW q \in Seq(NWmsg), NEW D, NEW L, InFront(q, D, MsgFrom(a)),
         \A k \in 1 .. Len(q) : q[k] \in L <=> q[k] \notin D
  PROVE  From(a, q) = From(a, Among(q, D)) \o From(a, Among(q, L))
<1> DEFINE E == MsgFrom(a)
<1>1. Among(q, E) = Among(q, D \cap E) \o Among(q, E \ D)
  <2>1. PickedFirst(q, D, MsgFrom(a))
    BY AmongFirst
  <2> QED BY <2>1 DEF PickedFirst
<1>2. Among(q, D) \in Seq(NWmsg) /\ Among(q, L) \in Seq(NWmsg)
      /\ Among(q, D \cap E) \in Seq(NWmsg) /\ Among(q, E \ D) \in Seq(NWmsg)
  BY AmongType
<1>3. Among(Among(q, D), E) = Among(q, D \cap E)
  BY AmongAmong
<1>4. Among(Among(q, L), E) = Among(q, L \cap E)
  BY AmongAmong
<1>5. Among(q, L \cap E) = Among(q, E \ D)
  <2>1. \A k \in 1 .. Len(q) : q[k] \in L \cap E <=> q[k] \in E \ D
    OBVIOUS
  <2> QED BY <2>1, AmongAgree
<1>6. From(a, q) = Msgs(Among(q, E)) /\ From(a, Among(q, D)) = Msgs(Among(Among(q, D), E))
      /\ From(a, Among(q, L)) = Msgs(Among(Among(q, L), E))
  BY <1>2, FromFrames
<1>7. Msgs(Among(q, D \cap E) \o Among(q, E \ D)) = Msgs(Among(q, D \cap E)) \o Msgs(Among(q, E \ D))
  BY <1>2, MsgsConcat
<1> QED BY <1>1, <1>3, <1>4, <1>5, <1>6, <1>7

\* What is picked from a queue is picked in order.
LEMMA FromLosses ==
  ASSUME NEW a, NEW K, NEW q \in Seq(NWmsg)
  PROVE  IsSubsequence(From(a, Among(q, K)), From(a, q))
<1> DEFINE Good == {p \in Seq(NWmsg) : IsSubsequence(From(a, Among(p, K)), From(a, p))}
<1>1. << >> \in Good
  BY EmptySeq, FromSmall, AmongEmpty, SubsequenceEmpty
<1>2. ASSUME NEW p \in Seq(NWmsg), NEW x \in NWmsg, p \in Good PROVE Append(p, x) \in Good
  <2>1. Append(p, x) = p \o <<x>> /\ Append(p, x) \in Seq(NWmsg) /\ <<x>> \in Seq(NWmsg)
    OBVIOUS
  <2>2. Among(p, K) \in Seq(NWmsg)
    BY AmongType
  <2>3. /\ From(a, p \o <<x>>) = From(a, p) \o From(a, <<x>>)
        /\ From(a, Among(p, K) \o <<x>>) = From(a, Among(p, K)) \o From(a, <<x>>)
        /\ From(a, p) \in Seq(Message) /\ From(a, <<x>>) \in Seq(Message)
        /\ From(a, Among(p, K)) \in Seq(Message)
    BY <2>1, <2>2, FromConcat
  <2>4. IsSubsequence(From(a, Among(p, K)), From(a, p))
    BY <1>2
  <2>5. CASE x \in K
    <3>1. Among(Append(p, x), K) = Append(Among(p, K), x)
      BY <2>5, AmongAppend
    <3>2. Append(Among(p, K), x) = Among(p, K) \o <<x>>
      BY <2>2
    <3>3. IsSubsequence(From(a, <<x>>), From(a, <<x>>))
      BY <2>3, SubsequenceSelf
    <3>4. IsSubsequence(From(a, Among(p, K)) \o From(a, <<x>>), From(a, p) \o From(a, <<x>>))
      BY <2>3, <2>4, <3>3, SubsequenceConcat
    <3> QED BY <2>1, <2>3, <3>1, <3>2, <3>4
  <2>6. CASE x \notin K
    <3>1. Among(Append(p, x), K) = Among(p, K)
      BY <2>6, AmongAppend
    <3>2. << >> \in Seq(Message) /\ IsSubsequence(<< >>, From(a, <<x>>))
      BY EmptySeq, SubsequenceEmpty
    <3>3. IsSubsequence(From(a, Among(p, K)) \o << >>, From(a, p) \o From(a, <<x>>))
      BY <2>3, <2>4, <3>2, SubsequenceConcat
    <3>4. From(a, Among(p, K)) \o << >> = From(a, Among(p, K))
      BY <2>3, ConcatEmptySeq
    <3> QED BY <2>1, <2>3, <3>1, <3>3, <3>4
  <2> QED BY <2>5, <2>6
<1> HIDE DEF Good
<1>3. Seq(NWmsg) \subseteq Good
  BY <1>1, <1>2, AllSequences
<1> QED BY <1>3 DEF Good

LEMMA SubsequenceOfFront ==
  ASSUME NEW A, NEW s \in Seq(A), NEW t \in Seq(A)
  PROVE  IsSubsequence(s, s \o t)
<1>1. IsSubsequence(s, s) /\ IsSubsequence(<< >>, t) /\ << >> \in Seq(A)
  BY SubsequenceSelf, SubsequenceEmpty, EmptySeq
<1>2. IsSubsequence(s \o << >>, s \o t)
  BY <1>1, SubsequenceConcat
<1> QED BY <1>2, ConcatEmptySeq

\* q is in the order of the ends of the waits, which are not after t.
UpTo(q, t) ==
  /\ \A k \in 1 .. Len(q) : q[k].waituntil <= t
  /\ \A j, k \in 1 .. Len(q) : j < k => q[j].waituntil <= q[k].waituntil

LEMMA UpToParts ==
  ASSUME NEW q \in Seq(NWmsg), NEW s \in Seq(NWmsg), NEW t, UpTo(q, t), IsSubsequence(s, q)
  PROVE  UpTo(s, t)
<1>1. PICK place \in [1 .. Len(s) -> 1 .. Len(q)] :
        \A i \in 1 .. Len(s) : s[i] = q[place[i]] /\ \A j \in 1 .. i - 1 : place[j] < place[i]
  BY DEF IsSubsequence
<1>2. \A k \in 1 .. Len(s) : s[k].waituntil <= t
  BY <1>1 DEF UpTo
<1>3. ASSUME NEW j \in 1 .. Len(s), NEW k \in 1 .. Len(s), j < k
      PROVE  s[j].waituntil <= s[k].waituntil
  <2>1. Len(s) \in Nat
    OBVIOUS
  <2>2. j \in 1 .. k - 1
    BY <1>3, <2>1
  <2>3. place[j] < place[k] /\ s[j] = q[place[j]] /\ s[k] = q[place[k]]
        /\ place[j] \in 1 .. Len(q) /\ place[k] \in 1 .. Len(q)
    BY <1>1, <2>2
  <2> QED BY <2>3 DEF UpTo
<1> QED BY <1>2, <1>3 DEF UpTo

LEMMA UpToMore ==
  ASSUME NEW q \in Seq(NWmsg), NEW t \in Int, NEW v \in Int, t <= v, UpTo(q, t),
         NEW u \in Seq(NWmsg), \A k \in 1 .. Len(u) : u[k].waituntil = v
  PROVE  UpTo(q \o u, v)
<1> DEFINE p == q \o u
<1>1. /\ Len(q) \in Nat /\ Len(u) \in Nat /\ Len(p) = Len(q) + Len(u)
      /\ \A k \in 1 .. Len(q) : p[k] = q[k]
      /\ \A k \in Len(q) + 1 .. Len(p) : p[k] = u[k - Len(q)]
  OBVIOUS
<1>2. \A k \in 1 .. Len(q) : q[k].waituntil \in Int
  <2>1. \A k \in 1 .. Len(q) : q[k] \in NWmsg
    OBVIOUS
  <2> QED BY <2>1 DEF NWmsg
<1> HIDE DEF p
<1>3. \A k \in Len(q) + 1 .. Len(p) : p[k].waituntil = v
  <2> TAKE k \in Len(q) + 1 .. Len(p)
  <2>1. k - Len(q) \in 1 .. Len(u)
    BY <1>1
  <2> QED BY <1>1, <2>1
<1>4. \A k \in 1 .. Len(q) : p[k].waituntil <= v
  BY <1>1, <1>2 DEF UpTo
<1>5. \A k \in 1 .. Len(p) : k \in 1 .. Len(q) \/ k \in Len(q) + 1 .. Len(p)
  BY <1>1
<1>6. \A k \in 1 .. Len(p) : p[k].waituntil <= v
  BY <1>3, <1>4, <1>5
<1>7. ASSUME NEW j \in 1 .. Len(p), NEW k \in 1 .. Len(p), j < k
      PROVE  p[j].waituntil <= p[k].waituntil
  <2>1. CASE k \in Len(q) + 1 .. Len(p)
    BY <1>3, <1>6, <2>1
  <2>2. CASE k \in 1 .. Len(q)
    <3>1. j \in 1 .. Len(q)
      BY <1>1, <1>7, <2>2
    <3> QED BY <1>1, <1>7, <2>2, <3>1 DEF UpTo
  <2> QED BY <1>5, <2>1, <2>2
<1> QED BY <1>6, <1>7 DEF UpTo, p

LEMMA UpToLater ==
  ASSUME NEW q \in Seq(NWmsg), NEW t \in Int, NEW v \in Int, t <= v, UpTo(q, t)
  PROVE  UpTo(q, v)
<1>1. << >> \in Seq(NWmsg) /\ q \o << >> = q
  BY EmptySeq, ConcatEmptySeq
<1>3. \A k \in 1 .. Len(<< >>) : << >>[k].waituntil = v
  OBVIOUS
<1>2. UpTo(q \o << >>, v)
  BY <1>1, <1>3, UpToMore
<1> QED BY <1>1, <1>2

\* Which messages of a queue go where depends on nothing but the messages.
LEMMA MsgsDecide ==
  ASSUME NEW p, NEW q, Msgs(p) = Msgs(q)
  PROVE  \A a : To(a, p) = To(a, q) /\ From(a, p) = From(a, q)
  BY DEF To, From

Regroups(s, t, u) == (s \o t) \o u = s \o (t \o u)

LEMMA ConcatRegroups ==
  ASSUME NEW A, NEW s \in Seq(A), NEW t \in Seq(A), NEW u \in Seq(A)
  PROVE  Regroups(s, t, u)
  BY ConcatAssociative DEF Regroups

LEMMA ToHead ==
  ASSUME NEW r, NEW q \in Seq(NWmsg), q # << >>
  PROVE  /\ To(r, q) = To(r, <<Head(q)>>) \o To(r, Tail(q))
         /\ To(r, <<Head(q)>>) = IF r \in Receivers(Head(q).msg) THEN <<Head(q).msg>> ELSE << >>
         /\ To(r, <<Head(q)>>) \in Seq(Message) /\ To(r, Tail(q)) \in Seq(Message)
<1>1. q = <<Head(q)>> \o Tail(q) /\ Head(q) \in NWmsg /\ Tail(q) \in Seq(NWmsg) /\ <<Head(q)>> \in Seq(NWmsg)
  BY HeadAndTail
<1>2. /\ To(r, <<Head(q)>> \o Tail(q)) = To(r, <<Head(q)>>) \o To(r, Tail(q))
      /\ To(r, <<Head(q)>>) \in Seq(Message) /\ To(r, Tail(q)) \in Seq(Message)
  BY <1>1, FromConcat
<1>3. To(r, <<Head(q)>>) = IF r \in Receivers(Head(q).msg) THEN <<Head(q).msg>> ELSE << >>
  BY <1>1, FromSmall, Zenon
<1> QED BY <1>1, <1>2, <1>3

LEMMA FromHead ==
  ASSUME NEW a, NEW q \in Seq(NWmsg), q # << >>
  PROVE  /\ From(a, q) = From(a, <<Head(q)>>) \o From(a, Tail(q))
         /\ From(a, <<Head(q)>>) = IF Sender[Head(q).msg] = a THEN <<Head(q).msg>> ELSE << >>
         /\ From(a, <<Head(q)>>) \in Seq(Message) /\ From(a, Tail(q)) \in Seq(Message)
<1>1. q = <<Head(q)>> \o Tail(q) /\ Head(q) \in NWmsg /\ Tail(q) \in Seq(NWmsg) /\ <<Head(q)>> \in Seq(NWmsg)
  BY HeadAndTail
<1>2. /\ From(a, <<Head(q)>> \o Tail(q)) = From(a, <<Head(q)>>) \o From(a, Tail(q))
      /\ From(a, <<Head(q)>>) \in Seq(Message) /\ From(a, Tail(q)) \in Seq(Message)
  BY <1>1, FromConcat
<1>3. From(a, <<Head(q)>>) = IF Sender[Head(q).msg] = a THEN <<Head(q).msg>> ELSE << >>
  BY <1>1, FromSmall, Zenon
<1> QED BY <1>1, <1>2, <1>3

\* Queues of every node, and what is on the way from a to r when out has been sent
\* and in has not
NodeQueues(f)     == f \in [Node -> Seq(NWmsg)]
Coming(a, r, out, in) == From(a, out) \o To(r, in)

\* What is sent leaves the line of its sender and comes behind what came before.
LEMMA CarriesLink ==
  ASSUME NEW B \in SUBSET Node, NEW t, NEW in, NEW in2, NEW out, NEW out2,
         Carries(B, t, in, in2, out, out2), NodeQueues(in), NodeQueues(in2), NodeQueues(out),
         NEW a \in Node, NEW r \in Node
  PROVE  Coming(a, r, out2[r], in2[a]) = Coming(a, r, out[r], in[a])
<1>1. PICK F \in SUBSET B :
        /\ \A i \in F : in[i] # << >> /\ Msgs(in2[i]) = Msgs(Tail(in[i]))
        /\ \A i \in Node \ F : Msgs(in2[i]) = Msgs(in[i])
        /\ \A i \in Node : \E u : Reaches(in, F, i, t, u) /\ out2[i] = out[i] \o u
  BY DEF Carries
<1>2. PICK u : Reaches(in, F, r, t, u) /\ out2[r] = out[r] \o u
  BY <1>1
<1>3. u \in Seq(NWmsg)
  <2>1. u \in Seq({x \in MsgTo(r) : x.waituntil = t + Postdelay[r]})
    BY <1>2 DEF Reaches
  <2>2. {x \in MsgTo(r) : x.waituntil = t + Postdelay[r]} \subseteq NWmsg
    BY DEF MsgTo
  <2> QED BY <2>1, <2>2, SeqMonotonic
<1>4. in[a] \in Seq(NWmsg) /\ in2[a] \in Seq(NWmsg) /\ out[r] \in Seq(NWmsg)
  BY DEF NodeQueues
<1>5. /\ From(a, out[r] \o u) = From(a, out[r]) \o From(a, u)
      /\ From(a, out[r]) \in Seq(Message) /\ From(a, u) \in Seq(Message)
  BY <1>3, <1>4, FromConcat
<1>6. CASE a \in F
  <2>1. in[a] # << >> /\ Msgs(in2[a]) = Msgs(Tail(in[a]))
    BY <1>1, <1>6
  <2>2. To(r, in2[a]) = To(r, Tail(in[a]))
    BY <2>1, MsgsDecide
  <2>3. /\ To(r, in[a]) = To(r, <<Head(in[a])>>) \o To(r, Tail(in[a]))
        /\ To(r, <<Head(in[a])>>) = IF r \in Receivers(Head(in[a]).msg) THEN <<Head(in[a]).msg>> ELSE << >>
        /\ To(r, Tail(in[a])) \in Seq(Message)
    BY <1>4, <2>1, ToHead
  <2>4. From(a, u) = To(r, <<Head(in[a])>>)
    BY <1>2, <1>6, <2>3 DEF Reaches
  <2>5. (From(a, out[r]) \o From(a, u)) \o To(r, Tail(in[a]))
          = From(a, out[r]) \o (From(a, u) \o To(r, Tail(in[a])))
    <3>1. From(a, out[r]) \in Seq(Message) /\ From(a, u) \in Seq(Message) /\ To(r, Tail(in[a])) \in Seq(Message)
      BY <1>5, <2>3
    <3>2. Regroups(From(a, out[r]), From(a, u), To(r, Tail(in[a])))
      BY <3>1, ConcatRegroups
    <3> QED BY <3>2 DEF Regroups
  <2> QED BY <1>2, <1>5, <2>2, <2>3, <2>4, <2>5 DEF Coming
<1>7. CASE a \notin F
  <2>1. To(r, in2[a]) = To(r, in[a])
    BY <1>1, <1>7, MsgsDecide
  <2>2. From(a, u) = << >>
    BY <1>2, <1>7 DEF Reaches
  <2>3. From(a, out[r]) \o << >> = From(a, out[r])
    BY <1>5, ConcatEmptySeq
  <2> QED BY <1>2, <1>5, <2>1, <2>2, <2>3 DEF Coming
<1> QED BY <1>6, <1>7

LEMMA CarriesEmpty ==
  ASSUME NEW B, NEW t, NEW in, NEW in2, NEW out, NEW out2,
         Carries(B, t, in, in2, out, out2), NodeQueues(in2),
         NEW a \in Node, in[a] = << >>
  PROVE  in2[a] = << >>
<1>1. Msgs(in2[a]) = Msgs(in[a])
  BY DEF Carries
<1>2. in2[a] \in Seq(NWmsg) /\ Len(Msgs(in2[a])) = Len(in2[a]) /\ Msgs(in[a]) = << >>
  BY MsgsFacts, MsgsSmall DEF NodeQueues
<1> QED BY <1>1, <1>2

\* What comes waits for the same time, and behind what came before.
LEMMA CarriesWaits ==
  ASSUME NEW B, NEW t \in Nat, NEW in, NEW in2, NEW out, NEW out2,
         Carries(B, t, in, in2, out, out2), NodeQueues(out),
         NEW r \in Node, NEW last \in Int, last <= t, UpTo(out[r], last + Postdelay[r])
  PROVE  UpTo(out2[r], t + Postdelay[r])
<1>1. PICK F \in SUBSET B : \A i \in Node : \E u : Reaches(in, F, i, t, u) /\ out2[i] = out[i] \o u
  BY DEF Carries
<1>2. PICK u : Reaches(in, F, r, t, u) /\ out2[r] = out[r] \o u
  BY <1>1
<1>3. u \in Seq({x \in MsgTo(r) : x.waituntil = t + Postdelay[r]})
  BY <1>2 DEF Reaches
<1>4. u \in Seq(NWmsg)
  <2>2. {x \in MsgTo(r) : x.waituntil = t + Postdelay[r]} \subseteq NWmsg
    BY DEF MsgTo
  <2> QED BY <1>3, <2>2, SeqMonotonic
<1>5. \A k \in 1 .. Len(u) : u[k].waituntil = t + Postdelay[r]
  <2>1. \A k \in 1 .. Len(u) : u[k] \in {x \in MsgTo(r) : x.waituntil = t + Postdelay[r]}
    BY <1>3
  <2> QED BY <2>1
<1>6. Postdelay[r] \in Nat /\ out[r] \in Seq(NWmsg)
  BY NodeFacts DEF NodeQueues
<1>7. last + Postdelay[r] \in Int /\ t + Postdelay[r] \in Int /\ last + Postdelay[r] <= t + Postdelay[r]
  BY <1>6
<1>8. UpTo(out[r] \o u, t + Postdelay[r])
  BY <1>4, <1>5, <1>6, <1>7, UpToMore
<1> QED BY <1>2, <1>8

-----------------------------------------------------------------------------
\* The messages to r in a line, which are sent first, and those that wait behind it
LineOf(q, p, r) == To(r, q) \o To(r, p)
KeepsLine(p, q, p2, q2, t, r) ==
  /\ LineOf(q2, p2, r) = LineOf(q, p, r)
  /\ UpTo(p2, t)
  /\ p = << >> /\ q = << >> => p2 = << >> /\ q2 = << >>

\* The scan moves the first message that waits, if any.
LEMMA ScanLink ==
  ASSUME NEW S, S.time \in Nat, NEW hit, NEW p, NEW q, NEW p2, NEW q2, NEW t,
         p \in Seq(NWmsg), q \in Seq(NWmsg), p2 \in Seq(NWmsg),
         Scanned(S, hit, p, q, p2, q2), UpTo(p, t), NEW r
  PROVE  KeepsLine(p, q, p2, q2, t, r)
<1>1. CASE p2 = p /\ q2 = q
  BY <1>1 DEF KeepsLine, LineOf
<1>2. ASSUME NEW k \in 1 .. Len(p),
             /\ p[k].waituntil <= S.time /\ \A j \in 1 .. k - 1 : p[j].waituntil > S.time
             /\ p2 = RemoveAt(p, k)
             /\ q2 = q \o <<[p[k] EXCEPT !.remaining = Frame(p[k].msg)]>>
      PROVE  /\ To(r, q2) \o To(r, p2) = To(r, q) \o To(r, p) /\ UpTo(p2, t)
             /\ p # << >>
  <2>1. p # << >> /\ Len(p) \in Nat \ {0}
    OBVIOUS
  <2>2. \A j \in 1 .. Len(p) : p[j].waituntil \in Nat
    <3>1. \A j \in 1 .. Len(p) : p[j] \in NWmsg
      OBVIOUS
    <3> QED BY <3>1, MsgFacts
  <2>3. k = 1
    <3>1. ASSUME k # 1 PROVE FALSE
      <4>1. 1 \in 1 .. k - 1 /\ 1 \in 1 .. Len(p) /\ 1 < k
        BY <2>1, <3>1
      <4>2. p[1].waituntil <= p[k].waituntil /\ p[1].waituntil > S.time
        BY <1>2, <4>1 DEF UpTo
      <4>3. p[1].waituntil \in Nat /\ p[k].waituntil \in Nat
        BY <2>2, <4>1
      <4> QED BY <1>2, <4>2, <4>3
    <3> QED BY <3>1
  <2>4. p2 = Tail(p)
    BY <1>2, <2>1, <2>3 DEF RemoveAt
  <2>5. Head(p) = p[1] /\ Head(p) \in NWmsg /\ IsSubsequence(Tail(p), p) /\ Tail(p) \in Seq(NWmsg)
    BY <2>1, HeadAndTail, SubsequenceOfTail
  <2> DEFINE x == [p[k] EXCEPT !.remaining = Frame(p[k].msg)]
  <2>6. x \in NWmsg /\ x.msg = Head(p).msg
    <3>1. Head(p).msg \in Message
      BY <2>5, MsgFacts
    <3>2. Frame(Head(p).msg) \in Int
      BY <3>1, FrameFacts
    <3> QED BY <2>3, <2>5, <3>2, MsgExcept
  <2>7. q2 = q \o <<x>> /\ <<x>> \in Seq(NWmsg)
    BY <1>2, <2>6
  <2> HIDE DEF x
  <2>8. /\ To(r, q \o <<x>>) = To(r, q) \o To(r, <<x>>)
        /\ To(r, q) \in Seq(Message) /\ To(r, <<x>>) \in Seq(Message)
    BY <2>7, FromConcat
  <2>9. To(r, <<x>>) = To(r, <<Head(p)>>)
    <3>1. Msgs(<<x>>) = <<x.msg>> /\ Msgs(<<Head(p)>>) = <<Head(p).msg>>
      BY <2>5, <2>6, MsgsSmall
    <3>2. Msgs(<<x>>) = Msgs(<<Head(p)>>)
      BY <2>6, <3>1
    <3> QED BY <3>2, MsgsDecide
  <2>10. To(r, p) = To(r, <<Head(p)>>) \o To(r, Tail(p)) /\ To(r, Tail(p)) \in Seq(Message)
    BY <2>1, ToHead
  <2>11. (To(r, q) \o To(r, <<x>>)) \o To(r, Tail(p)) = To(r, q) \o (To(r, <<x>>) \o To(r, Tail(p)))
    <3>1. To(r, q) \in Seq(Message) /\ To(r, <<x>>) \in Seq(Message) /\ To(r, Tail(p)) \in Seq(Message)
      BY <2>8, <2>10
    <3>2. Regroups(To(r, q), To(r, <<x>>), To(r, Tail(p)))
      BY <3>1, ConcatRegroups
    <3> QED BY <3>2 DEF Regroups
  <2>12. UpTo(p2, t)
    BY <2>4, <2>5, UpToParts
  <2> QED BY <2>1, <2>4, <2>7, <2>8, <2>9, <2>10, <2>11, <2>12
<1> QED BY <1>1, <1>2 DEF Scanned, LineOf, KeepsLine

-----------------------------------------------------------------------------
(***************************************************************************)
(* The messages on the way from a to r, in the order in which they come.   *)
(***************************************************************************)
Ahead(S, a, r)    == From(a, S.outputQ[r]) \o From(a, S.switchQ[r])
LinkView(S, a, r) == Ahead(S, a, r) \o (LineOf(S.inputQ[a], S.preprocQ[a], r)
                                          \o LineOf(S.statinputQ[a], S.statpreprocQ[a], r))

LEMMA ViewFacts ==
  ASSUME NEW S, Net(S), NEW a \in Node, NEW r \in Node
  PROVE  /\ From(a, S.outputQ[r]) \in Seq(Message) /\ From(a, S.switchQ[r]) \in Seq(Message)
         /\ To(r, S.inputQ[a]) \in Seq(Message) /\ To(r, S.preprocQ[a]) \in Seq(Message)
         /\ To(r, S.statinputQ[a]) \in Seq(Message) /\ To(r, S.statpreprocQ[a]) \in Seq(Message)
         /\ S.outputQ[r] \in Seq(NWmsg) /\ S.switchQ[r] \in Seq(NWmsg)
         /\ S.inputQ[a] \in Seq(NWmsg) /\ S.preprocQ[a] \in Seq(NWmsg)
         /\ S.statinputQ[a] \in Seq(NWmsg) /\ S.statpreprocQ[a] \in Seq(NWmsg)
         /\ S.postprocQ[r] \in Seq(NWmsg) /\ From(a, S.postprocQ[r]) \in Seq(Message)
<1>1. /\ S.outputQ[r] \in Seq(NWmsg) /\ S.switchQ[r] \in Seq(NWmsg)
      /\ S.inputQ[a] \in Seq(NWmsg) /\ S.preprocQ[a] \in Seq(NWmsg)
      /\ S.statinputQ[a] \in Seq(NWmsg) /\ S.statpreprocQ[a] \in Seq(NWmsg)
      /\ S.postprocQ[r] \in Seq(NWmsg)
  BY DEF Net, Queues
<1>2. \A q \in Seq(NWmsg) : From(a, q) \in Seq(Message) /\ To(r, q) \in Seq(Message)
  <2> SUFFICES ASSUME NEW q \in Seq(NWmsg) PROVE From(a, q) \in Seq(Message) /\ To(r, q) \in Seq(Message)
    OBVIOUS
  <2> QED BY FromConcat
<1> QED BY <1>1, <1>2

LEMMA ViewTypes ==
  ASSUME NEW S, Net(S), NEW a \in Node, NEW r \in Node
  PROVE  /\ Ahead(S, a, r) \in Seq(Message) /\ LinkView(S, a, r) \in Seq(Message)
         /\ LineOf(S.inputQ[a], S.preprocQ[a], r) \in Seq(Message)
         /\ LineOf(S.statinputQ[a], S.statpreprocQ[a], r) \in Seq(Message)
<1>1. /\ Ahead(S, a, r) \in Seq(Message)
      /\ LineOf(S.inputQ[a], S.preprocQ[a], r) \in Seq(Message)
      /\ LineOf(S.statinputQ[a], S.statpreprocQ[a], r) \in Seq(Message)
  BY ViewFacts, ConcatProperties DEF Ahead, LineOf
<1>2. LineOf(S.inputQ[a], S.preprocQ[a], r) \o LineOf(S.statinputQ[a], S.statpreprocQ[a], r) \in Seq(Message)
  BY <1>1, ConcatProperties
<1> QED BY <1>1, <1>2, ConcatProperties DEF LinkView

LEMMA EmptyLine ==
  \A r : LineOf(<< >>, << >>, r) = << >>
<1>1. \A r : To(r, << >>) = << >>
  BY FromSmall
<1>2. << >> \o << >> = << >>
  BY EmptySeq, ConcatEmptySeq
<1> QED BY <1>1, <1>2 DEF LineOf

\* A node that sends has messages in one pair of queues only.
StaticNode(i) == \E m \in Static : Sender[m] = i
OneSegment(S) ==
  \A i \in Node : IF S.type = "FLEXRAY" /\ StaticNode(i)
                  THEN S.preprocQ[i] = << >> /\ S.inputQ[i] = << >>
                  ELSE S.statpreprocQ[i] = << >> /\ S.statinputQ[i] = << >>

LEMMA SegmentView ==
  ASSUME NEW S, Net(S), OneSegment(S), NEW a \in Node, NEW r \in Node
  PROVE  LinkView(S, a, r) =
           IF S.type = "FLEXRAY" /\ StaticNode(a)
           THEN Ahead(S, a, r) \o LineOf(S.statinputQ[a], S.statpreprocQ[a], r)
           ELSE Ahead(S, a, r) \o LineOf(S.inputQ[a], S.preprocQ[a], r)
<1> DEFINE l == LineOf(S.inputQ[a], S.preprocQ[a], r)
           s == LineOf(S.statinputQ[a], S.statpreprocQ[a], r)
<1>1. l \in Seq(Message) /\ s \in Seq(Message)
  BY ViewTypes
<1>2. LinkView(S, a, r) = Ahead(S, a, r) \o (l \o s)
  BY DEF LinkView
<1>3. CASE S.type = "FLEXRAY" /\ StaticNode(a)
  <2>1. l = << >>
    BY <1>3, EmptyLine DEF OneSegment
  <2> HIDE DEF l, s
  <2>2. << >> \o s = s
    BY <1>1, ConcatEmptySeq
  <2> QED BY <1>2, <1>3, <2>1, <2>2 DEF s
<1>4. CASE ~ (S.type = "FLEXRAY" /\ StaticNode(a))
  <2>1. s = << >>
    BY <1>4, EmptyLine DEF OneSegment
  <2> HIDE DEF l, s
  <2>2. l \o << >> = l
    BY <1>1, ConcatEmptySeq
  <2> QED BY <1>2, <1>4, <2>1, <2>2 DEF l
<1> QED BY <1>3, <1>4

(***************************************************************************)
(* In the switch a copy of a broadcast waits for its postdelay from when   *)
(* it reached the switch, a message for one node does not wait.  What      *)
(* comes behind it from the same sender needs the time of two minimum      *)
(* frames to get to outputQ: that keeps the messages in order when the     *)
(* postdelay is no longer.                                                 *)
(***************************************************************************)
ShortPostdelay == \A r \in Node : Datarate * Postdelay[r] <= 2 * Minsize

\* The bits that can be sent while x still waits, at time t
WaitBits(x, t) == Datarate * (x.waituntil - t)
SameSender(x, y) == Sender[x.msg] = Sender[y.msg]

LEMMA WaitLess ==
  ASSUME NEW x \in NWmsg, NEW t \in Int, NEW e \in Nat
  PROVE  /\ WaitBits(x, t) \in Int /\ WaitBits(x, t + e) = WaitBits(x, t) - Datarate * e
         /\ WaitBits(x, t + e) <= WaitBits(x, t)
         /\ WaitBits(x, t) <= 0 => x.waituntil <= t
<1>1. Datarate \in Nat \ {0} /\ x.waituntil \in Nat
  BY FrameFacts, MsgFacts
<1>2. /\ x.waituntil - t \in Int
      /\ x.waituntil - (t + e) = (x.waituntil - t) - e
  BY <1>1
<1>3. \A n \in Int, d \in Int : Datarate * n \in Int /\ Datarate * (n - d) = Datarate * n - Datarate * d
  BY <1>1
<1>4. \A d \in Nat : Datarate * d >= 0
  BY <1>1
<1>5. \A n \in Int : n >= 1 => Datarate * n >= 1
  BY <1>1
<1>6. WaitBits(x, t) \in Int /\ WaitBits(x, t + e) = WaitBits(x, t) - Datarate * e
  <2> DEFINE n == x.waituntil - t
  <2>1. n \in Int /\ WaitBits(x, t) = Datarate * n /\ WaitBits(x, t + e) = Datarate * (n - e)
    BY <1>2 DEF WaitBits
  <2> HIDE DEF n
  <2> QED BY <1>3, <2>1
<1>7. WaitBits(x, t + e) <= WaitBits(x, t)
  <2>1. Datarate * e >= 0 /\ Datarate * e \in Int
    BY <1>3, <1>4
  <2> QED BY <1>6, <2>1
<1>8. WaitBits(x, t) <= 0 => x.waituntil <= t
  <2> SUFFICES ASSUME x.waituntil > t PROVE WaitBits(x, t) >= 1
    BY <1>1, <1>6
  <2>1. x.waituntil - t >= 1
    BY <1>1
  <2> QED BY <1>2, <1>5, <2>1 DEF WaitBits
<1> QED BY <1>6, <1>7, <1>8

\* Nothing in a network with short postdelays waits for more than two minimum frames.
LEMMA WaitShort ==
  ASSUME ShortPostdelay, NEW r \in Node, NEW x \in NWmsg, NEW t \in Int, x.waituntil <= t + Postdelay[r]
  PROVE  WaitBits(x, t) <= 2 * Minsize
<1>1. Datarate \in Nat \ {0} /\ x.waituntil \in Nat /\ Postdelay[r] \in Nat
  BY FrameFacts, MsgFacts, NodeFacts
<1>2. x.waituntil - t \in Int /\ x.waituntil - t <= Postdelay[r]
  BY <1>1
<1>3. \A n \in Int, p \in Int : n <= p => Datarate * n <= Datarate * p
  BY <1>1
<1>4. Datarate * (x.waituntil - t) <= Datarate * Postdelay[r]
  BY <1>1, <1>2, <1>3
<1>5. Datarate * Postdelay[r] <= 2 * Minsize
  BY DEF ShortPostdelay
<1>6. Datarate * (x.waituntil - t) \in Int /\ Datarate * Postdelay[r] \in Int /\ 2 * Minsize \in Int
  BY <1>1, <1>2, FrameFacts
<1> QED BY <1>4, <1>5, <1>6 DEF WaitBits

\* Whole frames are not shorter than a minimum frame.
LEMMA WholeLong ==
  ASSUME NEW A, A \subseteq NWmsg, NEW x \in Whole(A)
  PROVE  x \in NWmsg /\ x.remaining \in Int /\ x.remaining >= Minsize
<1>1. x \in NWmsg /\ x.remaining = Frame(x.msg)
  BY DEF Whole
<1>2. x.msg \in Message /\ Length[x.msg] \in Nat /\ Minsize \in Nat
  BY <1>1, MsgFacts, FrameFacts
<1> QED BY <1>1, <1>2 DEF Frame

(***************************************************************************)
(* What the switch has for receiver r, when the first frames of the nodes  *)
(* have been counted down up to the time i, and those of its outputs up    *)
(* to the time o.                                                          *)
(***************************************************************************)
Behind(out, sw, swstate, i, o) ==
  \A j \in 1 .. Len(out), k \in 1 .. Len(sw) :
    SameSender(out[j], sw[k]) =>
      WaitBits(out[j], IF k = 1 /\ swstate = 1 THEN o ELSE i) <= sw[k].remaining
InLine(sw, i) ==
  \A j, k \in 1 .. Len(sw) : j < k /\ SameSender(sw[j], sw[k]) => WaitBits(sw[j], i) <= sw[k].remaining
HasWaited(out, i) ==
  \A j, k \in 1 .. Len(out) : j < k /\ SameSender(out[j], out[k]) => out[j].waituntil <= i
WaitsUpTo(q, t) == \A k \in 1 .. Len(q) : q[k].waituntil <= t
\* Node a sends its first frame: that of q is behind.
BehindAll(q, a, S, i) ==
  \A k \in 1 .. Len(q) :
    Sender[q[k].msg] = a => WaitBits(q[k], i) <= Head(S.inputQ[a]).remaining + Minsize

SwitchOrder(S, i, o) ==
  /\ \A r \in Node :
       /\ HasWaited(S.outputQ[r], i)
       /\ Behind(S.outputQ[r], S.switchQ[r], S.swstate[r], i, o)
       /\ InLine(S.switchQ[r], i)
       /\ WaitsUpTo(S.outputQ[r], i + Postdelay[r]) /\ WaitsUpTo(S.switchQ[r], i + Postdelay[r])
       /\ \A a \in Node : S.state[a] = 1 => BehindAll(S.outputQ[r], a, S, i) /\ BehindAll(S.switchQ[r], a, S, i)
  /\ \A a \in Node : WaitsUpTo(S.inputQ[a], S.time)

LEMMA ElementsOf ==
  ASSUME NEW q \in Seq(NWmsg)
  PROVE  /\ Len(q) \in Nat
         /\ \A k \in 1 .. Len(q) : /\ q[k] \in NWmsg /\ q[k].msg \in Message /\ q[k].waituntil \in Nat
                                   /\ q[k].remaining \in Int
<1>1. \A k \in 1 .. Len(q) : q[k] \in NWmsg
  OBVIOUS
<1> QED BY <1>1, MsgFacts

LEMMA AppendElements ==
  ASSUME NEW q \in Seq(NWmsg), NEW x \in NWmsg
  PROVE  /\ Append(q, x) \in Seq(NWmsg) /\ Len(Append(q, x)) = Len(q) + 1
         /\ \A k \in 1 .. Len(q) : Append(q, x)[k] = q[k]
         /\ Append(q, x)[Len(q) + 1] = x
  BY AppendProperties

\* One more frame for an output of the switch
LEMMA OrderAppend ==
  ASSUME NEW out \in Seq(NWmsg), NEW sw \in Seq(NWmsg), NEW x \in NWmsg, NEW n, NEW i \in Int, NEW o \in Int,
         Behind(out, sw, n, i, o), InLine(sw, i), n = 1 => sw # << >>,
         \A k \in 1 .. Len(out) : SameSender(out[k], x) => WaitBits(out[k], i) <= x.remaining,
         \A k \in 1 .. Len(sw) : SameSender(sw[k], x) => WaitBits(sw[k], i) <= x.remaining
  PROVE  Behind(out, Append(sw, x), n, i, o) /\ InLine(Append(sw, x), i)
<1> DEFINE p == Append(sw, x)
<1>1. /\ Len(p) = Len(sw) + 1 /\ Len(sw) \in Nat /\ p[Len(sw) + 1] = x
      /\ \A k \in 1 .. Len(sw) : p[k] = sw[k]
  BY AppendElements
<1> HIDE DEF p
<1>2. Behind(out, p, n, i, o)
  <2> SUFFICES ASSUME NEW j \in 1 .. Len(out), NEW k \in 1 .. Len(p), SameSender(out[j], p[k])
               PROVE  WaitBits(out[j], IF k = 1 /\ n = 1 THEN o ELSE i) <= p[k].remaining
    BY DEF Behind
  <2>1. CASE k \in 1 .. Len(sw)
    BY <1>1, <2>1 DEF Behind
  <2>2. CASE k = Len(sw) + 1
    <3>1. p[k] = x /\ ~ (k = 1 /\ n = 1)
      BY <1>1, <2>2
    <3> QED BY <3>1
  <2> QED BY <1>1, <2>1, <2>2
<1>3. InLine(p, i)
  <2> SUFFICES ASSUME NEW j \in 1 .. Len(p), NEW k \in 1 .. Len(p), j < k, SameSender(p[j], p[k])
               PROVE  WaitBits(p[j], i) <= p[k].remaining
    BY DEF InLine
  <2>1. j \in 1 .. Len(sw) /\ p[j] = sw[j]
    BY <1>1
  <2>2. CASE k \in 1 .. Len(sw)
    BY <1>1, <2>1, <2>2 DEF InLine
  <2>3. CASE k = Len(sw) + 1
    BY <1>1, <2>1, <2>3
  <2> QED BY <1>1, <2>2, <2>3
<1> QED BY <1>2, <1>3 DEF p

\* A frame that an output has sent comes behind those that have waited.
LEMMA OrderMove ==
  ASSUME NEW out \in Seq(NWmsg), NEW sw \in Seq(NWmsg), sw # << >>, NEW x \in NWmsg, NEW n, NEW m, NEW i \in Int,
         Behind(out, sw, n, i, i), InLine(sw, i), HasWaited(out, i),
         Head(sw).remaining <= 0, x.msg = Head(sw).msg, x.waituntil = Head(sw).waituntil
  PROVE  /\ HasWaited(Append(out, x), i) /\ Behind(Append(out, x), Tail(sw), m, i, i)
         /\ InLine(Tail(sw), i)
<1> DEFINE p == Append(out, x)
           t == Tail(sw)
           h == sw[1]
<1>1. /\ Len(p) = Len(out) + 1 /\ Len(out) \in Nat /\ p[Len(out) + 1] = x
      /\ \A k \in 1 .. Len(out) : p[k] = out[k]
  BY AppendElements
<1>2. /\ h = Head(sw) /\ Len(sw) \in Nat \ {0} /\ Len(t) = Len(sw) - 1 /\ t \in Seq(NWmsg)
      /\ \A k \in 1 .. Len(sw) - 1 : t[k] = sw[k + 1]
  BY HeadAndTail
<1>3. h \in NWmsg /\ h.remaining \in Int /\ h.remaining <= 0 /\ x.msg = h.msg /\ x.waituntil = h.waituntil
  <2>1. h \in NWmsg
    BY <1>2
  <2> QED BY <1>2, <2>1, MsgFacts
<1> HIDE DEF p, t, h
<1>4. \A y : (IF y = 1 /\ n = 1 THEN i ELSE i) = i /\ (IF y = 1 /\ m = 1 THEN i ELSE i) = i
  OBVIOUS
<1>5. WaitBits(x, i) = WaitBits(h, i) /\ \A y : SameSender(x, y) <=> SameSender(h, y)
  BY <1>3 DEF WaitBits, SameSender
<1>6. HasWaited(p, i)
  <2> SUFFICES ASSUME NEW j \in 1 .. Len(p), NEW k \in 1 .. Len(p), j < k, SameSender(p[j], p[k])
               PROVE  p[j].waituntil <= i
    BY DEF HasWaited
  <2>1. j \in 1 .. Len(out) /\ p[j] = out[j]
    BY <1>1
  <2>2. CASE k \in 1 .. Len(out)
    BY <1>1, <2>1, <2>2 DEF HasWaited
  <2>3. CASE k = Len(out) + 1
    <3>1. SameSender(out[j], h)
      BY <1>1, <1>3, <2>1, <2>3 DEF SameSender
    <3>2. WaitBits(out[j], i) <= h.remaining
      <4>1. 1 \in 1 .. Len(sw) /\ SameSender(out[j], sw[1])
        BY <1>2, <3>1 DEF h
      <4>2. WaitBits(out[j], IF 1 = 1 /\ n = 1 THEN i ELSE i) <= sw[1].remaining
        BY <2>1, <4>1 DEF Behind
      <4> QED BY <4>2 DEF h
    <3>3. out[j] \in NWmsg /\ WaitBits(out[j], i) \in Int
      <4>1. out[j] \in NWmsg
        BY <2>1
      <4>2. 0 \in Nat
        OBVIOUS
      <4> QED BY <4>1, <4>2, WaitLess
    <3>4. WaitBits(out[j], i) <= 0
      BY <1>3, <3>2, <3>3
    <3>5. 0 \in Nat
      OBVIOUS
    <3>6. WaitBits(out[j], i) <= 0 => out[j].waituntil <= i
      BY <3>3, <3>5, WaitLess
    <3> QED BY <2>1, <3>4, <3>6
  <2> QED BY <1>1, <2>2, <2>3
<1>7. Behind(p, t, m, i, i)
  <2> SUFFICES ASSUME NEW j \in 1 .. Len(p), NEW k \in 1 .. Len(t), SameSender(p[j], t[k])
               PROVE  WaitBits(p[j], i) <= t[k].remaining
    BY DEF Behind
  <2>1. k \in 1 .. Len(sw) - 1 /\ k + 1 \in 1 .. Len(sw) /\ t[k] = sw[k + 1]
    BY <1>2
  <2>2. CASE j \in 1 .. Len(out)
    <3>1. p[j] = out[j]
      BY <1>1, <2>2
    <3>2. WaitBits(out[j], IF k + 1 = 1 /\ n = 1 THEN i ELSE i) <= sw[k + 1].remaining
      BY <2>1, <2>2, <3>1 DEF Behind
    <3> QED BY <2>1, <3>1, <3>2
  <2>3. CASE j = Len(out) + 1
    <3>1. p[j] = x /\ SameSender(h, sw[k + 1])
      BY <1>1, <1>5, <2>1, <2>3
    <3>2. 1 \in 1 .. Len(sw) /\ 1 < k + 1 /\ SameSender(sw[1], sw[k + 1])
      BY <1>2, <2>1, <3>1 DEF h
    <3>3. WaitBits(sw[1], i) <= sw[k + 1].remaining
      BY <2>1, <3>2 DEF InLine
    <3> QED BY <1>5, <2>1, <3>1, <3>3 DEF h
  <2> QED BY <1>1, <2>2, <2>3
<1>8. InLine(t, i)
  <2> SUFFICES ASSUME NEW j \in 1 .. Len(t), NEW k \in 1 .. Len(t), j < k, SameSender(t[j], t[k])
               PROVE  WaitBits(t[j], i) <= t[k].remaining
    BY DEF InLine
  <2>1. /\ j + 1 \in 1 .. Len(sw) /\ k + 1 \in 1 .. Len(sw) /\ t[j] = sw[j + 1] /\ t[k] = sw[k + 1]
        /\ j + 1 < k + 1
    BY <1>2
  <2> QED BY <2>1 DEF InLine
<1> QED BY <1>6, <1>7, <1>8 DEF p, t

\* What holds for every frame of a queue
LEMMA WaitsMore ==
  ASSUME NEW q \in Seq(NWmsg), NEW x \in NWmsg, NEW t, WaitsUpTo(q, t), x.waituntil <= t
  PROVE  WaitsUpTo(Append(q, x), t)
  BY AppendElements DEF WaitsUpTo

LEMMA WaitsTail ==
  ASSUME NEW q \in Seq(NWmsg), q # << >>, NEW t, WaitsUpTo(q, t)
  PROVE  WaitsUpTo(Tail(q), t) /\ Head(q).waituntil <= t
<1>1. /\ Len(q) \in Nat \ {0} /\ Len(Tail(q)) = Len(q) - 1 /\ Head(q) = q[1]
      /\ \A k \in 1 .. Len(q) - 1 : Tail(q)[k] = q[k + 1]
  BY HeadAndTail
<1>2. \A k \in 1 .. Len(q) - 1 : k + 1 \in 1 .. Len(q)
  BY <1>1
<1> QED BY <1>1, <1>2 DEF WaitsUpTo

LEMMA BehindAllMore ==
  ASSUME NEW q \in Seq(NWmsg), NEW x \in NWmsg, NEW a, NEW S, NEW i, BehindAll(q, a, S, i),
         Sender[x.msg] = a => WaitBits(x, i) <= Head(S.inputQ[a]).remaining + Minsize
  PROVE  BehindAll(Append(q, x), a, S, i)
  BY AppendElements DEF BehindAll

LEMMA BehindAllTail ==
  ASSUME NEW q \in Seq(NWmsg), q # << >>, NEW a, NEW S, NEW i, BehindAll(q, a, S, i)
  PROVE  /\ BehindAll(Tail(q), a, S, i)
         /\ Sender[Head(q).msg] = a => WaitBits(Head(q), i) <= Head(S.inputQ[a]).remaining + Minsize
<1>1. /\ Len(q) \in Nat \ {0} /\ Len(Tail(q)) = Len(q) - 1 /\ Head(q) = q[1]
      /\ \A k \in 1 .. Len(q) - 1 : Tail(q)[k] = q[k + 1]
  BY HeadAndTail
<1>2. \A k \in 1 .. Len(q) - 1 : k + 1 \in 1 .. Len(q)
  BY <1>1
<1> QED BY <1>1, <1>2 DEF BehindAll

\* What the switch has for receiver r
ReceiverOrder(S, r, i, o) ==
  /\ HasWaited(S.outputQ[r], i)
  /\ Behind(S.outputQ[r], S.switchQ[r], S.swstate[r], i, o)
  /\ InLine(S.switchQ[r], i)
  /\ WaitsUpTo(S.outputQ[r], i + Postdelay[r]) /\ WaitsUpTo(S.switchQ[r], i + Postdelay[r])
  /\ \A a \in Node : S.state[a] = 1 => BehindAll(S.outputQ[r], a, S, i) /\ BehindAll(S.switchQ[r], a, S, i)

LEMMA OrderParts ==
  ASSUME NEW S, NEW i, NEW o
  PROVE  SwitchOrder(S, i, o) <=> /\ \A r \in Node : ReceiverOrder(S, r, i, o)
                                  /\ \A a \in Node : WaitsUpTo(S.inputQ[a], S.time)
  BY DEF SwitchOrder, ReceiverOrder

\* Fewer nodes send, and no other frames than before wait for receiver r.
LEMMA ReceiverOrderSame ==
  ASSUME NEW S, NEW s, NEW r \in Node, NEW i, NEW o, ReceiverOrder(S, r, i, o),
         s.outputQ[r] = S.outputQ[r], s.switchQ[r] = S.switchQ[r], s.swstate[r] = S.swstate[r],
         \A a \in Node : s.state[a] = 1 => S.state[a] = 1 /\ Head(s.inputQ[a]) = Head(S.inputQ[a])
  PROVE  ReceiverOrder(s, r, i, o)
  BY DEF ReceiverOrder, BehindAll

LEMMA GoesOrder ==
  ASSUME NEW x, NEW i, MayForward(x, i), Outputs(x), NEW o \in Int, SwitchOrder(x, x.time, o),
         NEW y, Goes(x, y, i), NEW r \in Node
  PROVE  ReceiverOrder(y, r, x.time, o)
<1> DEFINE f == Head(x.inputQ[i])
           t == x.time
           out == x.outputQ[r]
           sw == x.switchQ[r]
<1>1. /\ Sent(x, i) /\ y.state = [x.state EXCEPT ![i] = 0]
      /\ Same(x, y, {"state", "inputQ", "switchQ", "switchmem", "nodemem"})
      /\ y.inputQ = [x.inputQ EXCEPT ![i] = Tail(x.inputQ[i])]
  BY DEF Goes, Starts
<1>2. Net(x) /\ i \in Node /\ x.state[i] = 1 /\ t \in Nat /\ x.state \in [Node -> 0 .. 3]
      /\ x.inputQ \in [Node -> Seq(NWmsg)]
  BY DEF MayForward, Net, Scalars, Queues
<1>3. y.outputQ = x.outputQ /\ y.swstate = x.swstate
  BY <1>1 DEF Same, Fields
<1>4. \A a \in Node : y.state[a] = 1 => a # i /\ x.state[a] = 1 /\ Head(y.inputQ[a]) = Head(x.inputQ[a])
  BY <1>1, <1>2
<1>5. ReceiverOrder(x, r, t, o) /\ WaitsUpTo(x.inputQ[i], t)
  BY <1>2, OrderParts
<1>6. f \in NWmsg /\ f.msg \in Message /\ Sender[f.msg] = i /\ f.remaining <= 0 /\ f.remaining \in Int
      /\ f.waituntil <= t /\ f.waituntil \in Nat
  <2>1. f \in NWmsg /\ f.msg \in Message /\ Sender[f.msg] = i /\ x.inputQ[i] # << >> /\ x.inputQ[i] \in Seq(NWmsg)
    BY HeadFacts DEF MayForward
  <2>2. f.remaining <= 0
    BY <1>1 DEF Sent
  <2>3. f.waituntil <= t
    BY <1>5, <2>1, WaitsTail
  <2> HIDE DEF f
  <2> QED BY <2>1, <2>2, <2>3, MsgFacts
<1>7. CASE r \notin Receivers(f.msg)
  <2>1. y.switchQ[r] = x.switchQ[r]
    BY <1>7 DEF Goes
  <2> QED BY <1>3, <1>4, <1>5, <2>1, ReceiverOrderSame
<1>8. CASE r \in Receivers(f.msg)
  <2>1. PICK z \in Whole(MsgTo(r)) :
          /\ z.msg = f.msg /\ y.switchQ[r] = Append(sw, z)
          /\ z.waituntil = IF Receiver[z.msg] = -1 THEN t + Postdelay[r] ELSE f.waituntil
    BY <1>8 DEF Goes
  <2>2. out \in Seq(NWmsg) /\ sw \in Seq(NWmsg) /\ Postdelay[r] \in Nat /\ Minsize \in Nat
    BY <1>2, ViewFacts, NodeFacts, FrameFacts
  <2>3. z \in NWmsg /\ z.remaining \in Int /\ z.remaining >= Minsize
    BY MsgFacts, WholeLong
  <2>4. x.swstate[r] = 1 => sw # << >>
    BY DEF Outputs, Output, Busy
  <2>5. BehindAll(out, i, x, t) /\ BehindAll(sw, i, x, t)
    BY <1>2, <1>5 DEF ReceiverOrder
  <2>6. Behind(out, sw, x.swstate[r], t, o) /\ InLine(sw, t) /\ WaitsUpTo(sw, t + Postdelay[r])
        /\ HasWaited(out, t) /\ WaitsUpTo(out, t + Postdelay[r])
    BY <1>5 DEF ReceiverOrder
  <2> HIDE DEF f, t, out, sw
  <2>7. ASSUME NEW q \in Seq(NWmsg), BehindAll(q, i, x, t), NEW k \in 1 .. Len(q), SameSender(q[k], z)
        PROVE  WaitBits(q[k], t) <= z.remaining
    <3>1. Sender[q[k].msg] = i
      BY <1>6, <2>1, <2>7 DEF SameSender
    <3>2. WaitBits(q[k], t) <= f.remaining + Minsize
      BY <2>7, <3>1 DEF BehindAll, f
    <3>3. q[k] \in NWmsg /\ t \in Int /\ 0 \in Nat
      BY <1>2 DEF t
    <3>4. WaitBits(q[k], t) \in Int
      BY <3>3, WaitLess
    <3> QED BY <1>6, <2>2, <2>3, <3>2, <3>4
  <2>8. /\ \A k \in 1 .. Len(out) : SameSender(out[k], z) => WaitBits(out[k], t) <= z.remaining
        /\ \A k \in 1 .. Len(sw) : SameSender(sw[k], z) => WaitBits(sw[k], t) <= z.remaining
    BY <2>2, <2>5, <2>7
  <2>9. t \in Int
    BY <1>2
  <2>10. Behind(out, Append(sw, z), x.swstate[r], t, o) /\ InLine(Append(sw, z), t)
    BY <2>2, <2>3, <2>4, <2>6, <2>8, <2>9, OrderAppend
  <2>11. z.waituntil <= t + Postdelay[r]
    BY <1>2, <1>6, <2>1, <2>2
  <2>12. WaitsUpTo(Append(sw, z), t + Postdelay[r])
    BY <2>2, <2>3, <2>6, <2>11, WaitsMore
  <2>13. ASSUME NEW a \in Node, y.state[a] = 1
         PROVE  BehindAll(out, a, y, t) /\ BehindAll(Append(sw, z), a, y, t)
    <3>1. a # i /\ x.state[a] = 1 /\ Head(y.inputQ[a]) = Head(x.inputQ[a])
      BY <1>4, <2>13
    <3>2. BehindAll(out, a, x, t) /\ BehindAll(sw, a, x, t)
      BY <1>5, <3>1 DEF ReceiverOrder, out, sw
    <3>3. BehindAll(out, a, y, t) /\ BehindAll(sw, a, y, t)
      BY <3>1, <3>2 DEF BehindAll
    <3>4. Sender[z.msg] # a
      BY <1>6, <2>1, <3>1
    <3> QED BY <2>2, <2>3, <3>3, <3>4, BehindAllMore
  <2> QED BY <1>3, <2>1, <2>6, <2>10, <2>12, <2>13 DEF ReceiverOrder, out, sw, t
<1> QED BY <1>7, <1>8

LEMMA ToSwitchOrder ==
  ASSUME NEW x, NEW i, MayForward(x, i), Outputs(x), NEW o \in Int, SwitchOrder(x, x.time, o),
         NEW y, y = ToSwitch(x, i)
  PROVE  SwitchOrder(y, y.time, o) /\ y.time = x.time
<1>1. Net(x) /\ i \in Node /\ x.state[i] = 1 /\ x.state \in [Node -> 0 .. 3] /\ x.inputQ \in [Node -> Seq(NWmsg)]
      /\ x.inputQ[i] # << >> /\ x.inputQ[i] \in Seq(NWmsg)
  BY DEF MayForward, Net, Scalars, Queues
<1>2. Stays(x, y, i) \/ Goes(x, y, i) \/ Again(x, y, i) \/ Drops(x, y, i)
  BY ToSwitchCases
<1>3. /\ \A r \in Node : ReceiverOrder(x, r, x.time, o)
      /\ \A a \in Node : WaitsUpTo(x.inputQ[a], x.time)
  BY OrderParts
<1>4. CASE Stays(x, y, i)
  <2>1. y.outputQ = x.outputQ /\ y.switchQ = x.switchQ /\ y.swstate = x.swstate /\ y.state = x.state
        /\ y.inputQ = x.inputQ /\ y.time = x.time
    BY <1>4 DEF Stays, Same, Fields
  <2>2. ASSUME NEW r \in Node PROVE ReceiverOrder(y, r, x.time, o)
    BY <1>3, <2>1, ReceiverOrderSame
  <2> QED BY <1>3, <2>1, <2>2, OrderParts
<1>5. ASSUME NEW q, y.inputQ = [x.inputQ EXCEPT ![i] = q], WaitsUpTo(q, x.time), y.time = x.time
      PROVE  \A a \in Node : WaitsUpTo(y.inputQ[a], y.time)
  BY <1>1, <1>3, <1>5
<1>6. WaitsUpTo(Tail(x.inputQ[i]), x.time) /\ Head(x.inputQ[i]).waituntil <= x.time
  BY <1>1, <1>3, WaitsTail
<1>7. CASE Goes(x, y, i)
  <2>1. y.inputQ = [x.inputQ EXCEPT ![i] = Tail(x.inputQ[i])] /\ y.time = x.time
    BY <1>7 DEF Goes, Starts, Same, Fields
  <2>2. \A r \in Node : ReceiverOrder(y, r, x.time, o)
    BY <1>7, GoesOrder
  <2> QED BY <1>5, <1>6, <2>1, <2>2, OrderParts
<1>8. ASSUME NEW q, Starts(x, y, i, {"state", "inputQ"}), y.inputQ = [x.inputQ EXCEPT ![i] = q], WaitsUpTo(q, x.time)
      PROVE  SwitchOrder(y, y.time, o) /\ y.time = x.time
  <2>1. y.outputQ = x.outputQ /\ y.switchQ = x.switchQ /\ y.swstate = x.swstate
        /\ y.state = [x.state EXCEPT ![i] = 0] /\ y.time = x.time
    BY <1>8 DEF Starts, Same, Fields
  <2>2. \A a \in Node : y.state[a] = 1 => x.state[a] = 1 /\ Head(y.inputQ[a]) = Head(x.inputQ[a])
    BY <1>1, <1>8, <2>1
  <2>3. ASSUME NEW r \in Node PROVE ReceiverOrder(y, r, x.time, o)
    BY <1>3, <2>1, <2>2, ReceiverOrderSame
  <2> QED BY <1>5, <1>8, <2>1, <2>3, OrderParts
<1>9. CASE Again(x, y, i)
  <2>1. PICK z \in NWmsg : y.inputQ[i] = <<z>> \o Tail(x.inputQ[i]) /\ z.waituntil = Head(x.inputQ[i]).waituntil
    BY <1>9 DEF Again
  <2> DEFINE T == Tail(x.inputQ[i])
             q == <<z>> \o T
  <2>2. T \in Seq(NWmsg)
    BY <1>1
  <2>3. WaitsUpTo(q, x.time)
    <3>1. /\ Len(q) = Len(T) + 1 /\ q[1] = z /\ Len(T) \in Nat
          /\ \A k \in 1 .. Len(q) : k # 1 => q[k] = T[k - 1]
      <4> HIDE DEF T
      <4> QED BY <2>2
    <3>2. WaitsUpTo(T, x.time)
      BY <1>6
    <3> HIDE DEF T, q
    <3>3. \A k \in 1 .. Len(q) : k # 1 => k - 1 \in 1 .. Len(T)
      BY <3>1
    <3> QED BY <1>6, <2>1, <3>1, <3>2, <3>3 DEF WaitsUpTo
  <2>4. Starts(x, y, i, {"state", "inputQ"}) /\ y.inputQ = [x.inputQ EXCEPT ![i] = q]
    BY <1>9, <2>1 DEF Again
  <2> HIDE DEF q
  <2> QED BY <1>8, <2>3, <2>4
<1>10. CASE Drops(x, y, i)
  <2>1. Starts(x, y, i, {"state", "inputQ"}) /\ y.inputQ = [x.inputQ EXCEPT ![i] = Tail(x.inputQ[i])]
    BY <1>10 DEF Drops
  <2> QED BY <1>6, <1>8, <2>1
<1> QED BY <1>2, <1>4, <1>7, <1>9, <1>10

LEMMA ToReceiverOrder ==
  ASSUME NEW x, NEW r, MayReceive(x, r), SwitchOrder(x, x.time, x.time), NEW y, y = ToReceiver(x, r)
  PROVE  SwitchOrder(y, y.time, y.time) /\ y.time = x.time
<1> DEFINE t == x.time
<1>1. /\ Net(x) /\ r \in Node /\ x.swstate[r] = 1 /\ x.switchQ[r] # << >> /\ t \in Nat
      /\ x.switchQ[r] \in Seq(NWmsg) /\ x.outputQ[r] \in Seq(NWmsg)
      /\ x.swstate \in [Node -> {0, 1}] /\ x.outputQ \in [Node -> Seq(NWmsg)] /\ x.switchQ \in [Node -> Seq(NWmsg)]
  BY DEF MayReceive, Net, Scalars, Queues
<1>2. Remains(x, y, r) \/ Comes(x, y, r)
  BY ToReceiverCases
<1>3. /\ \A n \in Node : ReceiverOrder(x, n, t, t)
      /\ \A a \in Node : WaitsUpTo(x.inputQ[a], t)
  BY OrderParts
<1>4. CASE Remains(x, y, r)
  <2>1. y.outputQ = x.outputQ /\ y.switchQ = x.switchQ /\ y.swstate = x.swstate /\ y.state = x.state
        /\ y.inputQ = x.inputQ /\ y.time = x.time
    BY <1>4 DEF Remains, Same, Fields
  <2>2. ASSUME NEW n \in Node PROVE ReceiverOrder(y, n, t, t)
    BY <1>3, <2>1, ReceiverOrderSame
  <2> QED BY <1>3, <2>1, <2>2, OrderParts
<1>5. CASE Comes(x, y, r)
  <2>1. PICK z \in MsgTo(r) :
          /\ z.msg = Head(x.switchQ[r]).msg /\ z.waituntil = Head(x.switchQ[r]).waituntil
          /\ y.outputQ = [x.outputQ EXCEPT ![r] = Append(x.outputQ[r], z)]
    BY <1>5 DEF Comes
  <2>2. /\ Head(x.switchQ[r]).remaining <= 0
        /\ y.swstate = [x.swstate EXCEPT ![r] = 0]
        /\ y.switchQ = [x.switchQ EXCEPT ![r] = Tail(x.switchQ[r])]
        /\ Same(x, y, {"swstate", "switchQ", "outputQ", "switchmem", "nodemem"})
    BY <1>5 DEF Comes
  <2>3. y.state = x.state /\ y.inputQ = x.inputQ /\ y.time = x.time
    BY <2>2 DEF Same, Fields
  <2>4. z \in NWmsg
    BY MsgFacts
  <2>5. ASSUME NEW n \in Node, n # r PROVE ReceiverOrder(y, n, t, t)
    <3>1. y.outputQ[n] = x.outputQ[n] /\ y.switchQ[n] = x.switchQ[n] /\ y.swstate[n] = x.swstate[n]
      BY <1>1, <2>1, <2>2, <2>5
    <3> QED BY <1>3, <2>3, <3>1, ReceiverOrderSame
  <2> DEFINE out == x.outputQ[r]
             sw == x.switchQ[r]
  <2>6. y.outputQ[r] = Append(out, z) /\ y.switchQ[r] = Tail(sw)
    BY <1>1, <2>1, <2>2
  <2>7. /\ Behind(out, sw, x.swstate[r], t, t) /\ InLine(sw, t) /\ HasWaited(out, t)
        /\ WaitsUpTo(out, t + Postdelay[r]) /\ WaitsUpTo(sw, t + Postdelay[r])
        /\ \A a \in Node : x.state[a] = 1 => BehindAll(out, a, x, t) /\ BehindAll(sw, a, x, t)
    BY <1>1, <1>3 DEF ReceiverOrder
  <2>8. /\ out \in Seq(NWmsg) /\ sw \in Seq(NWmsg) /\ sw # << >> /\ t \in Int
        /\ Head(sw).remaining <= 0 /\ z.msg = Head(sw).msg /\ z.waituntil = Head(sw).waituntil
    BY <1>1, <2>1, <2>2
  <2> HIDE DEF out, sw, t
  <2>9. /\ HasWaited(Append(out, z), t) /\ Behind(Append(out, z), Tail(sw), y.swstate[r], t, t)
        /\ InLine(Tail(sw), t)
    BY <2>4, <2>7, <2>8, OrderMove
  <2>10. WaitsUpTo(Tail(sw), t + Postdelay[r]) /\ Head(sw).waituntil <= t + Postdelay[r]
    BY <2>7, <2>8, WaitsTail
  <2>11. WaitsUpTo(Append(out, z), t + Postdelay[r])
    BY <2>4, <2>7, <2>8, <2>10, WaitsMore
  <2>12. ASSUME NEW a \in Node, y.state[a] = 1
         PROVE  BehindAll(Append(out, z), a, y, t) /\ BehindAll(Tail(sw), a, y, t)
    <3>1. BehindAll(out, a, x, t) /\ BehindAll(sw, a, x, t)
      BY <2>3, <2>7, <2>12
    <3>2. BehindAll(out, a, y, t) /\ BehindAll(sw, a, y, t)
      BY <2>3, <3>1 DEF BehindAll
    <3>3. /\ BehindAll(Tail(sw), a, y, t)
          /\ Sender[Head(sw).msg] = a => WaitBits(Head(sw), t) <= Head(y.inputQ[a]).remaining + Minsize
      BY <2>8, <3>2, BehindAllTail
    <3>4. WaitBits(z, t) = WaitBits(Head(sw), t) /\ Sender[z.msg] = Sender[Head(sw).msg]
      BY <2>8 DEF WaitBits
    <3>5. Sender[z.msg] = a => WaitBits(z, t) <= Head(y.inputQ[a]).remaining + Minsize
      BY <3>3, <3>4
    <3>6. BehindAll(Append(out, z), a, y, t)
      BY <2>4, <2>8, <3>2, <3>5, BehindAllMore
    <3> QED BY <3>3, <3>6
  <2>13. ReceiverOrder(y, r, t, t)
    BY <2>6, <2>9, <2>10, <2>11, <2>12 DEF ReceiverOrder
  <2> QED BY <1>3, <2>3, <2>5, <2>13, OrderParts DEF t
<1> QED BY <1>2, <1>4, <1>5

-----------------------------------------------------------------------------
\* The first frame of p has been counted down.
Counted(q, p, n) ==
  /\ q \in Seq(NWmsg) /\ q # << >> /\ n \in Int
  /\ p = <<[Head(q) EXCEPT !.remaining = n]>> \o Tail(q)

LEMMA CountedFacts ==
  ASSUME NEW q, NEW p, NEW n, Counted(q, p, n)
  PROVE  /\ Len(p) = Len(q) /\ p \in Seq(NWmsg) /\ 1 \in 1 .. Len(q) /\ Head(p) = p[1] /\ Head(q) = q[1]
         /\ p[1].remaining = n
         /\ \A k \in 1 .. Len(q) : /\ p[k].msg = q[k].msg /\ p[k].waituntil = q[k].waituntil
                                   /\ k # 1 => p[k] = q[k]
<1> DEFINE T == Tail(q)
           z == [Head(q) EXCEPT !.remaining = n]
<1>1. /\ T \in Seq(NWmsg) /\ Head(q) \in NWmsg /\ Head(q) = q[1] /\ Len(q) \in Nat \ {0} /\ Len(T) = Len(q) - 1
      /\ \A k \in 1 .. Len(q) - 1 : T[k] = q[k + 1]
  BY HeadAndTail DEF Counted
<1>2. z \in NWmsg /\ z.msg = Head(q).msg /\ z.waituntil = Head(q).waituntil /\ z.remaining = n
  BY <1>1, MsgExcept DEF Counted
<1>3. p = <<z>> \o T
  BY DEF Counted
<1> HIDE DEF T, z
<1>4. /\ Len(p) = Len(T) + 1 /\ p[1] = z /\ p \in Seq(NWmsg) /\ Head(p) = p[1]
      /\ \A k \in 1 .. Len(p) : k # 1 => p[k] = T[k - 1]
  BY <1>1, <1>2, <1>3
<1>5. \A k \in 1 .. Len(q) : k # 1 => k - 1 \in 1 .. Len(q) - 1 /\ p[k] = q[k]
  BY <1>1, <1>4
<1> QED BY <1>1, <1>2, <1>4, <1>5

LEMMA CountedWaits ==
  ASSUME NEW q, NEW p, NEW n, Counted(q, p, n)
  PROVE  /\ \A t : WaitsUpTo(q, t) => WaitsUpTo(p, t)
         /\ \A a, S, i : BehindAll(q, a, S, i) => BehindAll(p, a, S, i)
         /\ \A i : InLine(q, i) => InLine(p, i)
<1>1. /\ Len(p) = Len(q)
      /\ \A k \in 1 .. Len(q) : /\ p[k].msg = q[k].msg /\ p[k].waituntil = q[k].waituntil
                                /\ k # 1 => p[k] = q[k]
  BY CountedFacts
<1>2. Len(q) \in Nat
  BY DEF Counted
<1>3. \A i : \A k \in 1 .. Len(q) : WaitBits(p[k], i) = WaitBits(q[k], i)
  BY <1>1 DEF WaitBits
<1>4. ASSUME NEW i, InLine(q, i) PROVE InLine(p, i)
  <2> SUFFICES ASSUME NEW j \in 1 .. Len(p), NEW k \in 1 .. Len(p), j < k, SameSender(p[j], p[k])
               PROVE  WaitBits(p[j], i) <= p[k].remaining
    BY DEF InLine
  <2>1. j \in 1 .. Len(q) /\ k \in 1 .. Len(q) /\ k # 1
    BY <1>1, <1>2
  <2>2. SameSender(q[j], q[k]) /\ p[k] = q[k]
    BY <1>1, <2>1 DEF SameSender
  <2>3. WaitBits(q[j], i) <= q[k].remaining
    BY <1>4, <2>1, <2>2 DEF InLine
  <2> QED BY <1>3, <2>1, <2>2, <2>3
<1>5. ASSUME NEW t, WaitsUpTo(q, t) PROVE WaitsUpTo(p, t)
  BY <1>1, <1>5 DEF WaitsUpTo
<1>6. ASSUME NEW a, NEW S, NEW i, BehindAll(q, a, S, i) PROVE BehindAll(p, a, S, i)
  BY <1>1, <1>3, <1>6 DEF BehindAll
<1> QED BY <1>4, <1>5, <1>6
=============================================================================
