------------------------- MODULE TTScheduling_proofs ------------------------
(***************************************************************************)
(* Theorems about time and priorities in TTKernel: the order of the time   *)
(* queue, the deadline and the budget timers, that the kernel runs again   *)
(* before anything it must act on, and which task has the CPU.             *)
(*                                                                         *)
(* Every operator of the kernel that changes queues is shown to keep the   *)
(* time queue in order and to leave alone all its entries but a few: those *)
(* of the task it works on (Own).  What a property says of any other task  *)
(* then carries over, and each action has to be looked at for one task.    *)
(***************************************************************************)
EXTENDS TTKernel_proofs

\* the wakeup time of every possible entry of the time queue
Key(s) == [n \in QItem |-> Wakeup(s, n)]

Neat(s) ==
  /\ s \in RTsysType
  /\ Placed(s, Task)
  /\ InOrder(Key(s), s.timeQ)

\* Only entries of T enter, leave or change their place in the time queue.
SameTimers(s, r, T) ==
  \A n \in QItem \ T : /\ n \in ToSet(r.timeQ) <=> n \in ToSet(s.timeQ)
                       /\ Wakeup(r, n) = Wakeup(s, n)

\* What moving entries between queues leaves alone.
SameWork(s, r) ==
  /\ r.time = s.time /\ r.prevHit = s.prevHit /\ r.nextHit = s.nextHit
  /\ r.currentCPU = s.currentCPU
  /\ r.running = s.running /\ r.runningUser = s.runningUser
  /\ r.segment = s.segment /\ r.nextSegment = s.nextSegment
  /\ r.execTime = s.execTime
  /\ r.absDeadline = s.absDeadline /\ r.budget = s.budget /\ r.arrival = s.arrival
  /\ \A u \in UserTask : /\ r.nbrInvocations[u] = s.nbrInvocations[u]
                         /\ r.pending[u] = s.pending[u]

Moves(s, r, T) == Neat(r) /\ SameWork(s, r) /\ SameTimers(s, r, T)

LEMMA MovesNothing ==
  ASSUME NEW s, Neat(s), NEW T
  PROVE  Moves(s, s, T)
  BY DEF Moves, SameWork, SameTimers

LEMMA MovesTransitive ==
  ASSUME NEW s, NEW r, NEW q, NEW T, NEW U, Moves(s, r, T), Moves(r, q, U), NEW V,
         T \cup U \subseteq V
  PROVE  Moves(s, q, V)
<1>1. SameWork(s, q)
  BY DEF Moves, SameWork
<1>2. SameTimers(s, q, V)
  BY DEF Moves, SameTimers
<1> QED BY <1>1, <1>2 DEF Moves

LEMMA MovesMore ==
  ASSUME NEW s, NEW r, NEW T, NEW U, Moves(s, r, T), T \cap QItem \subseteq U
  PROVE  Moves(s, r, U)
  BY DEF Moves, SameTimers

LEMMA KeyFacts ==
  ASSUME NEW s \in RTsysType
  PROVE  Key(s) \in [QItem -> Int] /\ \A n \in QItem : Key(s)[n] = Wakeup(s, n)
<1>1. s.expiry \in [Timer -> Int] /\ s.release \in [UserTask -> Int]
  BY RecordFields
<1>2. \A n \in QItem : Wakeup(s, n) \in Int
  BY <1>1 DEF Wakeup, QItem
<1> QED BY <1>2 DEF Key

\* Two states with the same times wake their entries up in the same order.
LEMMA SameKeys ==
  ASSUME NEW s, NEW r, r.expiry = s.expiry, r.release = s.release
  PROVE  Key(r) = Key(s) /\ \A n : Wakeup(r, n) = Wakeup(s, n)
  BY DEF Key, Wakeup

-----------------------------------------------------------------------------
(***************************************************************************)
(* The list operations.                                                    *)
(***************************************************************************)
\* the fields that Unlink and the moves leave alone, besides those of SameJobs
LEMMA UnlinkFields ==
  ASSUME NEW s \in RTsysType, NEW n \in Task \cup Timer
  PROVE  LET r == Unlink(s, n)
         IN  /\ r.timeQ = RemoveFirst(s.timeQ, n)
             /\ r.expiry = s.expiry /\ r.execTime = s.execTime
             /\ r.absDeadline = s.absDeadline /\ r.budget = s.budget
<1>1. CASE n \in Timer
  BY <1>1 DEF Unlink, RTsysType
<1>2. CASE n \notin Timer
  BY <1>2 DEF Unlink, RTsysType
<1> QED BY <1>1, <1>2

\* Node::remove, also of an entry that is out of its place
LEMMA UnlinkNeat ==
  ASSUME NEW s \in RTsysType, NEW n \in Task \cup Timer, Placed(s, Task),
         InOrderBut(Key(s), s.timeQ, n),
         NEW r, r = Unlink(s, n)
  PROVE  Moves(s, r, {n}) /\ n \notin ToSet(r.timeQ)
<1>1. /\ r \in RTsysType /\ SameJobs(s, r) /\ Placed(r, Task) /\ n \notin ToSet(r.timeQ)
      /\ Elsewhere(s, r, n)
  BY UnlinkFacts
<1>2. /\ r.timeQ = RemoveFirst(s.timeQ, n)
      /\ r.expiry = s.expiry /\ r.execTime = s.execTime
      /\ r.absDeadline = s.absDeadline /\ r.budget = s.budget
  BY UnlinkFields
<1>3. Key(r) = Key(s) /\ \A m : Wakeup(r, m) = Wakeup(s, m)
  BY <1>1, <1>2, SameKeys DEF SameJobs
<1>4. s.timeQ \in Seq(QItem) /\ NoDuplicates(s.timeQ)
  BY RecordFields DEF Placed
<1>5. InOrder(Key(s), r.timeQ)
  BY <1>2, <1>4, RemoveFirstInOrder
<1>6. SameWork(s, r)
  BY <1>1, <1>2, TaskSorts DEF SameJobs, SameWork
<1>7. SameTimers(s, r, {n})
  BY <1>1, <1>3 DEF SameTimers, Elsewhere
<1> QED BY <1>1, <1>3, <1>5, <1>6, <1>7 DEF Moves, Neat

LEMMA InOrderAnyhow ==
  ASSUME NEW W, NEW q, NEW n, InOrder(W, q)
  PROVE  InOrderBut(W, q, n)
  BY DEF InOrder, InOrderBut

LEMMA UnlinkMoves ==
  ASSUME NEW s, NEW n \in Task \cup Timer, Neat(s), NEW r, r = Unlink(s, n)
  PROVE  Moves(s, r, {n}) /\ n \notin ToSet(r.timeQ)
  BY UnlinkNeat, InOrderAnyhow DEF Neat

LEMMA MoveToReadyQMoves ==
  ASSUME NEW s, NEW t \in Task, Neat(s), NEW r, r = MoveToReadyQ(s, t)
  PROVE  Moves(s, r, {t}) /\ t \notin ToSet(r.timeQ)
<1> DEFINE d == Unlink(s, t)
<1>1. Moves(s, d, {t}) /\ t \notin ToSet(d.timeQ)
  BY UnlinkMoves
<1>2. /\ r \in RTsysType /\ SameJobs(s, r) /\ Placed(r, Task \cup {t})
      /\ Elsewhere(s, r, t) /\ t \notin ToSet(r.timeQ)
  BY MoveToReadyQFacts DEF Neat
<1>3. PICK q : r = [d EXCEPT !.readyQ[Affinity[t]] = q]
  BY Zenon DEF MoveToReadyQ
<1> HIDE DEF d
<1>4. /\ r.timeQ = d.timeQ /\ r.expiry = d.expiry /\ r.execTime = d.execTime
      /\ r.release = d.release /\ r.absDeadline = d.absDeadline /\ r.budget = d.budget
  BY <1>1, <1>3 DEF Moves, Neat, RTsysType
<1>5. Key(r) = Key(d) /\ \A m : Wakeup(r, m) = Wakeup(d, m)
  BY <1>4, SameKeys
<1>6. SameWork(s, r)
  BY <1>1, <1>2, <1>4, TaskSorts DEF SameJobs, SameWork, Moves
<1>7. SameTimers(s, r, {t})
  BY <1>1, <1>4, <1>5 DEF Moves, SameTimers
<1>8. Placed(r, Task)
  BY <1>2 DEF Placed
<1> QED BY <1>1, <1>2, <1>4, <1>5, <1>6, <1>7, <1>8 DEF Moves, Neat

LEMMA MakeReadyMoves ==
  ASSUME NEW s, NEW t \in Task, Neat(s), NEW r, r = MakeReady(s, t)
  PROVE  Moves(s, r, {t}) /\ t \notin ToSet(r.timeQ)
<1> DEFINE m == MoveToReadyQ(s, t)
<1>1. Moves(s, m, {t}) /\ t \notin ToSet(m.timeQ)
  BY MoveToReadyQMoves
<1>2. r = [m EXCEPT !.state[t] = "READY"]
  BY DEF MakeReady
<1>3. r \in RTsysType /\ Placed(r, Task \cup {t})
  BY MakeReadyFacts DEF Neat
<1> HIDE DEF m
<1>4. /\ r.timeQ = m.timeQ /\ r.expiry = m.expiry /\ r.release = m.release
      /\ SameWork(m, r)
  BY <1>1, <1>2 DEF Moves, Neat, RTsysType, SameWork
<1>5. Key(r) = Key(m) /\ \A n : Wakeup(r, n) = Wakeup(m, n)
  BY <1>4, SameKeys
<1>6. Placed(r, Task)
  BY <1>3 DEF Placed
<1>7. Moves(m, r, {})
  BY <1>1, <1>3, <1>4, <1>5, <1>6 DEF Moves, Neat, SameTimers
<1> QED BY <1>1, <1>4, <1>7, MovesTransitive

\* moveToList(timeQ) of an entry that may be out of its place
LEMMA MoveToTimeQMoves ==
  ASSUME NEW s \in RTsysType, NEW n \in QItem, Placed(s, Task),
         InOrderBut(Key(s), s.timeQ, n), n \in Timer => TimerTask(n) \in Task,
         NEW r, r = MoveToTimeQ(s, n)
  PROVE  /\ Moves(s, r, {n}) /\ n \in ToSet(r.timeQ) /\ Wakeup(r, n) = Wakeup(s, n)
<1> DEFINE d == Unlink(s, n)
           Stays == {i \in 1 .. Len(d.timeQ) : ~ (Wakeup(d, n) < Wakeup(d, d.timeQ[i]))}
           k == 1 + Max({0} \cup Stays)
           q == InsertAt(d.timeQ, k, n)
<1>1. Moves(s, d, {n})
  BY UnlinkNeat, TimerSorts
<1>2. /\ r \in RTsysType /\ Placed(r, Task \cup ({n} \ Timer)) /\ n \in ToSet(r.timeQ)
      /\ SameJobs(s, r) /\ Elsewhere(s, r, n)
  BY MoveToTimeQFacts
<1>3. r = [d EXCEPT !.timeQ = q]
  BY DEF MoveToTimeQ, InsertSorted
<1>4. InOrder(Key(d), q)
  <2> HIDE DEF d
  <2>1. /\ d.timeQ \in Seq(QItem) /\ Key(d) \in [QItem -> Int] /\ InOrder(Key(d), d.timeQ)
        /\ \A m \in QItem : Key(d)[m] = Wakeup(d, m)
    BY <1>1, RecordFields, KeyFacts DEF Moves, Neat
  <2>2. \A i \in 1 .. Len(d.timeQ) : d.timeQ[i] \in QItem
    BY <2>1, ElementOfSeq, LenProperties
  <2>3. Stays = {i \in 1 .. Len(d.timeQ) : ~ (Key(d)[n] < Key(d)[d.timeQ[i]])}
    BY <2>1, <2>2
  <2> DEFINE W == Key(d)
             tq == d.timeQ
  <2>4. tq \in Seq(QItem) /\ W \in [QItem -> Int] /\ InOrder(W, tq)
    BY <2>1
  <2>5. k = 1 + Max({0} \cup {i \in 1 .. Len(tq) : ~ (W[n] < W[tq[i]])})
    BY <2>3
  <2> HIDE DEF W, tq, k
  <2>6. InOrder(W, InsertAt(tq, k, n))
    BY <2>4, <2>5, InsertInOrder
  <2> QED BY <2>6 DEF W, tq
<1> HIDE DEF q, d
<1>5. /\ r.timeQ = q /\ r.expiry = d.expiry /\ r.release = d.release /\ SameWork(d, r)
  BY <1>1, <1>3 DEF Moves, Neat, RTsysType, SameWork
<1>6. Key(r) = Key(d) /\ \A m : Wakeup(r, m) = Wakeup(d, m)
  BY <1>5, SameKeys
<1>7. Placed(r, Task)
  BY <1>2, TaskSorts DEF Placed, QItem
<1>8. SameWork(s, r)
  BY <1>1, <1>5 DEF Moves, SameWork
<1>9. SameTimers(s, r, {n})
  BY <1>1, <1>2, <1>6 DEF Moves, SameTimers, Elsewhere
<1>10. Wakeup(r, n) = Wakeup(s, n)
  <2>1. d.expiry = s.expiry /\ d.release = s.release
    BY UnlinkFields, UnlinkFacts, TimerSorts DEF d, SameJobs
  <2> QED BY <2>1, <1>6, SameKeys
<1> QED BY <1>2, <1>4, <1>5, <1>6, <1>7, <1>8, <1>9, <1>10 DEF Moves, Neat

LEMMA ArmMoves ==
  ASSUME NEW s, Neat(s), NEW tm \in Timer, NEW time \in Int, TimerTask(tm) \in Task,
         NEW r, r = Arm(s, tm, time)
  PROVE  Moves(s, r, {tm}) /\ tm \in ToSet(r.timeQ) /\ Wakeup(r, tm) = time
<1> DEFINE ex == [s.expiry EXCEPT ![tm] = time]
           e == [s EXCEPT !.expiry = ex]
<1>1. s \in RTsysType
  BY DEF Neat
<1>2. ex \in [Timer -> Int] /\ \A n \in Timer : ex[n] = IF n = tm THEN time ELSE s.expiry[n]
  BY <1>1, RecordFields
<1>3. r = MoveToTimeQ(e, tm)
  <2>1. [s EXCEPT !.expiry[tm] = time] = e
    BY <1>1 DEF RTsysType
  <2> HIDE DEF e
  <2> QED BY <2>1 DEF Arm
<1> HIDE DEF ex
<1>4. /\ e \in RTsysType /\ SameWork(s, e) /\ e.timeQ = s.timeQ /\ e.readyQ = s.readyQ
      /\ e.expiry = ex /\ e.release = s.release
  BY <1>1, <1>2 DEF RTsysType, SameWork
<1> HIDE DEF e
<1>5. Placed(e, Task)
  BY <1>4 DEF Neat, Placed, SameWork
<1>6. \A n \in QItem : n # tm => Wakeup(e, n) = Wakeup(s, n)
  BY <1>2, <1>4 DEF Wakeup, QItem
<1>7. Wakeup(e, tm) = time
  BY <1>2, <1>4 DEF Wakeup
<1>8. InOrderBut(Key(e), e.timeQ, tm)
  <2>1. s.timeQ \in Seq(QItem)
    BY <1>1, RecordFields
  <2>2. \A i \in 1 .. Len(s.timeQ) : s.timeQ[i] \in QItem
    BY <2>1, ElementOfSeq, LenProperties
  <2>3. \A n \in QItem : n # tm => Key(e)[n] = Key(s)[n]
    BY <1>1, <1>4, <1>6, KeyFacts
  <2> QED BY <2>2, <2>3, <1>4 DEF Neat, InOrder, InOrderBut
<1>9. tm \in QItem
  BY DEF QItem
<1>10. Moves(e, r, {tm}) /\ tm \in ToSet(r.timeQ) /\ Wakeup(r, tm) = time
  BY <1>3, <1>4, <1>5, <1>7, <1>8, <1>9, MoveToTimeQMoves
<1>11. SameWork(s, r)
  BY <1>4, <1>10 DEF Moves, SameWork
<1>12. SameTimers(s, r, {tm})
  BY <1>4, <1>6, <1>10 DEF Moves, SameTimers
<1> QED BY <1>10, <1>11, <1>12 DEF Moves

-----------------------------------------------------------------------------
(***************************************************************************)
(* invoke_task and the hooks.                                              *)
(***************************************************************************)
\* Work on task t leaves the clock and the other tasks alone, and takes at
\* most t off a CPU; of the time queue only the entries of T are touched.
Works(s, r, t, T) ==
  /\ Neat(r)
  /\ r.time = s.time /\ r.prevHit = s.prevHit /\ r.nextHit = s.nextHit
  /\ r.currentCPU = s.currentCPU
  /\ \A c \in CPU : \/ r.running[c] = s.running[c]
                    \/ r.running[c] = None /\ s.running[c] = t
  /\ \A u \in Task : u # t => /\ r.segment[u] = s.segment[u]
                              /\ r.nextSegment[u] = s.nextSegment[u]
                              /\ r.execTime[u] = s.execTime[u]
  /\ \A u \in UserTask : u # t => /\ r.nbrInvocations[u] = s.nbrInvocations[u]
                                  /\ r.absDeadline[u] = s.absDeadline[u]
                                  /\ r.budget[u] = s.budget[u]
  /\ SameTimers(s, r, T)

\* Neither the code of t nor what a segment of it counts is touched.
SameCode(s, r, t) ==
  /\ r.running = s.running
  /\ r.segment[t] = s.segment[t] /\ r.nextSegment[t] = s.nextSegment[t]
  /\ r.execTime[t] = s.execTime[t]

LEMMA MovesIsWork ==
  ASSUME NEW s, NEW r, NEW T, Moves(s, r, T), NEW t
  PROVE  Works(s, r, t, T) /\ SameCode(s, r, t)
  BY DEF Moves, SameWork, Works, SameCode

LEMMA WorksTransitive ==
  ASSUME NEW s, NEW r, NEW q, NEW t, NEW T, NEW U, Works(s, r, t, T), Works(r, q, t, U),
         NEW V, T \cup U \subseteq V, t # None
  PROVE  Works(s, q, t, V)
<1>1. SameTimers(s, q, V)
  BY DEF Works, SameTimers
<1> QED BY <1>1 DEF Works

\* a change of other fields than the queues and their keys
LEMMA KeepNeat ==
  ASSUME NEW s, Neat(s), NEW r \in RTsysType,
         r.readyQ = s.readyQ, r.timeQ = s.timeQ, r.running = s.running,
         r.expiry = s.expiry, r.release = s.release, NEW T
  PROVE  Neat(r) /\ SameTimers(s, r, T)
<1>1. Key(r) = Key(s) /\ \A n : Wakeup(r, n) = Wakeup(s, n)
  BY SameKeys
<1> QED BY <1>1 DEF Neat, Placed, SameTimers

LEMMA EnqueueWorks ==
  ASSUME NEW s, NEW t \in Task, Neat(s), NEW r, r = Enqueue(s, t)
  PROVE  /\ Works(s, r, t, {}) /\ SameCode(s, r, t)
         /\ r.absDeadline = s.absDeadline /\ r.budget = s.budget
         /\ r.nbrInvocations[t] = s.nbrInvocations[t] + 1
         /\ \A u \in Task : u # t => r.nbrInvocations[u] = s.nbrInvocations[u]
<1> DEFINE ni == [s.nbrInvocations EXCEPT ![t] = @ + 1]
           pe == [s.pending EXCEPT ![t] = Append(@, s.time)]
<1>1. s \in RTsysType
  BY DEF Neat
<1>2. r = [s EXCEPT !.pending = pe, !.nbrInvocations = ni]
  BY <1>1 DEF Enqueue, RTsysType
<1>3. /\ ni \in [Task -> Int]
      /\ \A u \in Task : ni[u] = IF u = t THEN s.nbrInvocations[t] + 1 ELSE s.nbrInvocations[u]
  BY <1>1, RecordFields
<1>4. pe \in [Task -> Seq(Nat)]
  <2>1. s.pending \in [Task -> Seq(Nat)] /\ s.pending[t] \in Seq(Nat) /\ s.time \in Nat
    BY <1>1, RecordFields
  <2>2. Append(s.pending[t], s.time) \in Seq(Nat)
    BY <2>1, AppendProperties
  <2> QED BY <2>1, <2>2
<1> HIDE DEF ni, pe
<1>5. /\ r \in RTsysType /\ r.nbrInvocations = ni
      /\ r.readyQ = s.readyQ /\ r.timeQ = s.timeQ /\ r.running = s.running
      /\ r.expiry = s.expiry /\ r.release = s.release
      /\ r.time = s.time /\ r.prevHit = s.prevHit /\ r.nextHit = s.nextHit
      /\ r.currentCPU = s.currentCPU /\ r.runningUser = s.runningUser
      /\ r.segment = s.segment /\ r.nextSegment = s.nextSegment /\ r.execTime = s.execTime
      /\ r.absDeadline = s.absDeadline /\ r.budget = s.budget
  BY <1>1, <1>2, <1>3, <1>4 DEF RTsysType
<1>6. Neat(r) /\ SameTimers(s, r, {})
  BY <1>5, KeepNeat
<1> QED BY <1>3, <1>5, <1>6, TaskSorts DEF Works, SameCode

LEMMA SetCountWorks ==
  ASSUME NEW s, NEW t \in Task, NEW v \in Int, Neat(s),
         NEW r, r = [s EXCEPT !.nbrInvocations[t] = v]
  PROVE  /\ Works(s, r, t, {}) /\ SameCode(s, r, t)
         /\ r.absDeadline = s.absDeadline /\ r.budget = s.budget /\ r.arrival = s.arrival
         /\ r.nbrInvocations[t] = v /\ r.timeQ = s.timeQ /\ r.runningUser = s.runningUser
         /\ \A u \in Task : u # t => r.nbrInvocations[u] = s.nbrInvocations[u]
<1>1. s \in RTsysType
  BY DEF Neat
<1>2. /\ r \in RTsysType
      /\ r.nbrInvocations[t] = v
      /\ \A u \in Task : u # t => r.nbrInvocations[u] = s.nbrInvocations[u]
  BY <1>1, SetCountFacts
<1>3. /\ r.readyQ = s.readyQ /\ r.timeQ = s.timeQ /\ r.running = s.running
      /\ r.expiry = s.expiry /\ r.release = s.release
      /\ r.time = s.time /\ r.prevHit = s.prevHit /\ r.nextHit = s.nextHit
      /\ r.currentCPU = s.currentCPU /\ r.runningUser = s.runningUser
      /\ r.segment = s.segment /\ r.nextSegment = s.nextSegment /\ r.execTime = s.execTime
      /\ r.absDeadline = s.absDeadline /\ r.budget = s.budget /\ r.arrival = s.arrival
  BY <1>1 DEF RTsysType
<1>4. Neat(r) /\ SameTimers(s, r, {})
  BY <1>2, <1>3, KeepNeat
<1> QED BY <1>2, <1>3, <1>4, TaskSorts DEF Works, SameCode

\* invoking a handler: it waits in no time queue
LEMMA InvokeHandlerMoves ==
  ASSUME NEW s, NEW h \in Handler, Neat(s), NEW r, r = InvokeHandler(s, h)
  PROVE  Moves(s, r, {})
<1>1. h \in Task /\ h \notin UserTask /\ h \notin QItem
  BY TaskSorts, TimerSorts DEF QItem
<1>2. CASE s.nbrInvocations[h] = 0
  <2> DEFINE m == MakeReady(s, h)
  <2>1. Moves(s, m, {})
    BY <1>1, MakeReadyMoves, MovesMore
  <2>2. r = [m EXCEPT !.nbrInvocations[h] = 1]
    BY <1>2 DEF InvokeHandler
  <2> HIDE DEF m
  <2>3. Neat(m)
    BY <2>1 DEF Moves
  <2>4. /\ Works(m, r, h, {}) /\ SameCode(m, r, h) /\ r.runningUser = m.runningUser
        /\ r.absDeadline = m.absDeadline /\ r.budget = m.budget /\ r.arrival = m.arrival
        /\ \A u \in Task : u # h => r.nbrInvocations[u] = m.nbrInvocations[u]
    BY <1>1, <2>2, <2>3, SetCountWorks
  <2>5. /\ r.segment = m.segment /\ r.nextSegment = m.nextSegment /\ r.execTime = m.execTime
        /\ r.pending = m.pending
    BY <2>2, <2>3 DEF Neat, RTsysType
  <2>6. SameWork(m, r)
    BY <1>1, <2>4, <2>5, TaskSorts DEF Works, SameCode, SameWork
  <2>7. Moves(m, r, {})
    BY <2>4, <2>6 DEF Moves, Works
  <2> QED BY <2>1, <2>7, MovesTransitive
<1>3. CASE s.nbrInvocations[h] # 0
  <2>1. r = Enqueue(s, h)
    BY <1>3 DEF InvokeHandler
  <2>2. /\ Works(s, r, h, {}) /\ SameCode(s, r, h)
        /\ \A u \in Task : u # h => r.nbrInvocations[u] = s.nbrInvocations[u]
    BY <1>1, <2>1, EnqueueWorks
  <2>3. /\ r.runningUser = s.runningUser /\ r.arrival = s.arrival
        /\ r.absDeadline = s.absDeadline /\ r.budget = s.budget
        /\ r.segment = s.segment /\ r.nextSegment = s.nextSegment /\ r.execTime = s.execTime
        /\ \A u \in UserTask : r.pending[u] = s.pending[u]
    BY <1>1, <2>1, TaskSorts DEF Enqueue, Neat, RTsysType
  <2>4. SameWork(s, r)
    BY <1>1, <2>2, <2>3, TaskSorts DEF Works, SameCode, SameWork
  <2> QED BY <2>2, <2>4 DEF Moves, Works
<1> QED BY <1>2, <1>3

LEMMA ContextSwitchMoves ==
  ASSUME NEW s, Neat(s), NEW r, r = ContextSwitch(s)
  PROVE  Moves(s, r, {})
<1>1. CASE ContextSwitchTime > 0
  <2>1. KernelHandler \in Handler
    BY <1>1, TasksAssumption, AttributesAssumption DEF TasksAssumption, AttributesAssumption
  <2>2. r = InvokeHandler(s, KernelHandler)
    BY <1>1 DEF ContextSwitch
  <2> QED BY <2>1, <2>2, InvokeHandlerMoves
<1>2. CASE ~ (ContextSwitchTime > 0)
  BY <1>2, MovesNothing DEF ContextSwitch
<1> QED BY <1>1, <1>2

LEMMA TimersOfTasks ==
  ASSUME NEW t \in UserTask
  PROVE  /\ t \in Task /\ t \in QItem /\ t # None /\ t \notin Timer
         /\ DLTimer(t) \in Timer /\ DLTimer(t) \in QItem
         /\ WCETTimer(t) \in Timer /\ WCETTimer(t) \in QItem
         /\ DLTimer(t) # WCETTimer(t)
         /\ DLHandler[t] # None => TimerTask(DLTimer(t)) \in Task
         /\ WCETHandler[t] # None => TimerTask(WCETTimer(t)) \in Task
<1>1. t \in Task /\ t \in QItem /\ t # None /\ t \notin Timer
  BY TaskSorts, TimerSorts DEF QItem
<1>2. DLTimer(t) \in Timer /\ WCETTimer(t) \in Timer /\ DLTimer(t) # WCETTimer(t)
  BY DEF DLTimer, WCETTimer, Timer
<1>3. /\ DLHandler[t] # None => TimerTask(DLTimer(t)) \in Task
      /\ WCETHandler[t] # None => TimerTask(WCETTimer(t)) \in Task
  BY TimerSorts, TaskSorts, AttributesAssumption DEF AttributesAssumption
<1> QED BY <1>1, <1>2, <1>3 DEF QItem

LEMMA SuspendHookMoves ==
  ASSUME NEW s, NEW t \in UserTask, Neat(s), NEW r, r = SuspendHook(s, t)
  PROVE  Moves(s, r, {WCETTimer(t)}) /\ WCETTimer(t) \notin ToSet(r.timeQ)
<1> DEFINE u == Unlink(s, WCETTimer(t))
<1>1. Moves(s, u, {WCETTimer(t)}) /\ WCETTimer(t) \notin ToSet(u.timeQ)
  BY TimersOfTasks, UnlinkMoves
<1> HIDE DEF u
<1>2. Moves(u, r, {})
  BY <1>1, ContextSwitchMoves DEF SuspendHook, Moves, u
<1>3. Moves(s, r, {WCETTimer(t)})
  BY <1>1, <1>2, MovesTransitive
<1> QED BY <1>1, <1>2, <1>3, TimersOfTasks DEF Moves, SameTimers

LEMMA FinishHookMoves ==
  ASSUME NEW s, NEW t \in UserTask, Neat(s), NEW r, r = FinishHook(s, t)
  PROVE  /\ Moves(s, r, {DLTimer(t), WCETTimer(t)})
         /\ DLTimer(t) \notin ToSet(r.timeQ) /\ WCETTimer(t) \notin ToSet(r.timeQ)
<1> DEFINE d == Unlink(s, DLTimer(t))
<1>1. Moves(s, d, {DLTimer(t)}) /\ DLTimer(t) \notin ToSet(d.timeQ)
  BY TimersOfTasks, UnlinkMoves
<1> HIDE DEF d
<1>2. r = SuspendHook(d, t)
  BY DEF FinishHook, SuspendHook, d
<1>3. Moves(d, r, {WCETTimer(t)}) /\ WCETTimer(t) \notin ToSet(r.timeQ)
  BY <1>1, <1>2, SuspendHookMoves DEF Moves
<1>4. Moves(s, r, {DLTimer(t), WCETTimer(t)})
  BY <1>1, <1>3, MovesTransitive
<1>5. DLTimer(t) \notin ToSet(r.timeQ)
  BY <1>1, <1>3, TimersOfTasks DEF Moves, SameTimers
<1> QED BY <1>3, <1>4, <1>5

LEMMA ArmBudgetMoves ==
  ASSUME NEW s, NEW t \in UserTask, Neat(s), NEW r, r = ArmBudget(s, t)
  PROVE  /\ Moves(s, r, {WCETTimer(t)})
         /\ WCETHandler[t] # None /\ s.budget[t] > 0 =>
              /\ WCETTimer(t) \in ToSet(r.timeQ)
              /\ Wakeup(r, WCETTimer(t)) = s.time + s.budget[t]
         /\ ~ (WCETHandler[t] # None /\ s.budget[t] > 0) => r = s
<1>1. CASE WCETHandler[t] # None /\ s.budget[t] > 0
  <2>1. r = Arm(s, WCETTimer(t), s.time + s.budget[t])
    BY <1>1 DEF ArmBudget
  <2>2. s.time + s.budget[t] \in Int
    BY RecordFields DEF Neat
  <2> QED BY <1>1, <2>1, <2>2, TimersOfTasks, ArmMoves
<1>2. CASE ~ (WCETHandler[t] # None /\ s.budget[t] > 0)
  BY <1>2, MovesNothing DEF ArmBudget
<1> QED BY <1>1, <1>2

\* what the release hook leaves of t: its new deadline and the timer armed
Released(r, t) ==
  DLHandler[t] # None => /\ DLTimer(t) \in ToSet(r.timeQ)
                         /\ Wakeup(r, DLTimer(t)) = r.absDeadline[t]

LEMMA ReleaseHookWorks ==
  ASSUME NEW s, NEW t \in UserTask, Neat(s), NEW r, r = ReleaseHook(s, t)
  PROVE  /\ Works(s, r, t, {DLTimer(t)}) /\ SameCode(s, r, t) /\ Released(r, t)
         /\ r.nbrInvocations[t] = s.nbrInvocations[t]
<1> DEFINE ad == [s.absDeadline EXCEPT ![t] = s.arrival[t] + Deadline[t]]
           bu == [s.budget EXCEPT ![t] = WCET[t]]
           a  == [s EXCEPT !.absDeadline = ad, !.budget = bu]
           b  == ContextSwitch(a)
<1>1. s \in RTsysType
  BY DEF Neat
<1>2. r = IF DLHandler[t] = None THEN b ELSE Arm(b, DLTimer(t), b.absDeadline[t])
  <2>1. [s EXCEPT !.absDeadline[t] = s.arrival[t] + Deadline[t], !.budget[t] = WCET[t]] = a
    BY <1>1 DEF RTsysType
  <2> HIDE DEF a
  <2> QED BY <2>1 DEF ReleaseHook
<1>3. /\ ad \in [UserTask -> Int] /\ bu \in [UserTask -> Int]
      /\ \A u \in UserTask : u # t => ad[u] = s.absDeadline[u] /\ bu[u] = s.budget[u]
  BY <1>1, RecordFields, AttributesAssumption DEF AttributesAssumption
<1> HIDE DEF ad, bu, b
<1>4. /\ a \in RTsysType /\ a.absDeadline = ad /\ a.budget = bu
      /\ a.readyQ = s.readyQ /\ a.timeQ = s.timeQ /\ a.running = s.running
      /\ a.expiry = s.expiry /\ a.release = s.release
      /\ a.time = s.time /\ a.prevHit = s.prevHit /\ a.nextHit = s.nextHit
      /\ a.currentCPU = s.currentCPU /\ a.nbrInvocations = s.nbrInvocations
      /\ a.segment = s.segment /\ a.nextSegment = s.nextSegment /\ a.execTime = s.execTime
  BY <1>1, <1>3 DEF RTsysType
<1> HIDE DEF a
<1>5. Neat(a) /\ SameTimers(s, a, {})
  BY <1>4, KeepNeat
<1>6. Works(s, a, t, {}) /\ SameCode(s, a, t)
  BY <1>3, <1>4, <1>5 DEF Works, SameCode
<1>7. Moves(a, b, {})
  BY <1>5, ContextSwitchMoves DEF b
<1>8. Moves(b, r, {DLTimer(t)}) /\ Released(r, t)
  <2>1. CASE DLHandler[t] = None
    BY <1>2, <1>7, <2>1, MovesNothing DEF Moves, Released
  <2>2. CASE DLHandler[t] # None
    <3>1. r = Arm(b, DLTimer(t), b.absDeadline[t])
      BY <1>2, <2>2
    <3>2. b.absDeadline[t] \in Int
      BY <1>7, RecordFields DEF Moves, Neat
    <3>3. /\ Moves(b, r, {DLTimer(t)}) /\ DLTimer(t) \in ToSet(r.timeQ)
          /\ Wakeup(r, DLTimer(t)) = b.absDeadline[t]
      BY <3>1, <3>2, <1>7, <2>2, TimersOfTasks, ArmMoves DEF Moves
    <3> QED BY <3>3 DEF Moves, SameWork, Released
  <2> QED BY <2>1, <2>2
<1>9. Moves(a, r, {DLTimer(t)})
  BY <1>7, <1>8, MovesTransitive
<1>10. Works(a, r, t, {DLTimer(t)}) /\ SameCode(a, r, t)
  BY <1>9, MovesIsWork
<1>11. Works(s, r, t, {DLTimer(t)})
  BY <1>6, <1>10, TimersOfTasks, WorksTransitive
<1>12. SameCode(s, r, t)
  BY <1>6, <1>10 DEF SameCode
<1>13. r.nbrInvocations[t] = s.nbrInvocations[t]
  BY <1>4, <1>9 DEF Moves, SameWork
<1> QED BY <1>8, <1>11, <1>12, <1>13

-----------------------------------------------------------------------------
(***************************************************************************)
(* The jobs of one task.                                                   *)
(***************************************************************************)
\* the entries of the time queue that work on t may touch
Own(t) == {t} \cup (Timer \cap {DLTimer(t), WCETTimer(t)})

\* DeadlineTimerFollowsJob, for one task
DeadlineTimed(s, t) ==
  DLHandler[t] # None =>
    /\ DLTimer(t) \in ToSet(s.timeQ) => /\ s.nbrInvocations[t] > 0
                                        /\ Wakeup(s, DLTimer(t)) = s.absDeadline[t]
    /\ s.nbrInvocations[t] > 0 /\ s.absDeadline[t] > s.time => DLTimer(t) \in ToSet(s.timeQ)

\* the budget timer of u, and whether u is on its CPU
Armed(s, u) == WCETTimer(u) \in ToSet(s.timeQ)
Runs(s, u)  == s.running[Affinity[u]] = u

\* nothing that the budget timer of u depends on changes
SameBudget(s, r, u) ==
  /\ r.time = s.time /\ r.prevHit = s.prevHit /\ r.budget[u] = s.budget[u]
  /\ Runs(r, u) <=> Runs(s, u)
  /\ Armed(r, u) <=> Armed(s, u)
  /\ Wakeup(r, WCETTimer(u)) = Wakeup(s, WCETTimer(u))
  /\ Asleep(r, u) <=> Asleep(s, u)
  /\ Asleep(s, u) => Wakeup(r, u) = Wakeup(s, u)

LEMMA OwnTimers ==
  ASSUME NEW t \in Task, NEW u \in UserTask, u # t
  PROVE  u \notin Own(t) /\ DLTimer(u) \notin Own(t) /\ WCETTimer(u) \notin Own(t)
<1>1. t \notin Timer /\ u \notin Timer
  BY TimerSorts, TaskSorts
<1>2. DLTimer(u) \in Timer /\ WCETTimer(u) \in Timer
  BY TimersOfTasks
<1>3. \A v : DLTimer(u) # WCETTimer(v) /\ (DLTimer(u) = DLTimer(v) => u = v)
             /\ (WCETTimer(u) = WCETTimer(v) => u = v) /\ WCETTimer(u) # DLTimer(v)
  BY DEF DLTimer, WCETTimer
<1> QED BY <1>1, <1>2, <1>3 DEF Own

LEMMA OthersDeadlineTimed ==
  ASSUME NEW s, NEW r, NEW t \in Task, Works(s, r, t, Own(t)),
         NEW u \in UserTask, u # t, DeadlineTimed(s, u)
  PROVE  DeadlineTimed(r, u)
<1>1. DLTimer(u) \in QItem \ Own(t)
  BY OwnTimers, TimersOfTasks
<1>2. /\ DLTimer(u) \in ToSet(r.timeQ) <=> DLTimer(u) \in ToSet(s.timeQ)
      /\ Wakeup(r, DLTimer(u)) = Wakeup(s, DLTimer(u))
  BY <1>1 DEF Works, SameTimers
<1> QED BY <1>2 DEF DeadlineTimed, Works

\* the tasks without an active job are in no queue
LEMMA AtRest ==
  ASSUME NEW s, Sound(s, ActiveUsers(s), {}), NEW t \in UserTask
  PROVE  /\ Neat(s) <=> InOrder(Key(s), s.timeQ)
         /\ s.nbrInvocations[t] \in Int /\ s.nbrInvocations[t] >= 0
         /\ s.nbrInvocations[t] = 0 => t \notin ToSet(s.timeQ)
<1>1. s \in RTsysType /\ Placed(s, ActiveUsers(s) \cup ActiveHandlers(s)) /\ Counted(s, t)
  BY TaskSorts DEF Sound
<1>2. Placed(s, Task)
  <2>1. ActiveUsers(s) \cup ActiveHandlers(s) \subseteq Task
    BY TaskSorts DEF ActiveUsers, ActiveHandlers
  <2> QED BY <1>1, <2>1, PlacedMonotone
<1>3. t \in ToSet(s.timeQ) => t \in ActiveUsers(s)
  BY <1>1, TaskSorts, TimerSorts DEF Placed, ActiveHandlers
<1>4. s.nbrInvocations[t] \in Int /\ s.nbrInvocations[t] >= 0
  BY <1>1, RecordFields, TaskSorts DEF Counted
<1> QED BY <1>1, <1>2, <1>3, <1>4 DEF Neat, ActiveUsers

\* setting the release time of a task that does not sleep
LEMMA ReleaseTimeNeat ==
  ASSUME NEW s, Neat(s), NEW t \in UserTask, t \notin ToSet(s.timeQ), NEW r \in RTsysType,
         r.readyQ = s.readyQ, r.timeQ = s.timeQ, r.running = s.running, r.expiry = s.expiry,
         \A u \in UserTask : u # t => r.release[u] = s.release[u]
  PROVE  Neat(r) /\ SameTimers(s, r, {t})
<1>1. \A n \in QItem : n # t => Wakeup(r, n) = Wakeup(s, n)
  BY DEF Wakeup, QItem
<1>2. s \in RTsysType /\ s.timeQ \in Seq(QItem)
  BY RecordFields DEF Neat
<1>3. \A i \in 1 .. Len(s.timeQ) : s.timeQ[i] \in QItem /\ s.timeQ[i] # t
  BY <1>2, ElementOfSeq, LenProperties DEF ToSet
<1>4. \A n \in QItem : n # t => Key(r)[n] = Key(s)[n]
  BY <1>1, <1>2, KeyFacts
<1>5. InOrder(Key(r), r.timeQ)
  BY <1>3, <1>4 DEF Neat, InOrder
<1> QED BY <1>1, <1>5 DEF Neat, Placed, SameTimers

LEMMA InvokeUserTaskWorks ==
  ASSUME NEW s, NEW t \in UserTask, Sound(s, ActiveUsers(s), {}), Neat(s),
         NEW r, r = InvokeUserTask(s, t)
  PROVE  /\ Works(s, r, t, Own(t)) /\ SameCode(s, r, t)
         /\ DeadlineTimed(s, t) => DeadlineTimed(r, t)
         /\ SameTimers(s, r, {t, DLTimer(t)})
         /\ s.nbrInvocations[t] # 0 => SameBudget(s, r, t)
<1>1. s \in RTsysType /\ s.nbrInvocations[t] \in Int /\ s.nbrInvocations[t] >= 0
      /\ s.time \in Nat
  BY AtRest, RecordFields DEF Neat
<1>2. DLTimer(t) \in QItem /\ DLTimer(t) # t /\ t \in Task /\ t # None
      /\ {t, DLTimer(t)} \subseteq Own(t)
  BY TimersOfTasks DEF Own
<1>3. CASE s.nbrInvocations[t] = 0
  <2> DEFINE ar == [s.arrival EXCEPT ![t] = s.time]
             re == [s.release EXCEPT ![t] = s.time]
             a == [s EXCEPT !.arrival = ar, !.release = re]
             b == ReleaseHook(a, t)
             m == MakeReady(b, t)
             v == m.nbrInvocations[t] + 1
  <2>1. /\ ar \in [UserTask -> Int] /\ re \in [UserTask -> Int]
        /\ \A u \in UserTask : u # t => re[u] = s.release[u]
    BY <1>1, RecordFields
  <2>2. r = [m EXCEPT !.nbrInvocations[t] = v]
    <3>1. [s EXCEPT !.arrival[t] = s.time, !.release[t] = s.time] = a
      BY <1>1 DEF RTsysType
    <3> HIDE DEF a
    <3> QED BY <1>3, <3>1 DEF InvokeUserTask
  <2> HIDE DEF ar, re
  <2>3. /\ a \in RTsysType /\ a.release = re
        /\ a.readyQ = s.readyQ /\ a.timeQ = s.timeQ /\ a.running = s.running
        /\ a.expiry = s.expiry /\ a.nbrInvocations = s.nbrInvocations
        /\ a.time = s.time /\ a.prevHit = s.prevHit /\ a.nextHit = s.nextHit
        /\ a.currentCPU = s.currentCPU /\ a.absDeadline = s.absDeadline
        /\ a.budget = s.budget /\ a.segment = s.segment /\ a.nextSegment = s.nextSegment
        /\ a.execTime = s.execTime
    BY <1>1, <2>1 DEF RTsysType
  <2> HIDE DEF a, b, m
  <2>4. Neat(a) /\ SameTimers(s, a, {t})
    BY <1>3, <2>1, <2>3, AtRest, ReleaseTimeNeat
  <2>5. Works(s, a, t, {t}) /\ SameCode(s, a, t)
    BY <2>3, <2>4 DEF Works, SameCode
  <2>6. /\ Works(a, b, t, {DLTimer(t)}) /\ SameCode(a, b, t) /\ Released(b, t)
        /\ b.nbrInvocations[t] = 0
    BY <1>3, <2>3, <2>4, ReleaseHookWorks DEF b
  <2>7. Moves(b, m, {t})
    BY <1>2, <2>6, MakeReadyMoves DEF m, Works
  <2>8. Works(b, m, t, {t}) /\ SameCode(b, m, t)
    BY <2>7, MovesIsWork
  <2>9. m.nbrInvocations[t] = 0 /\ v \in Int
    BY <2>6, <2>7 DEF Moves, SameWork
  <2> HIDE DEF v
  <2>10. /\ Works(m, r, t, {}) /\ SameCode(m, r, t) /\ r.absDeadline = m.absDeadline
         /\ r.nbrInvocations[t] = v
    BY <1>2, <2>2, <2>8, <2>9, SetCountWorks DEF Works
  <2>11. Works(s, r, t, Own(t)) /\ SameTimers(s, r, {t, DLTimer(t)})
    <3>1. Works(s, b, t, {t, DLTimer(t)})
      BY <1>2, <2>5, <2>6, WorksTransitive
    <3>2. Works(b, r, t, {t})
      BY <1>2, <2>8, <2>10, WorksTransitive
    <3>3. Works(s, r, t, {t, DLTimer(t)})
      BY <1>2, <3>1, <3>2, WorksTransitive
    <3> QED BY <1>2, <3>3 DEF Works, SameTimers
  <2>12. SameCode(s, r, t)
    BY <2>5, <2>6, <2>8, <2>10 DEF SameCode
  <2>13. Released(r, t)
    <3>1. /\ DLTimer(t) \in ToSet(m.timeQ) <=> DLTimer(t) \in ToSet(b.timeQ)
          /\ Wakeup(m, DLTimer(t)) = Wakeup(b, DLTimer(t)) /\ m.absDeadline = b.absDeadline
      BY <1>2, <2>7 DEF Moves, SameTimers, SameWork
    <3>2. /\ DLTimer(t) \in ToSet(r.timeQ) <=> DLTimer(t) \in ToSet(m.timeQ)
          /\ Wakeup(r, DLTimer(t)) = Wakeup(m, DLTimer(t))
      BY <1>2, <2>10 DEF Works, SameTimers
    <3> QED BY <2>6, <2>10, <3>1, <3>2 DEF Released
  <2>14. r.nbrInvocations[t] > 0
    BY <2>9, <2>10 DEF v
  <2> QED BY <1>3, <2>11, <2>12, <2>13, <2>14 DEF DeadlineTimed, Released
<1>4. CASE s.nbrInvocations[t] # 0
  <2>1. r = Enqueue(s, t)
    BY <1>4 DEF InvokeUserTask
  <2>2. /\ Works(s, r, t, {}) /\ SameCode(s, r, t)
        /\ r.absDeadline = s.absDeadline /\ r.budget = s.budget
        /\ r.nbrInvocations[t] = s.nbrInvocations[t] + 1
    BY <1>2, <2>1, EnqueueWorks
  <2>3. r.nbrInvocations[t] > 0 /\ s.nbrInvocations[t] > 0
    BY <1>1, <1>4, <2>2
  <2>4. Works(s, r, t, Own(t))
    BY <2>2 DEF Works, SameTimers
  <2>5. /\ DLTimer(t) \in ToSet(r.timeQ) <=> DLTimer(t) \in ToSet(s.timeQ)
        /\ Wakeup(r, DLTimer(t)) = Wakeup(s, DLTimer(t)) /\ r.time = s.time
    BY <1>2, <2>2 DEF Works, SameTimers
  <2>6. SameTimers(s, r, {t, DLTimer(t)})
    BY <2>2 DEF Works, SameTimers
  <2>7. SameBudget(s, r, t)
    <3>1. WCETTimer(t) \in QItem /\ t \in QItem
      BY TimersOfTasks
    <3> QED BY <2>2, <3>1 DEF Works, SameCode, SameTimers, SameBudget, Runs, Armed, Asleep
  <2> QED BY <2>2, <2>3, <2>4, <2>5, <2>6, <2>7 DEF DeadlineTimed
<1> QED BY <1>3, <1>4

\* invoking any task keeps the deadline timers right
LEMMA InvokeTaskWorks ==
  ASSUME NEW s, NEW t \in Task, Sound(s, ActiveUsers(s), {}), Neat(s),
         NEW r, r = InvokeTask(s, t)
  PROVE  /\ Works(s, r, t, Own(t)) /\ SameCode(s, r, t)
         /\ \A u \in UserTask : DeadlineTimed(s, u) => DeadlineTimed(r, u)
<1>1. CASE t \in UserTask
  <2>1. r = InvokeUserTask(s, t)
    BY <1>1 DEF InvokeTask
  <2>2. /\ Works(s, r, t, Own(t)) /\ SameCode(s, r, t)
        /\ DeadlineTimed(s, t) => DeadlineTimed(r, t)
    BY <1>1, <2>1, InvokeUserTaskWorks
  <2> QED BY <2>2, OthersDeadlineTimed
<1>2. CASE t \notin UserTask
  <2>1. r = InvokeHandler(s, t) /\ t \in Handler
    BY <1>2, TaskSorts DEF InvokeTask
  <2>2. Moves(s, r, {})
    BY <2>1, InvokeHandlerMoves
  <2>3. Works(s, r, t, Own(t)) /\ SameCode(s, r, t)
    BY <2>2, MovesIsWork DEF Works, SameTimers
  <2> QED BY <1>2, <2>3, OthersDeadlineTimed
<1> QED BY <1>1, <1>2

LEMMA MovesDeadlineTimed ==
  ASSUME NEW s, NEW r, NEW T, Moves(s, r, T), NEW u \in UserTask, DLTimer(u) \notin T
  PROVE  DeadlineTimed(r, u) <=> DeadlineTimed(s, u)
<1>1. /\ DLTimer(u) \in ToSet(r.timeQ) <=> DLTimer(u) \in ToSet(s.timeQ)
      /\ Wakeup(r, DLTimer(u)) = Wakeup(s, DLTimer(u))
  BY TimersOfTasks DEF Moves, SameTimers
<1> QED BY <1>1 DEF Moves, SameWork, DeadlineTimed

\* a job that is gone and leaves no timer behind
Gone(r, t) ==
  /\ t \notin ToSet(r.timeQ)
  /\ t \in UserTask => DLTimer(t) \notin ToSet(r.timeQ) /\ WCETTimer(t) \notin ToSet(r.timeQ)

LEMMA EndJobWorks ==
  ASSUME NEW s, NEW t \in Task, Neat(s), s.running[s.currentCPU] = t,
         NEW r, r = EndJob(s, t)
  PROVE  /\ Works(s, r, t, Own(t)) /\ Gone(r, t)
         /\ r.execTime[t] = 0 /\ r.segment[t] = 0 /\ r.nextSegment[t] = 1
         /\ r.nbrInvocations[t] = s.nbrInvocations[t] - 1
         /\ r.running[s.currentCPU] = None
<1> DEFINE c == s.currentCPU
           d == Unlink(s, t)
           ex == [d.execTime EXCEPT ![t] = 0]
           sg == [d.segment EXCEPT ![t] = 0]
           ns == [d.nextSegment EXCEPT ![t] = 1]
           st == [d.state EXCEPT ![t] = "SLEEPING"]
           ru == [d.running EXCEPT ![c] = None]
           e == [d EXCEPT !.execTime = ex, !.segment = sg, !.nextSegment = ns,
                          !.state = st, !.running = ru]
           h == FinishHook(e, t)
           f == IF t \in UserTask THEN [h EXCEPT !.runningUser[c] = None] ELSE e
           raw == [d EXCEPT !.execTime[t] = 0, !.segment[t] = 0,
                            !.nextSegment[t] = 1, !.state[t] = "SLEEPING",
                            !.running[c] = None]
           v == f.nbrInvocations[t] - 1
<1>1. s \in RTsysType /\ c \in CPU /\ s.nbrInvocations[t] \in Int
  BY RecordFields DEF Neat
<1>2. Moves(s, d, {t}) /\ t \notin ToSet(d.timeQ) /\ d \in RTsysType
      /\ d.nbrInvocations = s.nbrInvocations
  <2>1. Moves(s, d, {t}) /\ t \notin ToSet(d.timeQ)
    BY UnlinkMoves
  <2>2. d.nbrInvocations = s.nbrInvocations
    BY UnlinkFacts DEF Neat, SameJobs
  <2> QED BY <2>1, <2>2 DEF Moves, Neat
<1>3. raw = e
  <2> HIDE DEF d
  <2> QED BY <1>2 DEF RTsysType
<1>4. r = SetCount(f, t, v)
  <2>1. r = LET g == IF t \in UserTask
                     THEN [FinishHook(raw, t) EXCEPT !.runningUser[c] = None] ELSE raw
            IN  SetCount(g, t, g.nbrInvocations[t] - 1)
    BY Zenon DEF EndJob, SetCount
  <2> HIDE DEF raw, e
  <2> QED BY <2>1, <1>3, Zenon
<1> HIDE DEF d, raw
<1>5. /\ ex \in [Task -> Int] /\ sg \in [Task -> Nat] /\ ns \in [Task -> Nat]
      /\ st \in [Task -> State] /\ ru \in [CPU -> Task \cup {None}]
      /\ \A b \in CPU : ru[b] = IF b = c THEN None ELSE d.running[b]
      /\ \A u \in Task : /\ ex[u] = IF u = t THEN 0 ELSE d.execTime[u]
                         /\ sg[u] = IF u = t THEN 0 ELSE d.segment[u]
                         /\ ns[u] = IF u = t THEN 1 ELSE d.nextSegment[u]
  BY <1>1, <1>2, RecordFields DEF State
<1> HIDE DEF ex, sg, ns, st, ru
<1>6. /\ e \in RTsysType /\ e.running = ru /\ e.execTime = ex /\ e.segment = sg
      /\ e.nextSegment = ns /\ e.readyQ = d.readyQ /\ e.timeQ = d.timeQ
      /\ e.expiry = d.expiry /\ e.release = d.release
      /\ e.nbrInvocations = d.nbrInvocations /\ e.absDeadline = d.absDeadline
      /\ e.budget = d.budget /\ SameClock(d, e)
  BY <1>2, <1>5 DEF RTsysType, SameClock
<1> HIDE DEF e
<1>7. Neat(e) /\ SameTimers(d, e, {})
  <2>1. Key(e) = Key(d) /\ \A n : Wakeup(e, n) = Wakeup(d, n)
    BY <1>6, SameKeys
  <2>2. Placed(e, Task)
    BY <1>2, <1>5, <1>6 DEF Moves, Neat, Placed
  <2> QED BY <1>2, <1>6, <2>1, <2>2 DEF Moves, Neat, SameTimers
<1>8. Works(d, e, t, {})
  BY <1>1, <1>2, <1>5, <1>6, <1>7 DEF Works, SameClock, Moves, SameWork
<1>9. Works(s, e, t, {t})
  <2>1. Works(s, d, t, {t})
    BY <1>2, MovesIsWork
  <2> QED BY <1>8, <2>1, TaskSorts, WorksTransitive
<1>10. t \notin ToSet(e.timeQ)
  BY <1>2, <1>6
<1>11. /\ Works(e, f, t, Own(t)) /\ Gone(f, t) /\ f.execTime = ex /\ f.segment = sg
       /\ f.running = ru
       /\ f.nextSegment = ns /\ f.nbrInvocations[t] = e.nbrInvocations[t]
  <2>1. CASE t \notin UserTask
    <3>1. f = e
      BY <2>1
    <3>2. Works(e, e, t, Own(t))
      BY <1>7 DEF Works, SameTimers
    <3> HIDE DEF f
    <3> QED BY <2>1, <3>1, <3>2, <1>6, <1>10 DEF Gone
  <2>2. CASE t \in UserTask
    <3>1. /\ Moves(e, h, {DLTimer(t), WCETTimer(t)})
          /\ DLTimer(t) \notin ToSet(h.timeQ) /\ WCETTimer(t) \notin ToSet(h.timeQ)
      BY <1>7, <2>2, FinishHookMoves
    <3>2. t \notin ToSet(h.timeQ)
      BY <1>10, <2>2, <3>1, TimersOfTasks DEF Moves, SameTimers
    <3>3. f = [h EXCEPT !.runningUser[c] = None]
      BY <2>2
    <3> HIDE DEF f, h
    <3>4. h \in RTsysType
      BY <3>1 DEF Moves, Neat
    <3> DEFINE w == [h.runningUser EXCEPT ![c] = None]
    <3>5. w \in [CPU -> UserTask \cup {None}] /\ f = [h EXCEPT !.runningUser = w]
      BY <3>3, <3>4, RecordFields DEF RTsysType
    <3> HIDE DEF w
    <3>6. /\ f \in RTsysType /\ f.running = h.running
          /\ f.readyQ = h.readyQ /\ f.timeQ = h.timeQ
          /\ f.expiry = h.expiry /\ f.release = h.release
          /\ f.execTime = h.execTime /\ f.segment = h.segment
          /\ f.nextSegment = h.nextSegment /\ f.absDeadline = h.absDeadline
          /\ f.nbrInvocations = h.nbrInvocations /\ f.budget = h.budget /\ SameClock(h, f)
      BY <3>4, <3>5 DEF RTsysType, SameClock
    <3>7. Neat(f) /\ SameTimers(h, f, {})
      BY <3>1, <3>6, KeepNeat DEF Moves
    <3>8. Works(h, f, t, {})
      BY <3>6, <3>7 DEF Works, SameClock
    <3>9. Works(e, h, t, {DLTimer(t), WCETTimer(t)})
      BY <3>1, MovesIsWork
    <3>10. {DLTimer(t), WCETTimer(t)} \subseteq Own(t)
      BY <2>2, TimersOfTasks DEF Own
    <3>11. Works(e, f, t, Own(t))
      BY <3>8, <3>9, <3>10, TaskSorts, WorksTransitive
    <3>12. Gone(f, t)
      BY <3>1, <3>2, <3>6 DEF Gone
    <3> QED BY <2>2, <3>1, <3>6, <3>11, <3>12, <1>6 DEF Moves, SameWork
  <2> QED BY <2>1, <2>2
<1> HIDE DEF f
<1>12. /\ f.nbrInvocations[t] = s.nbrInvocations[t] /\ v \in Int /\ Neat(f)
  BY <1>1, <1>2, <1>6, <1>11 DEF Works
<1> HIDE DEF v
<1>13. /\ Works(f, r, t, {}) /\ SameCode(f, r, t) /\ r.nbrInvocations[t] = v
       /\ r.timeQ = f.timeQ
  BY <1>4, <1>12, SetCountWorks DEF SetCount
<1>14. Works(s, r, t, Own(t))
  <2>1. Works(s, f, t, Own(t))
    BY <1>9, <1>11, TaskSorts, WorksTransitive DEF Own
  <2> QED BY <2>1, <1>13, TaskSorts, WorksTransitive
<1>15. Gone(r, t)
  BY <1>11, <1>13 DEF Gone
<1> QED BY <1>1, <1>5, <1>11, <1>12, <1>13, <1>14, <1>15 DEF SameCode, v

\* the first pending invocation leaves the list
LEMMA SetPendingWorks ==
  ASSUME NEW s, Neat(s), NEW t \in Task, NEW p, NEW r \in RTsysType, r = SetPending(s, t, p)
  PROVE  /\ Works(s, r, t, {}) /\ SameCode(s, r, t)
         /\ r.timeQ = s.timeQ /\ r.expiry = s.expiry
         /\ r.nbrInvocations = s.nbrInvocations /\ r.absDeadline = s.absDeadline
<1>1. /\ r.readyQ = s.readyQ /\ r.timeQ = s.timeQ /\ r.running = s.running
      /\ r.expiry = s.expiry /\ r.release = s.release /\ SameClock(s, r)
      /\ r.segment = s.segment /\ r.nextSegment = s.nextSegment /\ r.execTime = s.execTime
      /\ r.absDeadline = s.absDeadline /\ r.budget = s.budget
      /\ r.nbrInvocations = s.nbrInvocations
  BY DEF SetPending, Neat, RTsysType, SameClock
<1>2. Neat(r) /\ SameTimers(s, r, {})
  BY <1>1, KeepNeat
<1> QED BY <1>1, <1>2 DEF Works, SameCode, SameClock

LEMMA ReleasedTimed ==
  ASSUME NEW s, NEW r, NEW t \in UserTask, Released(s, t), r.nbrInvocations[t] > 0,
         r.absDeadline[t] = s.absDeadline[t], NEW T, SameTimers(s, r, T), DLTimer(t) \notin T
  PROVE  DeadlineTimed(r, t)
<1>1. /\ DLTimer(t) \in ToSet(r.timeQ) <=> DLTimer(t) \in ToSet(s.timeQ)
      /\ Wakeup(r, DLTimer(t)) = Wakeup(s, DLTimer(t))
  BY TimersOfTasks DEF SameTimers
<1> QED BY <1>1 DEF Released, DeadlineTimed

LEMMA ReleasePendingWorks ==
  ASSUME NEW s, NEW t \in Task, Neat(s), Gone(s, t), s.nbrInvocations[t] >= 0,
         s.nbrInvocations[t] > 0 => s.pending[t] # << >>,
         NEW r \in RTsysType, r = ReleasePending(s, t)
  PROVE  /\ Works(s, r, t, Own(t)) /\ SameCode(s, r, t)
         /\ t \in UserTask => DeadlineTimed(r, t) /\ ~ Armed(r, t)
<1>1. s \in RTsysType /\ s.nbrInvocations[t] \in Int
  BY RecordFields DEF Neat
<1>2. CASE ~ (s.nbrInvocations[t] > 0)
  <2>1. r = s
    BY <1>2 DEF ReleasePending
  <2>2. Works(s, s, t, Own(t)) /\ SameCode(s, s, t)
    BY DEF Works, SameTimers, SameCode
  <2> QED BY <1>2, <2>1, <2>2 DEF Gone, DeadlineTimed, Armed
<1>3. CASE s.nbrInvocations[t] > 0
  <2> DEFINE a == PreRelease(s, t)
             b == IF t \in UserTask THEN ReleaseHook(a, t) ELSE s
             m == MakeReady(b, t)
  <2>1. r = SetPending(m, t, Tail(m.pending[t]))
    BY <1>3, Zenon DEF ReleasePending, SetPending, PreRelease
  <2> HIDE DEF a, m
  <2>2. /\ Works(s, b, t, Own(t)) /\ SameCode(s, b, t)
        /\ t \in UserTask => /\ Released(b, t) /\ b.nbrInvocations[t] = s.nbrInvocations[t]
                             /\ ~ Armed(b, t)
    <3>1. CASE t \notin UserTask
      <4>1. b = s
        BY <3>1
      <4> HIDE DEF b
      <4> QED BY <3>1, <4>1 DEF Works, SameTimers, SameCode
    <3>2. CASE t \in UserTask
      <4> DEFINE ar == [s.arrival EXCEPT ![t] = Head(s.pending[t])]
                 re == [s.release EXCEPT ![t] = s.time]
      <4>1. a = [s EXCEPT !.arrival = ar, !.release = re]
        BY <1>1 DEF RTsysType, PreRelease, a
      <4>2. /\ ar \in [UserTask -> Int] /\ re \in [UserTask -> Int]
            /\ \A u \in UserTask : u # t => re[u] = s.release[u]
        <5>1. /\ s.pending[t] \in Seq(Nat) /\ s.time \in Nat
              /\ s.arrival \in [UserTask -> Int] /\ s.release \in [UserTask -> Int]
          BY <1>1, RecordFields
        <5>2. Head(s.pending[t]) \in Nat
          BY <5>1, <1>3, HeadTailProperties
        <5>3. \A x \in Int : [s.arrival EXCEPT ![t] = x] \in [UserTask -> Int]
          BY <5>1
        <5> QED BY <5>1, <5>2, <5>3
      <4> HIDE DEF ar, re
      <4>3. /\ a \in RTsysType /\ a.release = re
            /\ a.readyQ = s.readyQ /\ a.timeQ = s.timeQ /\ a.running = s.running
            /\ a.expiry = s.expiry /\ a.nbrInvocations = s.nbrInvocations
            /\ SameClock(s, a) /\ a.absDeadline = s.absDeadline
            /\ a.budget = s.budget /\ a.segment = s.segment
            /\ a.nextSegment = s.nextSegment /\ a.execTime = s.execTime
        BY <1>1, <4>1, <4>2 DEF RTsysType, SameClock
      <4>4. Neat(a) /\ SameTimers(s, a, {t})
        BY <3>2, <4>2, <4>3, ReleaseTimeNeat DEF Gone
      <4>5. Works(s, a, t, {t}) /\ SameCode(s, a, t)
        BY <4>3, <4>4 DEF Works, SameCode, SameClock
      <4>6. b = ReleaseHook(a, t)
        BY <3>2
      <4> HIDE DEF b
      <4>7. /\ Works(a, b, t, {DLTimer(t)}) /\ SameCode(a, b, t) /\ Released(b, t)
            /\ b.nbrInvocations[t] = s.nbrInvocations[t]
        BY <3>2, <4>3, <4>4, <4>6, ReleaseHookWorks
      <4>8. {t} \cup {DLTimer(t)} \subseteq Own(t)
        BY <3>2, TimersOfTasks DEF Own
      <4>9. Works(s, b, t, Own(t))
        BY <4>5, <4>7, <4>8, TaskSorts, WorksTransitive
      <4>10. ~ Armed(b, t)
        <5>1. WCETTimer(t) \in QItem \ {t, DLTimer(t)}
          BY <3>2, TimersOfTasks
        <5>2. ~ Armed(s, t)
          BY <3>2 DEF Gone, Armed
        <5>3. Armed(a, t) <=> Armed(s, t)
          BY <4>4, <5>1 DEF SameTimers, Armed
        <5>4. Armed(b, t) <=> Armed(a, t)
          BY <4>7, <5>1 DEF Works, SameTimers, Armed
        <5> QED BY <5>2, <5>3, <5>4
      <4> QED BY <4>5, <4>7, <4>9, <4>10 DEF SameCode
    <3> QED BY <3>1, <3>2
  <2> HIDE DEF b
  <2>3. Moves(b, m, {t})
    BY <2>2, MakeReadyMoves DEF m, Works
  <2>4. Works(b, m, t, {t}) /\ SameCode(b, m, t) /\ Neat(m)
    BY <2>3, MovesIsWork DEF Moves
  <2>5. /\ Works(m, r, t, {}) /\ SameCode(m, r, t)
        /\ r.timeQ = m.timeQ /\ r.expiry = m.expiry
        /\ r.nbrInvocations = m.nbrInvocations /\ r.absDeadline = m.absDeadline
    BY <2>1, <2>4, SetPendingWorks
  <2>6. Works(b, r, t, {t})
    BY <2>4, <2>5, TaskSorts, WorksTransitive
  <2>7. Works(s, r, t, Own(t))
    BY <2>2, <2>6, TaskSorts, WorksTransitive DEF Own
  <2>8. SameCode(s, r, t)
    BY <2>2, <2>4, <2>5 DEF SameCode
  <2>9. t \in UserTask => DeadlineTimed(r, t)
    <3> SUFFICES ASSUME t \in UserTask PROVE DeadlineTimed(r, t)
      OBVIOUS
    <3>1. r.nbrInvocations[t] > 0 /\ r.absDeadline[t] = b.absDeadline[t]
      BY <1>3, <2>2, <2>3, <2>5 DEF Moves, SameWork
    <3>2. SameTimers(b, r, {t}) /\ DLTimer(t) \notin {t}
      BY <2>6, TimersOfTasks DEF Works
    <3> QED BY <2>2, <3>1, <3>2, ReleasedTimed
  <2>10. t \in UserTask => ~ Armed(r, t)
    BY <2>2, <2>6, TimersOfTasks DEF Works, SameTimers, Armed
  <2> QED BY <2>7, <2>8, <2>9, <2>10
<1> QED BY <1>2, <1>3

\* FINISHED: the job of t ends and the next one, if any, is released
LEMMA FinishWorks ==
  ASSUME NEW s, NEW t \in Task, Sound(s, ActiveUsers(s), {}), Neat(s),
         s.running[s.currentCPU] = t,
         NEW r, r = ReleasePending(EndJob(s, t), t)
  PROVE  /\ Works(s, r, t, Own(t))
         /\ r.execTime[t] = 0 /\ r.segment[t] = 0 /\ r.nextSegment[t] = 1
         /\ t \in UserTask => DeadlineTimed(r, t) /\ ~ Armed(r, t)
         /\ r.running[s.currentCPU] = None
<1> DEFINE e == EndJob(s, t)
           Y == ActiveUsers(s) \ {t}
           U == {t}
<1>1. s.nbrInvocations[t] > 0
  <2>1. s.currentCPU \in CPU /\ t # None
    BY RecordFields, TaskSorts DEF Neat
  <2>2. t \in ActiveUsers(s) \cup ActiveHandlers(s)
    BY <2>1 DEF Sound, Placed
  <2> QED BY <2>2 DEF ActiveUsers, ActiveHandlers
<1>2. /\ Works(s, e, t, Own(t)) /\ Gone(e, t)
      /\ e.execTime[t] = 0 /\ e.segment[t] = 0 /\ e.nextSegment[t] = 1
      /\ e.running[s.currentCPU] = None
  BY EndJobWorks
<1>3. Ended(s, e, t)
  <2>1. Y = ActiveUsers(s) \ {t} /\ U = {t} /\ e = EndJob(s, t)
    OBVIOUS
  <2> HIDE DEF Y, U, e
  <2> QED BY <1>1, <2>1, EndJobFacts
<1>4. r \in RTsysType
  BY FinishFacts DEF Sound
<1>5. r = ReleasePending(e, t)
  OBVIOUS
<1> HIDE DEF e
<1>6. /\ e.nbrInvocations[t] >= 0 /\ Neat(e)
      /\ e.nbrInvocations[t] > 0 => e.pending[t] # << >>
  <2>1. e.pending[t] = << >> => Len(e.pending[t]) = 0
    BY EmptySeq
  <2> QED BY <1>2, <1>3, <2>1 DEF Ended, Works
<1>7. /\ Works(e, r, t, Own(t)) /\ SameCode(e, r, t)
      /\ t \in UserTask => DeadlineTimed(r, t) /\ ~ Armed(r, t)
  BY <1>2, <1>4, <1>5, <1>6, ReleasePendingWorks
<1>8. Works(s, r, t, Own(t))
  BY <1>2, <1>7, TaskSorts, WorksTransitive
<1> QED BY <1>2, <1>7, <1>8 DEF SameCode

\* ttKillJob
LEMMA KilledJobWorks ==
  ASSUME NEW s, NEW t \in UserTask, Sound(s, ActiveUsers(s), {}), Neat(s),
         s.nbrInvocations[t] > 0, NEW r \in RTsysType, r = KilledJob(s, t)
  PROVE  /\ Works(s, r, t, Own(t)) /\ DeadlineTimed(r, t) /\ r.running = s.running
         /\ r.execTime[t] = 0 /\ r.segment[t] = 0 /\ r.nextSegment[t] = s.nextSegment[t]
         /\ ~ Armed(r, t)
<1> DEFINE ex == [s.execTime EXCEPT ![t] = 0]
           sg == [s.segment EXCEPT ![t] = 0]
           k == [s EXCEPT !.execTime = ex, !.segment = sg]
           d == Unlink(k, t)
           h == FinishHook(d, t)
           v == h.nbrInvocations[t] - 1
           e == SetCount(h, t, v)
           q == MoveToReadyQ(e, t)
           re == [q.release EXCEPT ![t] = Head(e.pending[t])]
           m == [q EXCEPT !.release = re]
           b == ReleaseHook(m, t)
<1>1. s \in RTsysType /\ t \in Task /\ t # None
  BY TimersOfTasks DEF Neat
<1>2. [s EXCEPT !.execTime[t] = 0, !.segment[t] = 0] = k
  BY <1>1 DEF RTsysType
<1>3. /\ ex \in [Task -> Int] /\ sg \in [Task -> Nat] /\ ex[t] = 0 /\ sg[t] = 0
      /\ \A u \in Task : u # t => ex[u] = s.execTime[u] /\ sg[u] = s.segment[u]
  BY <1>1, RecordFields
<1>4. r = LET kk == [s EXCEPT !.execTime[t] = 0, !.segment[t] = 0]
              hh == FinishHook(Unlink(kk, t), t)
              ee == SetCount(hh, t, hh.nbrInvocations[t] - 1)
              mm == [MoveToReadyQ(ee, t) EXCEPT !.release[t] = Head(ee.pending[t])]
              bb == ReleaseHook(mm, t)
          IN  IF ee.nbrInvocations[t] > 0
              THEN SetPending(bb, t, Tail(bb.pending[t])) ELSE ee
  BY Zenon DEF KilledJob, SetCount, SetPending
<1> HIDE DEF k
<1>5. r = LET mm == [q EXCEPT !.release[t] = Head(e.pending[t])]
              bb == ReleaseHook(mm, t)
          IN  IF e.nbrInvocations[t] > 0
              THEN SetPending(bb, t, Tail(bb.pending[t])) ELSE e
  BY <1>2, <1>4, Zenon
<1> HIDE DEF ex, sg, d, h, v, e, q
<1>6. /\ k \in RTsysType /\ k.execTime = ex /\ k.segment = sg
      /\ k.nextSegment = s.nextSegment /\ k.readyQ = s.readyQ /\ k.timeQ = s.timeQ
      /\ k.expiry = s.expiry /\ k.release = s.release /\ k.running = s.running
      /\ k.nbrInvocations = s.nbrInvocations /\ k.absDeadline = s.absDeadline
      /\ k.budget = s.budget /\ k.pending = s.pending /\ SameClock(s, k)
  BY <1>1, <1>3 DEF k, RTsysType, SameClock
<1>7. Neat(k) /\ SameTimers(s, k, {})
  BY <1>6, KeepNeat
<1>8. Works(s, k, t, {})
  BY <1>3, <1>6, <1>7 DEF Works, SameClock
<1>9. Moves(k, d, {t}) /\ t \notin ToSet(d.timeQ)
  BY <1>1, <1>7, UnlinkMoves DEF d
<1>10. /\ Moves(d, h, {DLTimer(t), WCETTimer(t)})
       /\ DLTimer(t) \notin ToSet(h.timeQ) /\ WCETTimer(t) \notin ToSet(h.timeQ)
  BY <1>9, FinishHookMoves DEF h, Moves
<1>11. t \notin ToSet(h.timeQ)
  BY <1>9, <1>10, TimersOfTasks DEF Moves, SameTimers
<1>12. Moves(k, h, Own(t))
  <2>1. {t} \cup {DLTimer(t), WCETTimer(t)} \subseteq Own(t)
    BY TimersOfTasks DEF Own
  <2> QED BY <1>9, <1>10, <2>1, MovesTransitive
<1>13. Works(s, h, t, Own(t))
  <2>1. Works(k, h, t, Own(t))
    BY <1>12, MovesIsWork
  <2> QED BY <1>1, <1>8, <2>1, WorksTransitive
<1>14. /\ h.nbrInvocations[t] = s.nbrInvocations[t] /\ h.pending[t] = s.pending[t]
       /\ h.execTime[t] = 0 /\ h.segment[t] = 0 /\ h.nextSegment[t] = s.nextSegment[t]
       /\ h.running = s.running /\ h \in RTsysType
  BY <1>3, <1>6, <1>12 DEF Moves, SameWork, Neat
<1>15. v \in Int /\ v >= 0 /\ s.nbrInvocations[t] \in Int /\ v = s.nbrInvocations[t] - 1
  <2>1. s.nbrInvocations[t] \in Int
    BY <1>1, RecordFields
  <2> QED BY <1>14, <2>1 DEF v
<1>16. /\ Works(h, e, t, {}) /\ SameCode(h, e, t) /\ e.nbrInvocations[t] = v
       /\ e.timeQ = h.timeQ
  BY <1>1, <1>13, <1>15, SetCountWorks DEF e, SetCount, Works
<1>17. /\ Works(s, e, t, Own(t)) /\ e.running = s.running
       /\ e.execTime[t] = 0 /\ e.segment[t] = 0 /\ e.nextSegment[t] = s.nextSegment[t]
  BY <1>1, <1>13, <1>14, <1>16, WorksTransitive DEF SameCode
<1>18. CASE ~ (e.nbrInvocations[t] > 0)
  <2>1. r = e
    BY <1>5, <1>18
  <2>2. DeadlineTimed(r, t)
    BY <1>10, <1>16, <1>18, <2>1 DEF DeadlineTimed
  <2>3. ~ Armed(r, t)
    BY <1>10, <1>16, <2>1 DEF Armed
  <2> QED BY <1>17, <2>1, <2>2, <2>3
<1>19. CASE e.nbrInvocations[t] > 0
  <2>1. e.pending[t] # << >> /\ e.pending[t] \in Seq(Nat)
    <3>1. e.pending[t] = s.pending[t]
      BY <1>14 DEF e, SetCount, RTsysType
    <3>2. Len(s.pending[t]) = s.nbrInvocations[t] - 1 /\ s.pending[t] \in Seq(Nat)
      BY <1>1, RecordFields DEF Sound, Counted
    <3> QED BY <1>15, <1>16, <1>19, <3>1, <3>2, EmptySeq
  <2>2. /\ Moves(e, q, {t}) /\ t \notin ToSet(q.timeQ) /\ q \in RTsysType
        /\ q.nbrInvocations[t] > 0
    <3>1. Moves(e, q, {t}) /\ t \notin ToSet(q.timeQ)
      BY <1>1, <1>17, MoveToReadyQMoves DEF q, Works
    <3> QED BY <1>19, <3>1 DEF Moves, Neat, SameWork
  <2>3. /\ re \in [UserTask -> Int] /\ [q EXCEPT !.release[t] = Head(e.pending[t])] = m
        /\ \A u \in UserTask : u # t => re[u] = q.release[u]
    <3>1. Head(e.pending[t]) \in Nat
      BY <2>1, HeadTailProperties
    <3>2. q.release \in [UserTask -> Int]
      BY <2>2, RecordFields
    <3>3. \A x \in Int : /\ [q.release EXCEPT ![t] = x] \in [UserTask -> Int]
                         /\ \A u \in UserTask : u # t => [q.release EXCEPT ![t] = x][u] = q.release[u]
      BY <3>2
    <3>4. [q EXCEPT !.release[t] = Head(e.pending[t])] = m
      BY <2>2 DEF RTsysType
    <3> HIDE DEF m
    <3> QED BY <3>1, <3>3, <3>4
  <2>4. r = SetPending(b, t, Tail(b.pending[t]))
    <3> HIDE DEF m
    <3> QED BY <1>5, <1>19, <2>3, Zenon
  <2> HIDE DEF re, b
  <2>5. /\ m \in RTsysType /\ m.release = re /\ m.running = q.running
        /\ m.readyQ = q.readyQ /\ m.timeQ = q.timeQ /\ m.expiry = q.expiry
        /\ m.nbrInvocations = q.nbrInvocations /\ SameClock(q, m)
        /\ m.absDeadline = q.absDeadline /\ m.budget = q.budget /\ m.segment = q.segment
        /\ m.nextSegment = q.nextSegment /\ m.execTime = q.execTime
    BY <2>2, <2>3 DEF RTsysType, SameClock
  <2> HIDE DEF m
  <2>6. Neat(m) /\ SameTimers(q, m, {t})
    BY <2>2, <2>3, <2>5, ReleaseTimeNeat DEF Moves
  <2>7. Works(q, m, t, {t}) /\ SameCode(q, m, t)
    BY <2>5, <2>6 DEF Works, SameCode, SameClock
  <2>8. /\ Works(m, b, t, {DLTimer(t)}) /\ SameCode(m, b, t) /\ Released(b, t)
        /\ b.nbrInvocations[t] = m.nbrInvocations[t]
    BY <2>6, ReleaseHookWorks DEF b
  <2>9. /\ Works(b, r, t, {}) /\ SameCode(b, r, t)
        /\ r.nbrInvocations = b.nbrInvocations /\ r.absDeadline = b.absDeadline
    BY <1>1, <2>4, <2>8, SetPendingWorks DEF Works
  <2>10. Works(e, r, t, Own(t)) /\ ~ Armed(r, t)
    <3> DEFINE T == {t, DLTimer(t)}
    <3>1. T \subseteq Own(t) /\ {t} \subseteq T /\ {DLTimer(t)} \subseteq T
          /\ WCETTimer(t) \in QItem \ T
      BY TimersOfTasks DEF Own
    <3> HIDE DEF T
    <3>2. Works(e, q, t, {t}) /\ SameCode(e, q, t)
      BY <2>2, MovesIsWork
    <3>3. Works(e, m, t, T)
      BY <1>1, <2>7, <3>1, <3>2, WorksTransitive
    <3>4. Works(e, b, t, T)
      BY <1>1, <2>8, <3>1, <3>3, WorksTransitive
    <3>5. Works(e, r, t, T)
      BY <1>1, <2>9, <3>4, WorksTransitive
    <3>6. ~ Armed(r, t)
      BY <1>10, <1>16, <3>1, <3>5 DEF Works, SameTimers, Armed
    <3> QED BY <3>1, <3>5, <3>6 DEF Works, SameTimers
  <2>11. SameCode(e, r, t)
    BY <2>2, <2>7, <2>8, <2>9, MovesIsWork DEF SameCode
  <2>12. DeadlineTimed(r, t)
    <3>1. r.nbrInvocations[t] > 0 /\ SameTimers(b, r, {})
      BY <2>2, <2>5, <2>8, <2>9 DEF Works
    <3> QED BY <2>8, <2>9, <3>1, ReleasedTimed
  <2> QED BY <1>1, <1>17, <2>10, <2>11, <2>12, WorksTransitive DEF SameCode
<1> QED BY <1>18, <1>19

\* ttSleepUntil
LEMMA SleepMoves ==
  ASSUME NEW s, NEW t \in UserTask, NEW time \in Int, Neat(s),
         NEW r, r = SleepingTask(s, t, time)
  PROVE  /\ Moves(s, r, {t, WCETTimer(t)})
         /\ ~ Armed(r, t) /\ Asleep(r, t) /\ Wakeup(r, t) = time
<1> DEFINE re == [s.release EXCEPT ![t] = time]
           a == [s EXCEPT !.release = re]
           q == MoveToTimeQ(a, t)
           st == [q.state EXCEPT ![t] = "SLEEPING"]
           z == [q EXCEPT !.state = st]
<1>1. s \in RTsysType /\ t \in Task /\ t \notin Timer /\ t \in QItem
  BY TimersOfTasks DEF Neat
<1>2. /\ [s EXCEPT !.release[t] = time] = a /\ re \in [UserTask -> Int]
      /\ re[t] = time /\ \A u \in UserTask : u # t => re[u] = s.release[u]
  BY <1>1, RecordFields DEF RTsysType
<1> HIDE DEF re
<1>3. /\ a \in RTsysType /\ a.release = re /\ SameWork(s, a) /\ a.timeQ = s.timeQ
      /\ a.readyQ = s.readyQ /\ a.expiry = s.expiry
  BY <1>1, <1>2 DEF RTsysType, SameWork
<1> HIDE DEF a
<1>4. Placed(a, Task)
  BY <1>3 DEF Neat, Placed, SameWork
<1>5. \A n \in QItem : n # t => Wakeup(a, n) = Wakeup(s, n)
  BY <1>2, <1>3 DEF Wakeup, QItem
<1>6. InOrderBut(Key(a), a.timeQ, t)
  <2>1. s.timeQ \in Seq(QItem)
    BY <1>1, RecordFields
  <2>2. \A i \in 1 .. Len(s.timeQ) : s.timeQ[i] \in QItem
    BY <2>1, ElementOfSeq, LenProperties
  <2>3. \A n \in QItem : n # t => Key(a)[n] = Key(s)[n]
    BY <1>1, <1>3, <1>5, KeyFacts
  <2> QED BY <2>2, <2>3, <1>3 DEF Neat, InOrder, InOrderBut
<1>7. Moves(a, q, {t}) /\ Asleep(q, t) /\ Wakeup(q, t) = time
  <2>1. Wakeup(a, t) = time
    BY <1>1, <1>2, <1>3 DEF Wakeup
  <2> QED BY <1>1, <1>3, <1>4, <1>6, <2>1, MoveToTimeQMoves DEF Asleep
<1> HIDE DEF q
<1>8. /\ q \in RTsysType /\ st \in [Task -> State]
      /\ [q EXCEPT !.state[t] = "SLEEPING"] = z
  BY <1>7, RecordFields DEF Moves, Neat, RTsysType, State
<1> HIDE DEF st
<1>9. /\ z \in RTsysType /\ SameWork(q, z) /\ z.readyQ = q.readyQ /\ z.timeQ = q.timeQ
      /\ z.expiry = q.expiry /\ z.release = q.release
  BY <1>8 DEF RTsysType, SameWork
<1>10. Moves(q, z, {})
  <2>1. q.running = z.running
    BY <1>9 DEF SameWork
  <2> QED BY <1>7, <1>9, <2>1, KeepNeat DEF Moves
<1>11. r = SuspendHook(z, t)
  BY <1>2, <1>8 DEF SleepingTask, q
<1> HIDE DEF z
<1>12. Moves(z, r, {WCETTimer(t)}) /\ ~ Armed(r, t)
  BY <1>10, <1>11, SuspendHookMoves DEF Moves, Armed
<1>13. Moves(q, r, {WCETTimer(t)})
  BY <1>10, <1>12, MovesTransitive
<1>15. Moves(a, r, {t, WCETTimer(t)})
  BY <1>7, <1>13, MovesTransitive
<1>16. SameWork(s, r)
  BY <1>3, <1>15 DEF Moves, SameWork
<1>17. SameTimers(s, r, {t, WCETTimer(t)})
  BY <1>3, <1>5, <1>15 DEF Moves, SameTimers
<1>18. Asleep(r, t) /\ Wakeup(r, t) = time
  <2>1. t # WCETTimer(t)
    BY TimersOfTasks
  <2> QED BY <1>1, <1>7, <1>13, <2>1 DEF Moves, SameTimers, Asleep
<1> QED BY <1>12, <1>15, <1>16, <1>17, <1>18 DEF Moves

\* ttSetAbsDeadline
LEMMA RearrangedWorks ==
  ASSUME NEW s, NEW t \in UserTask, NEW time \in Int, Neat(s),
         NEW r, r = Rearranged(s, t, time)
  PROVE  /\ Works(s, r, t, Own(t)) /\ SameCode(s, r, t)
         /\ HasPlace(s, t) => SameBudget(s, r, t)
<1> DEFINE ad == [s.absDeadline EXCEPT ![t] = time]
           a == [s EXCEPT !.absDeadline = ad]
           d == IF DLTimer(t) \in ToSet(a.timeQ) THEN Arm(a, DLTimer(t), time) ELSE a
<1>1. s \in RTsysType /\ t \in Task /\ t # None
  BY TimersOfTasks DEF Neat
<1>2. /\ [s EXCEPT !.absDeadline[t] = time] = a /\ ad \in [UserTask -> Int]
      /\ \A u \in UserTask : u # t => ad[u] = s.absDeadline[u]
  BY <1>1, RecordFields DEF RTsysType
<1> HIDE DEF ad
<1>3. /\ a \in RTsysType /\ a.absDeadline = ad /\ a.running = s.running
      /\ a.readyQ = s.readyQ /\ a.timeQ = s.timeQ /\ a.expiry = s.expiry
      /\ a.release = s.release /\ a.nbrInvocations = s.nbrInvocations
      /\ a.budget = s.budget /\ a.segment = s.segment
      /\ a.nextSegment = s.nextSegment /\ a.execTime = s.execTime /\ SameClock(s, a)
  BY <1>1, <1>2 DEF RTsysType, SameClock
<1>4. r = IF t \in ToSet(d.readyQ[Affinity[t]]) THEN MoveToReadyQ(d, t) ELSE d
  <2> HIDE DEF a
  <2> QED BY <1>2 DEF Rearranged
<1> HIDE DEF a
<1>5. Neat(a) /\ SameTimers(s, a, {})
  BY <1>3, KeepNeat
<1>6. Works(s, a, t, {}) /\ SameCode(s, a, t)
  BY <1>2, <1>3, <1>5 DEF Works, SameCode, SameClock
<1>7. Moves(a, d, {DLTimer(t)}) /\ (Ready(d, t) <=> Ready(a, t))
  <2>1. CASE DLTimer(t) \in ToSet(a.timeQ)
    <3>1. TimerTask(DLTimer(t)) \in Task /\ DLTimer(t) \in Timer /\ DLTimer(t) # t
      BY <1>5, <2>1, TimersOfTasks DEF Neat, Placed
    <3>2. Moves(a, d, {DLTimer(t)})
      BY <1>5, <2>1, <3>1, ArmMoves
    <3>3. Elsewhere(a, d, DLTimer(t))
      BY <1>5, <2>1, <3>1, ArmFacts DEF Neat
    <3>4. Affinity[t] \in CPU
      BY <1>1, AttributesAssumption DEF AttributesAssumption
    <3> QED BY <3>1, <3>2, <3>3, <3>4 DEF Elsewhere, Ready
  <2>2. CASE DLTimer(t) \notin ToSet(a.timeQ)
    BY <1>5, <2>2, MovesNothing
  <2> QED BY <2>1, <2>2
<1> HIDE DEF d
<1>8. Moves(d, r, {t})
  <2>1. CASE t \in ToSet(d.readyQ[Affinity[t]])
    BY <1>1, <1>4, <1>7, <2>1, MoveToReadyQMoves DEF Moves
  <2>2. CASE t \notin ToSet(d.readyQ[Affinity[t]])
    BY <1>4, <1>7, <2>2, MovesNothing DEF Moves
  <2> QED BY <2>1, <2>2
<1>9. {t} \cup {DLTimer(t)} \subseteq Own(t)
  BY TimersOfTasks DEF Own
<1>10. Moves(a, r, Own(t))
  BY <1>7, <1>8, <1>9, MovesTransitive
<1>11. Works(a, r, t, Own(t)) /\ SameCode(a, r, t)
  BY <1>10, MovesIsWork
<1>12. HasPlace(s, t) => SameBudget(s, r, t)
  <2> HAVE HasPlace(s, t)
  <2>1. /\ t \in QItem /\ WCETTimer(t) \in QItem /\ t # DLTimer(t) /\ t # WCETTimer(t)
        /\ DLTimer(t) # WCETTimer(t)
    BY TimersOfTasks
  <2>2. SameBudget(s, d, t)
    BY <1>3, <1>5, <1>7, <2>1
       DEF Moves, SameWork, SameTimers, SameBudget, Runs, Armed, Asleep, SameClock
  <2>3. CASE t \in ToSet(d.readyQ[Affinity[t]])
    <3>1. ~ Asleep(s, t)
      BY <1>3, <1>7, <2>3 DEF HasPlace, Ready
    <3>2. r = MoveToReadyQ(d, t)
      BY <1>4, <2>3
    <3>3. Neat(d)
      BY <1>7 DEF Moves
    <3>4. Moves(d, r, {t}) /\ ~ Asleep(r, t)
      BY <1>1, <3>2, <3>3, MoveToReadyQMoves DEF Asleep
    <3> QED BY <2>1, <2>2, <3>1, <3>4 DEF Moves, SameWork, SameTimers, SameBudget, Runs, Armed
  <2>4. CASE t \notin ToSet(d.readyQ[Affinity[t]])
    BY <1>4, <2>2, <2>4
  <2> QED BY <2>3, <2>4
<1> QED BY <1>1, <1>6, <1>11, <1>12, WorksTransitive DEF SameCode

\* What a dispatch leaves of the jobs: at most a first segment has begun.
Begins(s, r) ==
  /\ Neat(r) /\ SameClock(s, r)
  /\ r.nextSegment = s.nextSegment /\ r.execTime = s.execTime
  /\ \A u \in Task : \/ r.segment[u] = s.segment[u]
                     \/ s.segment[u] = 0 /\ r.segment[u] = 1
  /\ \A u \in UserTask : DeadlineTimed(r, u) <=> DeadlineTimed(s, u)

LEMMA MovesBegins ==
  ASSUME NEW s, NEW r, NEW u \in UserTask, Moves(s, r, {WCETTimer(u)})
  PROVE  Begins(s, r)
<1>1. \A v \in UserTask : DLTimer(v) \notin {WCETTimer(u)}
  BY DEF DLTimer, WCETTimer
<1>2. \A v \in UserTask : DeadlineTimed(r, v) <=> DeadlineTimed(s, v)
  BY <1>1, MovesDeadlineTimed
<1> QED BY <1>2 DEF Begins, Moves, SameWork, SameClock

LEMMA BeginsTransitive ==
  ASSUME NEW s, NEW r, NEW q, Begins(s, r), Begins(r, q)
  PROVE  Begins(s, q)
<1>1. \A u \in Task : \/ q.segment[u] = s.segment[u]
                      \/ s.segment[u] = 0 /\ q.segment[u] = 1
  BY DEF Begins
<1>2. SameClock(s, q)
  BY DEF Begins, SameClock
<1> QED BY <1>1, <1>2 DEF Begins

\* a change of fields that no deadline timer depends on
LEMMA KeepBegins ==
  ASSUME NEW s, NEW r, Neat(r), SameTimers(s, r, {}), SameClock(s, r),
         r.nextSegment = s.nextSegment, r.execTime = s.execTime,
         r.nbrInvocations = s.nbrInvocations, r.absDeadline = s.absDeadline,
         \A u \in Task : \/ r.segment[u] = s.segment[u]
                         \/ s.segment[u] = 0 /\ r.segment[u] = 1
  PROVE  Begins(s, r)
<1>1. \A u \in UserTask : /\ DLTimer(u) \in ToSet(r.timeQ) <=> DLTimer(u) \in ToSet(s.timeQ)
                          /\ Wakeup(r, DLTimer(u)) = Wakeup(s, DLTimer(u))
  BY TimersOfTasks DEF SameTimers
<1> QED BY <1>1 DEF Begins, DeadlineTimed, SameClock

LEMMA SuspendedBegins ==
  ASSUME NEW s, Neat(s), NEW c \in CPU, NEW new, NEW r, r = Suspended(s, c, new)
  PROVE  Begins(s, r) /\ r.running = s.running
<1>1. CASE s.running[c] \in UserTask /\ s.running[c] # new
  <2>1. r = SuspendHook(s, s.running[c])
    BY <1>1 DEF Suspended
  <2>2. Moves(s, r, {WCETTimer(s.running[c])})
    BY <1>1, <2>1, SuspendHookMoves
  <2> QED BY <1>1, <2>2, MovesBegins DEF Moves, SameWork
<1>2. CASE ~ (s.running[c] \in UserTask /\ s.running[c] # new)
  <2>1. r = s
    BY <1>2 DEF Suspended
  <2> QED BY <2>1 DEF Begins, SameClock
<1> QED BY <1>1, <1>2

LEMMA ResumedBegins ==
  ASSUME NEW s, Neat(s), NEW c \in CPU, NEW new, NEW r, r = Resumed(s, c, new)
  PROVE  Begins(s, r) /\ r.running = s.running
<1>1. CASE new \notin UserTask \/ new = s.running[c]
  <2>1. r = s
    BY <1>1 DEF Resumed
  <2> QED BY <2>1 DEF Begins, SameClock
<1>2. CASE ~ (new \notin UserTask \/ new = s.running[c])
  <2> DEFINE sg == [s.segment EXCEPT ![new] = 1]
             a == IF s.segment[new] = 0 THEN [s EXCEPT !.segment = sg] ELSE s
             b == ArmBudget(a, new)
             ru == [b.runningUser EXCEPT ![c] = new]
  <2>1. s \in RTsysType /\ new \in UserTask /\ new \in Task
    BY <1>2, TaskSorts DEF Neat
  <2>2. /\ sg \in [Task -> Nat] /\ [s EXCEPT !.segment[new] = 1] = [s EXCEPT !.segment = sg]
        /\ \A u \in Task : sg[u] = IF u = new THEN 1 ELSE s.segment[u]
    BY <2>1, RecordFields DEF RTsysType
  <2>3. r = [b EXCEPT !.runningUser[c] = new]
    <3>1. r = [(IF s.segment[new] = 0 THEN StartHook([s EXCEPT !.segment[new] = 1], new)
                ELSE ResumeHook(s, new)) EXCEPT !.runningUser[c] = new]
      BY <1>2 DEF Resumed
    <3>2. (IF s.segment[new] = 0 THEN StartHook([s EXCEPT !.segment[new] = 1], new)
           ELSE ResumeHook(s, new)) = b
      <4> HIDE DEF sg
      <4> QED BY <2>2 DEF StartHook, ResumeHook
    <3> HIDE DEF b
    <3> QED BY <3>1, <3>2
  <2> HIDE DEF sg
  <2>4. /\ a \in RTsysType /\ SameClock(s, a) /\ a.running = s.running
        /\ a.readyQ = s.readyQ /\ a.timeQ = s.timeQ
        /\ a.expiry = s.expiry /\ a.release = s.release
        /\ a.nextSegment = s.nextSegment /\ a.execTime = s.execTime
        /\ a.nbrInvocations = s.nbrInvocations /\ a.absDeadline = s.absDeadline
        /\ \A u \in Task : \/ a.segment[u] = s.segment[u]
                           \/ s.segment[u] = 0 /\ a.segment[u] = 1
    <3>1. CASE s.segment[new] = 0
      BY <2>1, <2>2, <3>1 DEF RTsysType, SameClock
    <3>2. CASE s.segment[new] # 0
      BY <2>1, <3>2 DEF SameClock
    <3> QED BY <3>1, <3>2
  <2> HIDE DEF a, b
  <2>5. Neat(a) /\ SameTimers(s, a, {})
    BY <2>4, KeepNeat
  <2>6. Begins(s, a)
    BY <2>4, <2>5, KeepBegins
  <2>7. Moves(a, b, {WCETTimer(new)}) /\ b \in RTsysType
    BY <2>1, <2>5, ArmBudgetMoves DEF b, Moves, Neat
  <2>8. r = [b EXCEPT !.runningUser = ru] /\ ru \in [CPU -> UserTask \cup {None}]
    BY <2>1, <2>3, <2>7, RecordFields DEF RTsysType
  <2> HIDE DEF ru
  <2>9. /\ r \in RTsysType /\ SameClock(b, r) /\ r.running = b.running
        /\ r.readyQ = b.readyQ /\ r.timeQ = b.timeQ
        /\ r.expiry = b.expiry /\ r.release = b.release
        /\ r.nextSegment = b.nextSegment /\ r.execTime = b.execTime
        /\ r.nbrInvocations = b.nbrInvocations /\ r.absDeadline = b.absDeadline
        /\ r.segment = b.segment
    BY <2>7, <2>8 DEF RTsysType, SameClock
  <2>10. Neat(r) /\ SameTimers(b, r, {})
    BY <2>7, <2>9, KeepNeat DEF Moves
  <2>11. Begins(b, r)
    BY <2>9, <2>10, KeepBegins
  <2>12. Begins(a, b)
    BY <2>1, <2>7, MovesBegins
  <2>13. Begins(s, r)
    BY <2>6, <2>11, <2>12, BeginsTransitive
  <2>14. r.running = s.running
    BY <2>4, <2>7, <2>9 DEF Moves, SameWork
  <2> QED BY <2>13, <2>14
<1> QED BY <1>1, <1>2

LEMMA DispatchedBegins ==
  ASSUME NEW s, Neat(s), NEW c \in CPU, NEW d \in RTsysType, d = Dispatched(s, c),
         Placed(d, Task)
  PROVE  Begins(s, d)
<1> DEFINE new == First(s.readyQ[c])
           a == Suspended(s, c, new)
           r == Resumed(a, c, new)
           run == First(r.readyQ[c])
<1>1. d = LET z == [r EXCEPT !.running[c] = run]
          IN  IF run = None THEN z ELSE [z EXCEPT !.state[run] = "RUNNING"]
  BY Zenon DEF Dispatched
<1> HIDE DEF new
<1>2. Begins(s, a)
  BY SuspendedBegins
<1> HIDE DEF a
<1>3. Begins(a, r)
  BY <1>2, ResumedBegins DEF Begins
<1> HIDE DEF r, run
<1>4. r \in RTsysType
  BY <1>3 DEF Begins, Neat
<1>5. /\ SameClock(r, d) /\ d.readyQ = r.readyQ /\ d.timeQ = r.timeQ
      /\ d.expiry = r.expiry /\ d.release = r.release
      /\ d.nextSegment = r.nextSegment /\ d.execTime = r.execTime
      /\ d.nbrInvocations = r.nbrInvocations /\ d.absDeadline = r.absDeadline
      /\ d.segment = r.segment
  <2>1. CASE run = None
    BY <1>1, <1>4, <2>1 DEF RTsysType, SameClock
  <2>2. CASE run # None
    BY <1>1, <1>4, <2>2 DEF RTsysType, SameClock
  <2> QED BY <2>1, <2>2
<1>6. Neat(d) /\ SameTimers(r, d, {})
  <2>1. Key(d) = Key(r) /\ \A n : Wakeup(d, n) = Wakeup(r, n)
    BY <1>5, SameKeys
  <2> QED BY <1>3, <1>5, <2>1 DEF Begins, Neat, SameTimers
<1>7. Begins(r, d)
  BY <1>5, <1>6, KeepBegins
<1> QED BY <1>2, <1>3, <1>7, BeginsTransitive

-----------------------------------------------------------------------------
(***************************************************************************)
(* The invariant about time.                                               *)
(***************************************************************************)
\* No segment overruns, and one is always next: the first one if none began.
Progressing(s, t) ==
  /\ s.execTime[t] >= 0
  /\ s.nextSegment[t] >= 1
  /\ "ttKillJob" \notin Primitives => (s.segment[t] = 0 => s.nextSegment[t] = 1)

Orderly(s) ==
  /\ InOrder(Key(s), s.timeQ)
  /\ \A t \in Task : Progressing(s, t)
  /\ "ttSetAbsDeadline" \notin Primitives => \A t \in UserTask : DeadlineTimed(s, t)

\* The tasks of the CPUs behind c have not been charged yet and can be.
Uncharged(s, elapsed, c) ==
  \A b \in CPU : c < b /\ s.running[b] # None => s.execTime[s.running[b]] >= elapsed

\* Nothing is due before the next hit.
Punctual(s) ==
  /\ \A n \in ToSet(s.timeQ) : s.nextHit <= Wakeup(s, n) \/ s.nextHit = 0
  /\ \A c \in CPU : s.running[c] # None =>
       s.nextHit <= s.prevHit + s.execTime[s.running[c]]

Timely(s, p, elapsed) ==
  /\ Orderly(s)
  /\ p = "segment" => s.segment[s.running[s.currentCPU]] >= 1
  /\ p # "idle" => s.time = s.prevHit
  /\ p \in {"count", "segment"} => Uncharged(s, elapsed, s.currentCPU)
  /\ p = "count" /\ s.running[s.currentCPU] # None =>
       s.execTime[s.running[s.currentCPU]] >= elapsed
  /\ p = "idle" => Punctual(s)

TInv == KernelInv /\ Timely(rtsys, pc, timeElapsed)

LEMMA OrderlyIsNeat ==
  ASSUME NEW s, Sound(s, ActiveUsers(s), {}), Orderly(s)
  PROVE  Neat(s)
<1>1. ActiveUsers(s) \cup ActiveHandlers(s) \subseteq Task
  BY TaskSorts DEF ActiveUsers, ActiveHandlers
<1> QED BY <1>1, PlacedMonotone DEF Sound, Orderly, Neat

\* Work on one task leaves it to check that task.
LEMMA WorksOrderly ==
  ASSUME NEW s, NEW r, NEW t \in Task, Orderly(s), Works(s, r, t, Own(t)),
         Progressing(r, t),
         "ttSetAbsDeadline" \notin Primitives /\ t \in UserTask => DeadlineTimed(r, t)
  PROVE  Orderly(r)
<1>1. \A u \in Task : Progressing(r, u)
  BY DEF Orderly, Works, Progressing
<1>2. "ttSetAbsDeadline" \notin Primitives => \A u \in UserTask : DeadlineTimed(r, u)
  BY OthersDeadlineTimed DEF Orderly
<1> QED BY <1>1, <1>2 DEF Orderly, Works, Neat

\* Work on a task that keeps its code, or is on no CPU behind c.
LEMMA WorksUncharged ==
  ASSUME NEW s \in RTsysType, NEW r, NEW t, NEW T, Works(s, r, t, T), NEW elapsed, NEW c,
         Uncharged(s, elapsed, c),
         SameCode(s, r, t) \/ \A b \in CPU : c < b => s.running[b] # t
  PROVE  Uncharged(r, elapsed, c)
<1> SUFFICES ASSUME NEW b \in CPU, c < b, r.running[b] # None
             PROVE  r.execTime[r.running[b]] >= elapsed
  BY DEF Uncharged
<1>1. r.running[b] = s.running[b] /\ s.running[b] \in Task
  BY RecordFields DEF Works
<1>2. r.execTime[s.running[b]] = s.execTime[s.running[b]]
  BY <1>1 DEF Works, SameCode
<1> QED BY <1>1, <1>2 DEF Uncharged

\* the same for a change of fields that no timer depends on
LEMMA KeepOrderly ==
  ASSUME NEW s, NEW r, Orderly(s), SameTimers(s, r, {}), r.timeQ = s.timeQ,
         InOrder(Key(r), r.timeQ), r.time >= s.time, s.time \in Nat, r.time \in Nat,
         s.absDeadline \in [UserTask -> Int],
         r.nbrInvocations = s.nbrInvocations, r.absDeadline = s.absDeadline,
         \A t \in Task : Progressing(r, t)
  PROVE  Orderly(r)
<1>1. \A u \in UserTask : Wakeup(r, DLTimer(u)) = Wakeup(s, DLTimer(u))
  BY TimersOfTasks DEF SameTimers
<1>2. ASSUME NEW u \in UserTask, DeadlineTimed(s, u) PROVE DeadlineTimed(r, u)
  <2>1. s.absDeadline[u] \in Int
    OBVIOUS
  <2> QED BY <1>1, <1>2, <2>1 DEF DeadlineTimed
<1> QED BY <1>2 DEF Orderly

LEMMA TInvFacts ==
  ASSUME TInv
  PROVE  /\ IInv /\ Neat(rtsys) /\ Orderly(rtsys) /\ rtsys \in RTsysType
         /\ Sound(rtsys, ActiveUsers(rtsys), {}) /\ rtsys.currentCPU \in CPU
         /\ timeElapsed \in Nat /\ rtsys.time \in Nat /\ rtsys.prevHit \in Nat
         /\ rtsys.nextHit \in Nat
  BY IInvFacts, OrderlyIsNeat DEF TInv, KernelInv, Timely

-----------------------------------------------------------------------------
(***************************************************************************)
(* One lemma per action.                                                   *)
(***************************************************************************)
TimelyNext == Timely(rtsys', pc', timeElapsed')

LEMMA NextCPUTimely ==
  ASSUME NEW s, s \in RTsysType, Neat(s), Orderly(s), s.time = s.prevHit,
         Uncharged(s, timeElapsed, s.currentCPU),
         NextCPU(s), timeElapsed' = timeElapsed
  PROVE  TimelyNext
<1>1. CASE s.currentCPU < NbrOfCPUs - 1
  <2> DEFINE r == [s EXCEPT !.currentCPU = s.currentCPU + 1]
  <2>1. rtsys' = r /\ pc' = "count"
    BY <1>1 DEF NextCPU
  <2>2. s.currentCPU \in Nat /\ s.currentCPU + 1 \in CPU
    BY <1>1, RecordFields, AttributesAssumption DEF AttributesAssumption, CPU
  <2>3. /\ r \in RTsysType /\ r.currentCPU = s.currentCPU + 1
        /\ r.readyQ = s.readyQ /\ r.timeQ = s.timeQ /\ r.running = s.running
        /\ r.expiry = s.expiry /\ r.release = s.release /\ r.execTime = s.execTime
        /\ r.segment = s.segment /\ r.nextSegment = s.nextSegment
        /\ r.nbrInvocations = s.nbrInvocations /\ r.absDeadline = s.absDeadline
        /\ r.time = s.time /\ r.prevHit = s.prevHit
    BY <2>2 DEF RTsysType
  <2> HIDE DEF r
  <2>4. Neat(r) /\ SameTimers(s, r, {})
    BY <2>3, KeepNeat
  <2>5. Orderly(r)
    <3>1. \A t \in Task : Progressing(r, t)
      BY <2>3 DEF Orderly, Progressing
    <3> QED BY <2>3, <2>4, <3>1, RecordFields, KeepOrderly DEF Neat
  <2>6. \A b \in CPU : s.currentCPU + 1 <= b => s.currentCPU < b
    BY <2>2 DEF CPU
  <2>7. Uncharged(r, timeElapsed, r.currentCPU)
    <3>1. \A b \in CPU : s.currentCPU + 1 < b => s.currentCPU < b
      BY <2>2 DEF CPU
    <3> QED BY <2>3, <3>1 DEF Uncharged
  <2>8. r.running[r.currentCPU] # None => r.execTime[r.running[r.currentCPU]] >= timeElapsed
    BY <2>2, <2>3, <2>6 DEF Uncharged
  <2> QED BY <2>1, <2>3, <2>5, <2>7, <2>8 DEF TimelyNext, Timely
<1>2. CASE ~ (s.currentCPU < NbrOfCPUs - 1)
  <2>1. rtsys' = s /\ pc' = "timers"
    BY <1>2 DEF NextCPU
  <2> QED BY <2>1 DEF TimelyNext, Timely
<1> QED BY <1>1, <1>2

LEMMA RunKernelTimely ==
  ASSUME TInv, RunKernel
  PROVE  TimelyNext
<1> DEFINE r == [rtsys EXCEPT !.time = rtsys.nextHit, !.prevHit = rtsys.nextHit,
                              !.currentCPU = 0]
<1>1. rtsys' = r /\ timeElapsed' = rtsys.nextHit - rtsys.prevHit /\ pc' = "count"
      /\ pc = "idle"
  BY DEF RunKernel
<1>2. 0 \in CPU
  BY AttributesAssumption DEF AttributesAssumption, CPU
<1>3. /\ r \in RTsysType /\ r.time = rtsys.nextHit /\ r.prevHit = rtsys.nextHit
      /\ r.readyQ = rtsys.readyQ /\ r.timeQ = rtsys.timeQ /\ r.running = rtsys.running
      /\ r.expiry = rtsys.expiry /\ r.release = rtsys.release
      /\ r.execTime = rtsys.execTime /\ r.currentCPU = 0
      /\ r.segment = rtsys.segment /\ r.nextSegment = rtsys.nextSegment
      /\ r.nbrInvocations = rtsys.nbrInvocations /\ r.absDeadline = rtsys.absDeadline
  BY <1>2, TInvFacts DEF RTsysType
<1> HIDE DEF r
<1>4. Neat(r) /\ SameTimers(rtsys, r, {})
  BY <1>3, TInvFacts, KeepNeat
<1>5. r.time >= rtsys.time
  BY <1>1, <1>3 DEF TInv, KernelInv, IInv, Consistent
<1>6. Orderly(r)
  <2>1. \A t \in Task : Progressing(r, t)
    BY <1>3, TInvFacts DEF Orderly, Progressing
  <2> QED BY <1>3, <1>4, <1>5, <2>1, TInvFacts, RecordFields, KeepOrderly DEF Neat
<1>7. \A c \in CPU : r.running[c] # None => r.execTime[r.running[c]] >= timeElapsed'
  <2>1. ASSUME NEW c \in CPU, r.running[c] # None
        PROVE  r.execTime[r.running[c]] >= timeElapsed'
    <3>1. r.running[c] \in Task /\ r.execTime[r.running[c]] \in Int
      BY <2>1, <1>3, RecordFields
    <3>2. rtsys.nextHit <= rtsys.prevHit + rtsys.execTime[rtsys.running[c]]
      BY <2>1, <1>1, <1>3 DEF TInv, Timely, Punctual
    <3> QED BY <1>1, <1>3, <3>1, <3>2, TInvFacts
  <2> QED BY <2>1
<1> QED BY <1>1, <1>2, <1>3, <1>6, <1>7 DEF TimelyNext, Timely, Uncharged

LEMMA InterruptTimely ==
  ASSUME TInv, NEW h \in External, NEW t \in 0 .. MaxTime, Interrupt(h, t)
  PROVE  TimelyNext
<1> DEFINE a == [rtsys EXCEPT !.time = t]
           s == InvokeHandler(a, h)
           r == IF s.nbrInvocations[h] = 1 THEN [s EXCEPT !.nextHit = t] ELSE s
<1>1. /\ rtsys' = r /\ pc = "idle" /\ pc' = pc
      /\ t >= rtsys.time /\ t <= rtsys.nextHit
  BY DEF Interrupt
<1>2. h \in Handler /\ h \in Task /\ t \in Nat
  BY TaskSorts, TasksAssumption, BoundsAssumption DEF TasksAssumption, BoundsAssumption
<1>3. /\ a \in RTsysType /\ a.time = t
      /\ a.readyQ = rtsys.readyQ /\ a.timeQ = rtsys.timeQ /\ a.running = rtsys.running
      /\ a.expiry = rtsys.expiry /\ a.release = rtsys.release
      /\ a.prevHit = rtsys.prevHit /\ a.nextHit = rtsys.nextHit
      /\ a.execTime = rtsys.execTime
      /\ a.segment = rtsys.segment /\ a.nextSegment = rtsys.nextSegment
      /\ a.nbrInvocations = rtsys.nbrInvocations /\ a.absDeadline = rtsys.absDeadline
  BY <1>2, TInvFacts DEF RTsysType
<1> HIDE DEF a
<1>4. Neat(a) /\ SameTimers(rtsys, a, {})
  BY <1>3, TInvFacts, KeepNeat
<1>5. Orderly(a)
  <2>1. \A u \in Task : Progressing(a, u)
    BY <1>3, TInvFacts DEF Orderly, Progressing
  <2> QED BY <1>1, <1>2, <1>3, <1>4, <2>1, TInvFacts, RecordFields, KeepOrderly DEF Neat
<1>6. Moves(a, s, {})
  BY <1>2, <1>4, InvokeHandlerMoves
<1> HIDE DEF s
<1>7. Orderly(s)
  <2>1. Works(a, s, h, Own(h)) /\ SameCode(a, s, h)
    <3>1. Moves(a, s, Own(h))
      BY <1>6, MovesMore
    <3> QED BY <3>1, MovesIsWork
  <2>2. Progressing(s, h)
    BY <1>2, <1>5, <2>1 DEF Progressing, SameCode, Orderly
  <2> QED BY <1>2, <1>5, <2>1, <2>2, TaskSorts, WorksOrderly
<1>8. s \in RTsysType /\ SameWork(a, s) /\ SameTimers(a, s, {}) /\ Neat(s)
  BY <1>6 DEF Moves, Neat
<1>9. /\ r.timeQ = s.timeQ /\ r.expiry = s.expiry /\ r.release = s.release
      /\ r.running = s.running /\ r.execTime = s.execTime /\ r.prevHit = s.prevHit
      /\ r.segment = s.segment /\ r.nextSegment = s.nextSegment
      /\ r.nbrInvocations = s.nbrInvocations /\ r.absDeadline = s.absDeadline
      /\ r.time = s.time /\ r.nextHit \in {t, s.nextHit}
  BY <1>8 DEF RTsysType
<1> HIDE DEF r
<1>10. Key(r) = Key(s) /\ \A n : Wakeup(r, n) = Wakeup(s, n)
  BY <1>9, SameKeys
<1>11. Orderly(r)
  BY <1>7, <1>9, <1>10 DEF Orderly, Progressing, DeadlineTimed
<1>12. /\ r.nextHit \in Nat /\ r.nextHit <= rtsys.nextHit
       /\ rtsys.nextHit = 0 => r.nextHit = 0
  BY <1>1, <1>2, <1>3, <1>8, <1>9, TInvFacts DEF SameWork
<1>13. \A n \in ToSet(r.timeQ) : r.nextHit <= Wakeup(r, n) \/ r.nextHit = 0
  <2> SUFFICES ASSUME NEW n \in ToSet(r.timeQ), r.nextHit # 0
               PROVE  r.nextHit <= Wakeup(r, n)
    OBVIOUS
  <2>1. n \in QItem
    <3>1. s.timeQ \in Seq(QItem)
      BY <1>8, RecordFields
    <3> QED BY <1>9, <3>1, ElementOfSeq, LenProperties DEF ToSet
  <2>2. n \in ToSet(rtsys.timeQ) /\ Wakeup(r, n) = Wakeup(rtsys, n)
    BY <2>1, <1>4, <1>8, <1>9, <1>10 DEF SameTimers
  <2>3. rtsys.nextHit <= Wakeup(rtsys, n)
    BY <2>2, <1>1, <1>12 DEF TInv, Timely, Punctual
  <2>4. Wakeup(rtsys, n) \in Int
    BY <2>1, TInvFacts, KeyFacts
  <2> QED BY <2>2, <2>3, <2>4, <1>12, TInvFacts
<1>14. ASSUME NEW c \in CPU, r.running[c] # None
       PROVE  r.nextHit <= r.prevHit + r.execTime[r.running[c]]
  <2>1. /\ r.running = rtsys.running /\ r.execTime = rtsys.execTime
        /\ r.prevHit = rtsys.prevHit
    BY <1>3, <1>8, <1>9 DEF SameWork
  <2>2. rtsys.nextHit <= rtsys.prevHit + rtsys.execTime[rtsys.running[c]]
    BY <2>1, <1>1, <1>14 DEF TInv, Timely, Punctual
  <2>3. rtsys.execTime[rtsys.running[c]] \in Int
    BY <2>1, <1>14, TInvFacts, RecordFields
  <2> QED BY <2>1, <2>2, <2>3, <1>12, TInvFacts
<1> QED BY <1>1, <1>11, <1>13, <1>14 DEF TimelyNext, Timely, Punctual

\* charging the elapsed time to the running task
LEMMA ChargeWorks ==
  ASSUME NEW s, Neat(s), NEW t \in Task, timeElapsed \in Nat, NEW r, r = Charge(s, t)
  PROVE  /\ Works(s, r, t, {}) /\ r \in RTsysType
         /\ r.running = s.running /\ r.segment = s.segment /\ r.nextSegment = s.nextSegment
         /\ r.execTime[t] = s.execTime[t] - timeElapsed
         /\ r.nbrInvocations = s.nbrInvocations /\ r.absDeadline = s.absDeadline
         /\ t \in UserTask => r.budget[t] = s.budget[t] - timeElapsed
<1> DEFINE st == [s.state EXCEPT ![t] = IF s.state[t] = "RUNNING" THEN "READY" ELSE s.state[t]]
           ex == [s.execTime EXCEPT ![t] = s.execTime[t] - timeElapsed]
           bu == IF t \in UserTask THEN [s.budget EXCEPT ![t] = s.budget[t] - timeElapsed]
                 ELSE s.budget
<1>1. s \in RTsysType
  BY DEF Neat
<1>2. r = [s EXCEPT !.state = st, !.execTime = ex, !.budget = bu]
  <2>1. CASE t \in UserTask
    BY <1>1, <2>1 DEF Charge, RTsysType
  <2>2. CASE t \notin UserTask
    BY <1>1, <2>2 DEF Charge, RTsysType
  <2> QED BY <2>1, <2>2
<1>3. st \in [Task -> State]
  BY <1>1, RecordFields DEF State
<1>4. /\ ex \in [Task -> Int] /\ ex[t] = s.execTime[t] - timeElapsed
      /\ \A u \in Task : u # t => ex[u] = s.execTime[u]
  BY <1>1, RecordFields
<1>5. /\ bu \in [UserTask -> Int]
      /\ t \in UserTask => bu[t] = s.budget[t] - timeElapsed
      /\ \A u \in UserTask : u # t => bu[u] = s.budget[u]
  BY <1>1, RecordFields
<1> HIDE DEF st, ex, bu
<1>6. /\ r \in RTsysType /\ r.execTime = ex /\ r.budget = bu
      /\ r.readyQ = s.readyQ /\ r.timeQ = s.timeQ /\ r.running = s.running
      /\ r.expiry = s.expiry /\ r.release = s.release /\ SameClock(s, r)
      /\ r.segment = s.segment /\ r.nextSegment = s.nextSegment
      /\ r.nbrInvocations = s.nbrInvocations /\ r.absDeadline = s.absDeadline
  BY <1>1, <1>2, <1>3, <1>4, <1>5 DEF RTsysType, SameClock
<1>7. Neat(r) /\ SameTimers(s, r, {})
  BY <1>6, KeepNeat
<1> QED BY <1>4, <1>5, <1>6, <1>7 DEF Works, SameClock

LEMMA SameDeadlineTimed ==
  ASSUME NEW s, NEW r, NEW t \in UserTask, NEW T, SameTimers(s, r, T), DLTimer(t) \notin T,
         r.time = s.time, r.nbrInvocations[t] = s.nbrInvocations[t],
         r.absDeadline[t] = s.absDeadline[t]
  PROVE  DeadlineTimed(r, t) <=> DeadlineTimed(s, t)
<1>1. /\ DLTimer(t) \in ToSet(r.timeQ) <=> DLTimer(t) \in ToSet(s.timeQ)
      /\ Wakeup(r, DLTimer(t)) = Wakeup(s, DLTimer(t))
  BY TimersOfTasks DEF SameTimers
<1> QED BY <1>1 DEF DeadlineTimed

\* work on a task whose deadline timer it leaves alone
LEMMA UntimedWorkOrderly ==
  ASSUME NEW s, NEW r, NEW t \in Task, NEW T, Orderly(s), Works(s, r, t, T),
         T \subseteq Own(t), DLTimer(t) \notin T, Progressing(r, t),
         r.nbrInvocations = s.nbrInvocations, r.absDeadline = s.absDeadline
  PROVE  Orderly(r)
<1>1. Works(s, r, t, Own(t))
  BY DEF Works, SameTimers
<1>2. "ttSetAbsDeadline" \notin Primitives /\ t \in UserTask => DeadlineTimed(r, t)
  BY SameDeadlineTimed DEF Orderly, Works
<1> QED BY <1>1, <1>2, WorksOrderly

LEMMA CurrentFacts ==
  ASSUME TInv, Current # None
  PROVE  /\ Current \in Task /\ rtsys.running[rtsys.currentCPU] = Current
         /\ \A b \in CPU : rtsys.currentCPU < b => rtsys.running[b] # Current
         /\ Progressing(rtsys, Current)
<1>1. Current \in Task /\ rtsys.running[rtsys.currentCPU] = Current
  BY CurrentIsActive DEF KernelInv, TInv, Current
<1>2. Placed(rtsys, Task) /\ rtsys.currentCPU \in CPU /\ rtsys.currentCPU \in Int
  BY TInvFacts DEF Neat, CPU
<1>3. ASSUME NEW b \in CPU, rtsys.currentCPU < b PROVE rtsys.running[b] # Current
  <2>1. Affinity[Current] = rtsys.currentCPU
    BY <1>1, <1>2 DEF Placed
  <2>2. rtsys.running[b] = Current => Affinity[Current] = b
    BY <1>2 DEF Placed
  <2> QED BY <1>2, <1>3, <2>1, <2>2
<1> QED BY <1>1, <1>3, TInvFacts DEF Orderly

LEMMA SkipCPUTimely ==
  ASSUME TInv, SkipCPU
  PROVE  TimelyNext
<1>1. NextCPU(rtsys) /\ timeElapsed' = timeElapsed /\ pc = "count"
  BY DEF SkipCPU
<1>2. rtsys.time = rtsys.prevHit /\ Uncharged(rtsys, timeElapsed, rtsys.currentCPU)
  BY <1>1 DEF TInv, Timely
<1> QED BY <1>1, <1>2, TInvFacts, NextCPUTimely

LEMMA CountDownTimely ==
  ASSUME TInv, CountDown
  PROVE  TimelyNext
<1> DEFINE t == Current
           s == Charge(rtsys, t)
<1>1. /\ NextCPU(s) /\ timeElapsed' = timeElapsed /\ pc = "count"
      /\ t # None /\ rtsys.execTime[t] > timeElapsed
  BY DEF CountDown
<1>2. /\ t \in Task /\ \A b \in CPU : rtsys.currentCPU < b => rtsys.running[b] # t
      /\ Progressing(rtsys, t)
  BY <1>1, CurrentFacts
<1>3. rtsys.time = rtsys.prevHit /\ Uncharged(rtsys, timeElapsed, rtsys.currentCPU)
  BY <1>1 DEF TInv, Timely
<1> HIDE DEF t
<1>4. /\ Works(rtsys, s, t, {}) /\ s \in RTsysType
      /\ s.running = rtsys.running /\ s.segment = rtsys.segment
      /\ s.nextSegment = rtsys.nextSegment
      /\ s.execTime[t] = rtsys.execTime[t] - timeElapsed
      /\ s.nbrInvocations = rtsys.nbrInvocations /\ s.absDeadline = rtsys.absDeadline
  BY <1>2, TInvFacts, ChargeWorks
<1> HIDE DEF s
<1>5. rtsys.execTime[t] \in Int
  BY <1>2, TInvFacts, RecordFields
<1>6. Progressing(s, t)
  BY <1>1, <1>2, <1>4, <1>5, TInvFacts DEF Progressing
<1>7. Orderly(s)
  BY <1>2, <1>4, <1>6, TInvFacts, UntimedWorkOrderly
<1>8. s.currentCPU = rtsys.currentCPU /\ Neat(s) /\ s.time = s.prevHit
  BY <1>3, <1>4 DEF Works
<1>9. Uncharged(s, timeElapsed, s.currentCPU)
  BY <1>2, <1>3, <1>4, <1>8, TInvFacts, WorksUncharged
<1> QED BY <1>1, <1>4, <1>7, <1>8, <1>9, NextCPUTimely

LEMMA StartSegmentTimely ==
  ASSUME TInv, StartSegment
  PROVE  TimelyNext
<1> DEFINE t == Current
           s == Charge(rtsys, t)
           sg == [s.segment EXCEPT ![t] = s.nextSegment[t]]
           ns == [s.nextSegment EXCEPT ![t] = s.nextSegment[t] + 1]
           r == [s EXCEPT !.segment = sg, !.nextSegment = ns]
<1>1. /\ t # None /\ pc = "count" /\ pc' = "segment" /\ timeElapsed' = timeElapsed
      /\ rtsys' = [s EXCEPT !.segment[t] = s.nextSegment[t],
                            !.nextSegment[t] = s.nextSegment[t] + 1]
  BY DEF StartSegment
<1>2. /\ t \in Task /\ rtsys.running[rtsys.currentCPU] = t
      /\ \A b \in CPU : rtsys.currentCPU < b => rtsys.running[b] # t
      /\ Progressing(rtsys, t)
  BY <1>1, CurrentFacts
<1>3. /\ rtsys.time = rtsys.prevHit /\ Uncharged(rtsys, timeElapsed, rtsys.currentCPU)
      /\ rtsys.execTime[t] >= timeElapsed
  BY <1>1, <1>2 DEF TInv, Timely
<1> HIDE DEF t
<1>4. /\ Works(rtsys, s, t, {}) /\ s \in RTsysType
      /\ s.running = rtsys.running /\ s.nextSegment = rtsys.nextSegment
      /\ s.execTime[t] = rtsys.execTime[t] - timeElapsed
      /\ s.nbrInvocations = rtsys.nbrInvocations /\ s.absDeadline = rtsys.absDeadline
  BY <1>2, TInvFacts, ChargeWorks
<1> HIDE DEF s
<1>5. rtsys.execTime[t] \in Int /\ s.nextSegment[t] \in Nat
      /\ s.segment \in [Task -> Nat] /\ s.nextSegment \in [Task -> Nat]
  BY <1>2, <1>4, TInvFacts, RecordFields
<1>6. /\ sg \in [Task -> Nat] /\ ns \in [Task -> Nat]
      /\ sg[t] = s.nextSegment[t] /\ ns[t] = s.nextSegment[t] + 1
      /\ \A u \in Task : u # t => sg[u] = s.segment[u] /\ ns[u] = s.nextSegment[u]
  BY <1>2, <1>5
<1>7. rtsys' = r
  BY <1>1, <1>4 DEF RTsysType
<1> HIDE DEF sg, ns
<1>8. /\ r \in RTsysType /\ r.segment = sg /\ r.nextSegment = ns /\ SameClock(s, r)
      /\ r.readyQ = s.readyQ /\ r.timeQ = s.timeQ /\ r.running = s.running
      /\ r.expiry = s.expiry /\ r.release = s.release /\ r.execTime = s.execTime
      /\ r.nbrInvocations = s.nbrInvocations /\ r.absDeadline = s.absDeadline
      /\ r.budget = s.budget
  BY <1>4, <1>6 DEF RTsysType, SameClock
<1> HIDE DEF r
<1>9. Neat(r) /\ SameTimers(s, r, {})
  BY <1>4, <1>8, KeepNeat DEF Works
<1>10. Works(s, r, t, {})
  BY <1>6, <1>8, <1>9 DEF Works, SameClock
<1>11. Works(rtsys, r, t, {})
  BY <1>1, <1>4, <1>10, WorksTransitive
<1>12. Progressing(r, t) /\ r.segment[t] >= 1
  BY <1>2, <1>3, <1>4, <1>5, <1>6, <1>8, TInvFacts DEF Progressing
<1>13. Orderly(r)
  BY <1>2, <1>4, <1>8, <1>11, <1>12, TInvFacts, UntimedWorkOrderly
<1>14. r.currentCPU = rtsys.currentCPU /\ r.time = r.prevHit
  BY <1>3, <1>11 DEF Works
<1>15. Uncharged(r, timeElapsed, r.currentCPU)
  BY <1>2, <1>3, <1>11, <1>14, TInvFacts, WorksUncharged
<1>16. r.running[r.currentCPU] = t
  BY <1>2, <1>4, <1>8, <1>14
<1> QED BY <1>1, <1>7, <1>12, <1>13, <1>14, <1>15, <1>16 DEF TimelyNext, Timely

LEMMA SegmentFacts ==
  ASSUME TInv, pc = "segment"
  PROVE  /\ Current \in Task /\ Current # None /\ rtsys.segment[Current] >= 1
         /\ rtsys.running[rtsys.currentCPU] = Current
         /\ \A b \in CPU : rtsys.currentCPU < b => rtsys.running[b] # Current
         /\ Progressing(rtsys, Current)
         /\ rtsys.time = rtsys.prevHit
         /\ Uncharged(rtsys, timeElapsed, rtsys.currentCPU)
<1>1. Current # None
  BY DEF TInv, KernelInv, IInv, Consistent, Current
<1>2. /\ rtsys.time = rtsys.prevHit
      /\ Uncharged(rtsys, timeElapsed, rtsys.currentCPU)
      /\ rtsys.segment[Current] >= 1
  BY DEF TInv, Timely, Current
<1> QED BY <1>1, <1>2, CurrentFacts

LEMMA AbortTimely ==
  ASSUME TInv, pc # "idle", pc' = "aborted", rtsys' = rtsys
  PROVE  TimelyNext
  BY DEF TInv, Timely, TimelyNext

\* a primitive that works on t, the running task or one that runs nowhere
LEMMA CallTimely ==
  ASSUME TInv, NEW primitive, Calling(primitive), pc' = pc,
         NEW t \in Task, Works(rtsys, rtsys', t, Own(t)), rtsys'.running = rtsys.running,
         SameCode(rtsys, rtsys', t) \/ \A b \in CPU : rtsys.running[b] # t,
         Orderly(rtsys'), rtsys'.segment[Current] >= 1
  PROVE  TimelyNext
<1>1. pc = "segment" /\ pc' = "segment" /\ timeElapsed' = timeElapsed
  BY DEF Calling
<1>2. /\ rtsys'.currentCPU = rtsys.currentCPU
      /\ rtsys'.time = rtsys.time /\ rtsys'.prevHit = rtsys.prevHit
  BY DEF Works
<1>3. Uncharged(rtsys', timeElapsed, rtsys.currentCPU)
  <2>1. SameCode(rtsys, rtsys', t)
          \/ \A b \in CPU : rtsys.currentCPU < b => rtsys.running[b] # t
    OBVIOUS
  <2> QED BY <1>1, <2>1, TInvFacts, SegmentFacts, WorksUncharged
<1>4. rtsys'.segment[rtsys'.running[rtsys'.currentCPU]] >= 1
  BY <1>2 DEF Current
<1> QED BY <1>1, <1>2, <1>3, <1>4, SegmentFacts DEF TimelyNext, Timely

\* the same when neither the code of t nor that of any other task changes
LEMMA SameCodeTimely ==
  ASSUME TInv, NEW primitive, Calling(primitive), pc' = pc,
         NEW t \in Task, Works(rtsys, rtsys', t, Own(t)), SameCode(rtsys, rtsys', t),
         "ttSetAbsDeadline" \notin Primitives /\ t \in UserTask => DeadlineTimed(rtsys', t)
  PROVE  TimelyNext
<1>1. Progressing(rtsys', t)
  BY TInvFacts DEF Orderly, Progressing, SameCode
<1>2. Orderly(rtsys')
  BY <1>1, TInvFacts, WorksOrderly
<1>3. rtsys'.segment[Current] >= 1
  <2>1. rtsys'.segment[Current] = rtsys.segment[Current]
    BY SegmentFacts DEF Calling, SameCode, Works
  <2> QED BY <2>1, SegmentFacts DEF Calling
<1>4. rtsys'.running = rtsys.running
  BY DEF SameCode
<1> QED BY <1>2, <1>3, <1>4, CallTimely

LEMMA CreateJobTimely ==
  ASSUME TInv, NEW t \in UserTask, CreateJob(t)
  PROVE  TimelyNext
<1>1. Calling("ttCreateJob") /\ rtsys' = InvokeUserTask(rtsys, t) /\ pc' = pc
  BY DEF CreateJob
<1>2. /\ Works(rtsys, rtsys', t, Own(t)) /\ SameCode(rtsys, rtsys', t)
      /\ DeadlineTimed(rtsys, t) => DeadlineTimed(rtsys', t)
  BY <1>1, TInvFacts, InvokeUserTaskWorks
<1> QED BY <1>1, <1>2, TInvFacts, TaskSorts, SameCodeTimely DEF Orderly

LEMMA KillJobTimely ==
  ASSUME TInv, NEW t \in UserTask, KillJob(t), NbrOfCPUs = 1
  PROVE  TimelyNext
<1>1. Calling("ttKillJob") /\ pc = "segment" /\ "ttKillJob" \in Primitives
  BY DEF KillJob, Calling
<1>2. CASE rtsys.nbrInvocations[t] = 0 \/ t = Current
  BY <1>1, <1>2, AbortTimely DEF KillJob, Abort
<1>3. CASE ~ (rtsys.nbrInvocations[t] = 0 \/ t = Current)
  <2>1. rtsys' = KilledJob(rtsys, t) /\ pc' = pc
    BY <1>3 DEF KillJob
  <2>2. rtsys.nbrInvocations[t] > 0
    BY <1>3, TInvFacts, AtRest
  <2>3. \A c \in CPU : rtsys.running[c] # t
    <3>1. CPU = {0}
      BY DEF CPU
    <3> QED BY <1>3, <3>1, TInvFacts DEF Current
  <2>4. rtsys' \in RTsysType
    BY <1>1, <2>1, <2>2, <2>3, TInvFacts, KilledJobFacts DEF Sound
  <2>5. /\ Works(rtsys, rtsys', t, Own(t)) /\ DeadlineTimed(rtsys', t)
        /\ rtsys'.running = rtsys.running
        /\ rtsys'.execTime[t] = 0 /\ rtsys'.segment[t] = 0
        /\ rtsys'.nextSegment[t] = rtsys.nextSegment[t]
    BY <2>1, <2>2, <2>4, TInvFacts, KilledJobWorks
  <2>6. t \in Task
    BY TaskSorts
  <2>7. Progressing(rtsys', t)
    BY <1>1, <2>5, <2>6, TInvFacts DEF Orderly, Progressing
  <2>8. Orderly(rtsys')
    BY <2>5, <2>6, <2>7, TInvFacts, WorksOrderly
  <2>9. rtsys'.segment[Current] >= 1
    <3>1. rtsys'.segment[Current] = rtsys.segment[Current]
      BY <1>1, <1>3, <2>5, SegmentFacts DEF Works
    <3> QED BY <1>1, <3>1, SegmentFacts
  <2> QED BY <1>1, <2>1, <2>3, <2>5, <2>6, <2>8, <2>9, CallTimely
<1> QED BY <1>2, <1>3

LEMMA SleepUntilTimely ==
  ASSUME TInv, NEW d \in SleepTimes, SleepUntil(rtsys.time + d)
  PROVE  TimelyNext
<1> DEFINE time == rtsys.time + d
           t == Current
<1>1. Calling("ttSleepUntil") /\ pc = "segment"
  BY DEF SleepUntil, Calling
<1>2. CASE t \in Handler
  BY <1>1, <1>2, AbortTimely DEF SleepUntil, Abort
<1>3. CASE t \notin Handler
  <2>1. t \in UserTask /\ t \in Task
    BY <1>1, <1>3, SegmentFacts, TaskSorts
  <2>2. time \in Int
    BY TInvFacts, BoundsAssumption DEF BoundsAssumption
  <2>3. pc' = pc /\ rtsys' = IF time <= rtsys.time THEN rtsys ELSE SleepingTask(rtsys, t, time)
    BY <1>3 DEF SleepUntil, SleepingTask
  <2> HIDE DEF t, time
  <2>4. Moves(rtsys, rtsys', {t, WCETTimer(t)})
    <3>1. CASE time <= rtsys.time
      <4>1. Moves(rtsys, rtsys, {t, WCETTimer(t)})
        BY TInvFacts, MovesNothing
      <4> QED BY <2>3, <3>1, <4>1
    <3>2. CASE ~ (time <= rtsys.time)
      BY <2>1, <2>2, <2>3, <3>2, TInvFacts, SleepMoves
    <3> QED BY <3>1, <3>2
  <2>5. Works(rtsys, rtsys', t, Own(t)) /\ SameCode(rtsys, rtsys', t)
    <3>1. {t, WCETTimer(t)} \subseteq Own(t)
      BY <2>1, TimersOfTasks DEF Own
    <3>2. Moves(rtsys, rtsys', Own(t))
      BY <2>4, <3>1, MovesMore
    <3> QED BY <3>2, MovesIsWork
  <2>6. DLTimer(t) \notin {t, WCETTimer(t)}
    BY <2>1, TimersOfTasks
  <2>7. "ttSetAbsDeadline" \notin Primitives => DeadlineTimed(rtsys', t)
    BY <2>1, <2>4, <2>6, TInvFacts, MovesDeadlineTimed DEF Orderly
  <2> QED BY <1>1, <2>1, <2>3, <2>5, <2>7, SameCodeTimely
<1> QED BY <1>2, <1>3

LEMMA SetAbsDeadlineTimely ==
  ASSUME TInv, NEW t \in UserTask, NEW e \in NewDeadlines, SetAbsDeadline(t, rtsys.time + e)
  PROVE  TimelyNext
<1> DEFINE time == rtsys.time + e
<1>1. Calling("ttSetAbsDeadline") /\ pc = "segment" /\ "ttSetAbsDeadline" \in Primitives
  BY DEF SetAbsDeadline, Calling
<1>2. CASE rtsys.nbrInvocations[t] = 0
  BY <1>1, <1>2, AbortTimely DEF SetAbsDeadline, Abort
<1>3. CASE rtsys.nbrInvocations[t] # 0
  <2>1. pc' = pc /\ rtsys' = Rearranged(rtsys, t, time)
    BY <1>3 DEF SetAbsDeadline, Rearranged
  <2>2. time \in Int
    BY TInvFacts, BoundsAssumption DEF BoundsAssumption
  <2> HIDE DEF time
  <2>3. Works(rtsys, rtsys', t, Own(t)) /\ SameCode(rtsys, rtsys', t)
    BY <2>1, <2>2, TInvFacts, RearrangedWorks
  <2> QED BY <1>1, <2>1, <2>3, TaskSorts, SameCodeTimely
<1> QED BY <1>2, <1>3

LEMMA SetNextSegmentTimely ==
  ASSUME TInv, NEW seg \in 0 .. MaxSegment, SetNextSegment(seg)
  PROVE  TimelyNext
<1>1. Calling("ttSetNextSegment") /\ pc = "segment" /\ timeElapsed' = timeElapsed
  BY DEF SetNextSegment, Calling
<1>2. CASE ~ (seg > 0)
  BY <1>1, <1>2, AbortTimely DEF SetNextSegment, Abort
<1>3. CASE seg > 0
  <2> DEFINE t == Current
             ns == [rtsys.nextSegment EXCEPT ![t] = seg]
             r == [rtsys EXCEPT !.nextSegment = ns]
  <2>1. rtsys' = r /\ pc' = pc
    BY <1>3, TInvFacts DEF SetNextSegment, RTsysType
  <2>2. /\ t \in Task /\ rtsys.segment[t] >= 1 /\ Progressing(rtsys, t)
        /\ rtsys.running[rtsys.currentCPU] = t
        /\ rtsys.time = rtsys.prevHit /\ Uncharged(rtsys, timeElapsed, rtsys.currentCPU)
    BY <1>1, SegmentFacts
  <2>3. seg \in Nat /\ rtsys.segment[t] \in Nat
    BY <2>2, TInvFacts, RecordFields, BoundsAssumption DEF BoundsAssumption
  <2> HIDE DEF t
  <2>4. /\ ns \in [Task -> Nat] /\ ns[t] = seg
        /\ \A u \in Task : u # t => ns[u] = rtsys.nextSegment[u]
    BY <2>2, <2>3, TInvFacts, RecordFields
  <2> HIDE DEF ns
  <2>5. /\ r \in RTsysType /\ r.nextSegment = ns /\ SameClock(rtsys, r)
        /\ r.readyQ = rtsys.readyQ /\ r.timeQ = rtsys.timeQ /\ r.running = rtsys.running
        /\ r.expiry = rtsys.expiry /\ r.release = rtsys.release
        /\ r.execTime = rtsys.execTime /\ r.segment = rtsys.segment
        /\ r.nbrInvocations = rtsys.nbrInvocations
        /\ r.absDeadline = rtsys.absDeadline /\ r.budget = rtsys.budget
    BY <2>4, TInvFacts DEF RTsysType, SameClock
  <2> HIDE DEF r
  <2>6. Neat(r) /\ SameTimers(rtsys, r, {})
    BY <2>5, TInvFacts, KeepNeat
  <2>7. Works(rtsys, r, t, {})
    BY <2>4, <2>5, <2>6 DEF Works, SameClock
  <2>8. Progressing(r, t)
    BY <1>3, <2>2, <2>3, <2>4, <2>5 DEF Progressing
  <2>9. Orderly(r)
    BY <2>2, <2>5, <2>7, <2>8, TInvFacts, UntimedWorkOrderly
  <2>10. Uncharged(r, timeElapsed, r.currentCPU)
    BY <2>2, <2>5 DEF Uncharged, SameClock
  <2> QED BY <1>1, <2>1, <2>2, <2>5, <2>9, <2>10 DEF TimelyNext, Timely, SameClock
<1> QED BY <1>2, <1>3

LEMMA SegmentReturnsTimely ==
  ASSUME TInv, NEW e \in ExecTimes \cup {ContextSwitchTime}, SegmentReturns(e)
  PROVE  TimelyNext
<1> DEFINE t == Current
           ex == [rtsys.execTime EXCEPT ![t] = e]
           r == [rtsys EXCEPT !.execTime = ex]
<1>1. /\ NextCPU([rtsys EXCEPT !.execTime[t] = e]) /\ pc = "segment"
      /\ timeElapsed' = timeElapsed
  BY DEF SegmentReturns
<1>2. /\ t \in Task /\ Progressing(rtsys, t)
      /\ \A b \in CPU : rtsys.currentCPU < b => rtsys.running[b] # t
      /\ rtsys.time = rtsys.prevHit /\ Uncharged(rtsys, timeElapsed, rtsys.currentCPU)
  BY <1>1, SegmentFacts
<1>3. e \in Nat
  BY BoundsAssumption, AttributesAssumption DEF BoundsAssumption, AttributesAssumption
<1> HIDE DEF t
<1>4. /\ [rtsys EXCEPT !.execTime[t] = e] = r
      /\ ex \in [Task -> Int] /\ ex[t] = e
      /\ \A u \in Task : u # t => ex[u] = rtsys.execTime[u]
  BY <1>2, <1>3, TInvFacts, RecordFields DEF RTsysType
<1>5. NextCPU(r)
  BY <1>1, <1>4
<1> HIDE DEF ex
<1>6. /\ r \in RTsysType /\ r.execTime = ex /\ SameClock(rtsys, r)
      /\ r.readyQ = rtsys.readyQ /\ r.timeQ = rtsys.timeQ /\ r.running = rtsys.running
      /\ r.expiry = rtsys.expiry /\ r.release = rtsys.release
      /\ r.segment = rtsys.segment /\ r.nextSegment = rtsys.nextSegment
      /\ r.nbrInvocations = rtsys.nbrInvocations
      /\ r.absDeadline = rtsys.absDeadline /\ r.budget = rtsys.budget
  BY <1>4, TInvFacts DEF RTsysType, SameClock
<1> HIDE DEF r
<1>7. Neat(r) /\ SameTimers(rtsys, r, {})
  BY <1>6, TInvFacts, KeepNeat
<1>8. Works(rtsys, r, t, {})
  BY <1>4, <1>6, <1>7 DEF Works, SameClock
<1>9. Progressing(r, t)
  BY <1>2, <1>3, <1>4, <1>6 DEF Progressing
<1>10. Orderly(r)
  BY <1>2, <1>6, <1>8, <1>9, TInvFacts, UntimedWorkOrderly
<1>11. r.currentCPU = rtsys.currentCPU /\ r.time = r.prevHit
  BY <1>2, <1>6 DEF SameClock
<1>12. Uncharged(r, timeElapsed, r.currentCPU)
  BY <1>2, <1>8, <1>11, TInvFacts, WorksUncharged
<1> QED BY <1>1, <1>5, <1>6, <1>7, <1>10, <1>11, <1>12, NextCPUTimely

LEMMA JobFinishesTimely ==
  ASSUME TInv, JobFinishes
  PROVE  TimelyNext
<1> DEFINE t == Current
           r == ReleasePending(EndJob(rtsys, t), t)
<1>1. NextCPU(r) /\ pc = "segment" /\ timeElapsed' = timeElapsed
  BY DEF JobFinishes
<1>2. /\ t \in Task /\ rtsys.running[rtsys.currentCPU] = t
      /\ \A b \in CPU : rtsys.currentCPU < b => rtsys.running[b] # t
      /\ rtsys.time = rtsys.prevHit /\ Uncharged(rtsys, timeElapsed, rtsys.currentCPU)
  BY <1>1, SegmentFacts
<1> HIDE DEF t
<1>3. /\ Works(rtsys, r, t, Own(t))
      /\ r.execTime[t] = 0 /\ r.segment[t] = 0 /\ r.nextSegment[t] = 1
      /\ t \in UserTask => DeadlineTimed(r, t)
  BY <1>2, TInvFacts, FinishWorks
<1> HIDE DEF r
<1>4. Progressing(r, t)
  BY <1>3 DEF Progressing
<1>5. Orderly(r)
  BY <1>2, <1>3, <1>4, TInvFacts, WorksOrderly
<1>6. /\ r.currentCPU = rtsys.currentCPU /\ r.time = r.prevHit
      /\ Neat(r) /\ r \in RTsysType
  BY <1>2, <1>3 DEF Works, Neat
<1>7. Uncharged(r, timeElapsed, r.currentCPU)
  BY <1>2, <1>3, <1>6, TInvFacts, WorksUncharged
<1> QED BY <1>1, <1>5, <1>6, <1>7, NextCPUTimely

LEMMA FinishBlockedTimely ==
  ASSUME TInv, FinishBlocked
  PROVE  TimelyNext
  BY AbortTimely DEF FinishBlocked, Abort

\* moving entries leaves it to check the deadline timers that were moved
LEMMA MovesOrderly ==
  ASSUME NEW s, NEW r, NEW T, Orderly(s), Moves(s, r, T),
         "ttSetAbsDeadline" \notin Primitives =>
           \A u \in UserTask : DLTimer(u) \in T => DeadlineTimed(r, u)
  PROVE  Orderly(r)
<1>1. \A t \in Task : Progressing(r, t)
  BY DEF Orderly, Moves, SameWork, Progressing
<1>2. "ttSetAbsDeadline" \notin Primitives => \A u \in UserTask : DeadlineTimed(r, u)
  BY MovesDeadlineTimed DEF Orderly
<1> QED BY <1>1, <1>2 DEF Orderly, Moves, Neat

\* a periodic timer is queued again for its next expiry
LEMMA AdvanceMoves ==
  ASSUME NEW s, Neat(s), NEW n \in Timer, TimerTask(n) \in Task, NEW time \in Int,
         NEW p, p = [s EXCEPT !.expiry[n] = time], NEW r, r = MoveToTimeQ(p, n)
  PROVE  Moves(s, r, {n})
<1>1. r = Arm(s, n, time)
  BY DEF Arm
<1> QED BY <1>1, ArmMoves

LEMMA TimerExpiresTimely ==
  ASSUME TInv, TimerExpires
  PROVE  TimelyNext
<1> DEFINE x == TimerTask(next)
           s == InvokeTask(rtsys, x)
           time == s.expiry[next] + Period[next[2]]
           p == [s EXCEPT !.expiry[next] = time]
<1>1. /\ pc = "timers" /\ pc' = pc /\ timeElapsed' = timeElapsed
      /\ next \in Timer /\ Wakeup(rtsys, next) <= rtsys.time
      /\ rtsys' = IF IsPeriodic(next) THEN MoveToTimeQ(p, next) ELSE Unlink(s, next)
  BY Zenon DEF TimerExpires, Due
<1>2. x \in Task
  BY <1>1 DEF TInv, KernelInv, IInv, Consistent, Handled
<1>3. /\ Works(rtsys, s, x, Own(x)) /\ SameCode(rtsys, s, x)
      /\ \A u \in UserTask : DeadlineTimed(rtsys, u) => DeadlineTimed(s, u)
  BY <1>2, TInvFacts, InvokeTaskWorks
<1> HIDE DEF x
<1>4. Orderly(s)
  <2>1. Progressing(s, x)
    BY <1>2, <1>3, TInvFacts DEF Orderly, Progressing, SameCode
  <2>2. "ttSetAbsDeadline" \notin Primitives /\ x \in UserTask => DeadlineTimed(s, x)
    BY <1>3, TInvFacts DEF Orderly
  <2> QED BY <1>2, <1>3, <2>1, <2>2, TInvFacts, WorksOrderly
<1>5. Neat(s) /\ s \in RTsysType /\ s.time = rtsys.time /\ s.prevHit = rtsys.prevHit
  BY <1>3 DEF Works, Neat
<1>6. ASSUME NEW u \in UserTask, next = DLTimer(u), "ttSetAbsDeadline" \notin Primitives,
             DLHandler[u] # None, DLTimer(u) \in ToSet(s.timeQ)
      PROVE  s.absDeadline[u] <= s.time
  <2>1. x = DLHandler[u] /\ x \in Handler /\ x \notin UserTask
    BY <1>6, TimerSorts, TaskSorts, AttributesAssumption DEF AttributesAssumption, x
  <2>2. s = InvokeHandler(rtsys, x)
    BY <2>1 DEF InvokeTask
  <2> HIDE DEF s
  <2>3. Moves(rtsys, s, {})
    BY <2>1, <2>2, TInvFacts, InvokeHandlerMoves
  <2>4. Wakeup(s, next) = Wakeup(rtsys, next)
    BY <1>6, <2>3, TimersOfTasks DEF Moves, SameTimers
  <2>5. Wakeup(s, next) = s.absDeadline[u]
    BY <1>4, <1>6 DEF Orderly, DeadlineTimed
  <2> QED BY <1>1, <1>5, <2>4, <2>5
<1>7. CASE IsPeriodic(next)
  <2>1. next[2] \in UserTask
    BY <1>1 DEF Timer
  <2>2. time \in Int
    <3>1. s.expiry[next] \in Int
      BY <1>1, <1>5, RecordFields
    <3>2. Period[next[2]] \in Int
      BY <2>1, AttributesAssumption DEF AttributesAssumption
    <3> QED BY <3>1, <3>2
  <2>3. rtsys' = MoveToTimeQ(p, next)
    BY <1>1, <1>7
  <2>4. TimerTask(next) \in Task
    BY <1>2 DEF x
  <2> HIDE DEF s, time
  <2>5. Moves(s, rtsys', {next})
    BY <1>1, <1>5, <2>2, <2>3, <2>4, AdvanceMoves
  <2>6. \A u \in UserTask : DLTimer(u) # next
    BY <1>7 DEF IsPeriodic, DLTimer
  <2>7. Orderly(rtsys')
    BY <1>4, <2>5, <2>6, MovesOrderly
  <2>8. rtsys'.time = rtsys.time /\ rtsys'.prevHit = rtsys.prevHit
    BY <1>5, <2>5 DEF Moves, SameWork
  <2> QED BY <1>1, <2>7, <2>8 DEF TimelyNext, Timely, TInv
<1>8. CASE ~ IsPeriodic(next)
  <2>1. rtsys' = Unlink(s, next)
    BY <1>1, <1>8
  <2> HIDE DEF s, p
  <2>2. Moves(s, rtsys', {next}) /\ next \notin ToSet(rtsys'.timeQ)
    BY <1>1, <1>5, <2>1, UnlinkMoves
  <2>3. ASSUME NEW u \in UserTask, DLTimer(u) = next, "ttSetAbsDeadline" \notin Primitives
        PROVE  DeadlineTimed(rtsys', u)
    <3> SUFFICES ASSUME DLHandler[u] # None, rtsys'.nbrInvocations[u] > 0
                 PROVE  ~ (rtsys'.absDeadline[u] > rtsys'.time)
      BY <2>2, <2>3 DEF DeadlineTimed
    <3>1. /\ rtsys'.absDeadline[u] = s.absDeadline[u] /\ rtsys'.time = s.time
          /\ rtsys'.nbrInvocations[u] = s.nbrInvocations[u]
      BY <2>2 DEF Moves, SameWork
    <3>2. s.absDeadline[u] \in Int /\ s.time \in Int
      BY <1>5, RecordFields
    <3>3. CASE DLTimer(u) \in ToSet(s.timeQ)
      BY <1>6, <2>3, <3>1, <3>2, <3>3
    <3>4. CASE DLTimer(u) \notin ToSet(s.timeQ)
      BY <1>4, <2>3, <3>1, <3>4 DEF Orderly, DeadlineTimed
    <3> QED BY <3>3, <3>4
  <2>4. Orderly(rtsys')
    BY <1>4, <2>2, <2>3, MovesOrderly
  <2>5. rtsys'.time = rtsys.time /\ rtsys'.prevHit = rtsys.prevHit
    BY <1>5, <2>2 DEF Moves, SameWork
  <2> QED BY <1>1, <2>4, <2>5 DEF TimelyNext, Timely, TInv
<1> QED BY <1>7, <1>8

LEMMA TaskWakesTimely ==
  ASSUME TInv, TaskWakes
  PROVE  TimelyNext
<1>1. /\ pc = "timers" /\ pc' = pc /\ next \in UserTask
      /\ rtsys' = MakeReady(rtsys, next)
  BY DEF TaskWakes
<1>2. Moves(rtsys, rtsys', {next})
  BY <1>1, TInvFacts, TaskSorts, MakeReadyMoves
<1>3. \A u \in UserTask : DLTimer(u) # next
  BY <1>1, TimersOfTasks
<1>4. Orderly(rtsys')
  BY <1>2, <1>3, TInvFacts, MovesOrderly
<1>5. rtsys'.time = rtsys.time /\ rtsys'.prevHit = rtsys.prevHit
  BY <1>2 DEF Moves, SameWork
<1> QED BY <1>1, <1>4, <1>5 DEF TimelyNext, Timely, TInv

LEMMA SetCPUOrderly ==
  ASSUME NEW s, Neat(s), Orderly(s), NEW c \in CPU, NEW r, r = [s EXCEPT !.currentCPU = c]
  PROVE  /\ Orderly(r) /\ r.time = s.time /\ r.prevHit = s.prevHit /\ r.currentCPU = c
         /\ r.running = s.running /\ r.execTime = s.execTime
<1>1. /\ r \in RTsysType /\ r.readyQ = s.readyQ /\ r.timeQ = s.timeQ
      /\ r.running = s.running /\ r.expiry = s.expiry /\ r.release = s.release
      /\ r.execTime = s.execTime /\ r.segment = s.segment /\ r.nextSegment = s.nextSegment
      /\ r.nbrInvocations = s.nbrInvocations /\ r.absDeadline = s.absDeadline
      /\ r.time = s.time /\ r.prevHit = s.prevHit /\ r.currentCPU = c
  BY DEF Neat, RTsysType
<1>2. Key(r) = Key(s) /\ \A n : Wakeup(r, n) = Wakeup(s, n)
  BY <1>1, SameKeys
<1>3. Orderly(r)
  BY <1>1, <1>2 DEF Orderly, Progressing, DeadlineTimed
<1> QED BY <1>1, <1>3

LEMMA ScanEndsTimely ==
  ASSUME TInv, ScanEnds
  PROVE  TimelyNext
<1>1. pc = "timers" /\ pc' = "dispatch" /\ rtsys' = [rtsys EXCEPT !.currentCPU = 0]
  BY DEF ScanEnds
<1>2. 0 \in CPU
  BY AttributesAssumption DEF AttributesAssumption, CPU
<1>3. Orderly(rtsys') /\ rtsys'.time = rtsys.time /\ rtsys'.prevHit = rtsys.prevHit
  BY <1>1, <1>2, TInvFacts, SetCPUOrderly
<1> QED BY <1>1, <1>3 DEF TimelyNext, Timely, TInv

LEMMA BeginsOrderly ==
  ASSUME NEW s, NEW r, Orderly(s), Begins(s, r)
  PROVE  Orderly(r)
<1>1. \A t \in Task : Progressing(r, t)
  BY DEF Orderly, Begins, Progressing
<1> QED BY <1>1 DEF Orderly, Begins, Neat

LEMMA DispatchTimely ==
  ASSUME TInv, Dispatch
  PROVE  TimelyNext
<1> DEFINE c == rtsys.currentCPU
           d == Dispatched(rtsys, c)
<1>1. /\ IF c < NbrOfCPUs - 1
         THEN rtsys' = [d EXCEPT !.currentCPU = d.currentCPU + 1] /\ pc' = pc
         ELSE rtsys' = d /\ pc' = "advance"
      /\ pc = "dispatch"
  BY DEF Dispatch
<1>2. d \in RTsysType /\ Placed(d, Task)
  <2>1. Sound(d, ActiveUsers(d), {})
    BY TInvFacts, DispatchedFacts
  <2> HIDE DEF d
  <2>2. ActiveUsers(d) \cup ActiveHandlers(d) \subseteq Task
    BY TaskSorts DEF ActiveUsers, ActiveHandlers
  <2> QED BY <2>1, <2>2, PlacedMonotone DEF Sound
<1>3. Begins(rtsys, d)
  BY <1>2, TInvFacts, DispatchedBegins
<1> HIDE DEF d
<1>4. Orderly(d) /\ Neat(d)
  BY <1>3, TInvFacts, BeginsOrderly DEF Begins
<1>5. d.time = rtsys.time /\ d.prevHit = rtsys.prevHit /\ d.currentCPU = c
  BY <1>3 DEF Begins, SameClock
<1>6. CASE c < NbrOfCPUs - 1
  <2>1. c + 1 \in CPU
    BY <1>6, TInvFacts, AttributesAssumption DEF AttributesAssumption, CPU
  <2>2. /\ Orderly(rtsys') /\ rtsys'.time = d.time /\ rtsys'.prevHit = d.prevHit
    BY <1>1, <1>4, <1>5, <1>6, <2>1, SetCPUOrderly
  <2> QED BY <1>1, <1>5, <1>6, <2>2 DEF TimelyNext, Timely, TInv
<1>7. CASE ~ (c < NbrOfCPUs - 1)
  BY <1>1, <1>4, <1>5, <1>7 DEF TimelyNext, Timely, TInv
<1> QED BY <1>6, <1>7

LEMMA CandidatesAreTimes ==
  ASSUME rtsys \in RTsysType
  PROVE  Candidates \subseteq Int
<1>1. /\ rtsys.timeQ \in Seq(QItem)
      /\ \A n \in QItem : Wakeup(rtsys, n) \in Int
      /\ rtsys.time \in Int
  BY RecordFields, KeyFacts
<1>2. TimeToWakeup \in Int
  <2>1. rtsys.timeQ # << >> => rtsys.timeQ[1] \in QItem
    BY <1>1, EmptySeq, LenProperties
  <2> QED BY <1>1, <2>1, BoundsAssumption DEF BoundsAssumption, TimeToWakeup
<1>3. ASSUME NEW c \in CPU, rtsys.running[c] # None
      PROVE  rtsys.execTime[rtsys.running[c]] \in Int
  BY <1>3, RecordFields
<1> QED BY <1>2, <1>3 DEF Candidates

LEMMA NextInvocationTimely ==
  ASSUME TInv, NEW timestep \in Candidates, NextInvocation(timestep)
  PROVE  TimelyNext
<1> DEFINE s == [rtsys EXCEPT !.nextHit = rtsys.time + timestep]
<1>1. /\ pc = "advance" /\ pc' = "idle" /\ rtsys' = s /\ timestep > 0
      /\ \A d \in Candidates : timestep <= d
  BY DEF NextInvocation, IsTimestep
<1>2. rtsys.time = rtsys.prevHit
  BY <1>1 DEF TInv, Timely
<1>3. s.nextHit = rtsys.time + timestep
      /\ s.timeQ = rtsys.timeQ /\ s.expiry = rtsys.expiry /\ s.release = rtsys.release
      /\ s.running = rtsys.running /\ s.execTime = rtsys.execTime
      /\ s.segment = rtsys.segment /\ s.nextSegment = rtsys.nextSegment
      /\ s.nbrInvocations = rtsys.nbrInvocations /\ s.absDeadline = rtsys.absDeadline
      /\ s.time = rtsys.time /\ s.prevHit = rtsys.prevHit
  BY TInvFacts DEF RTsysType
<1> HIDE DEF s
<1>4. Key(s) = Key(rtsys) /\ \A n : Wakeup(s, n) = Wakeup(rtsys, n)
  BY <1>3, SameKeys
<1>5. Orderly(s)
  BY <1>3, <1>4, TInvFacts DEF Orderly, Progressing, DeadlineTimed
<1>6. timestep \in Int
  BY TInvFacts, CandidatesAreTimes
<1>7. ASSUME NEW n \in ToSet(rtsys.timeQ)
      PROVE  rtsys.time + timestep <= Wakeup(rtsys, n)
  <2> DEFINE q == rtsys.timeQ
             W == Key(rtsys)
  <2>1. q \in Seq(QItem) /\ W \in [QItem -> Int] /\ InOrder(W, q)
        /\ \A m \in QItem : W[m] = Wakeup(rtsys, m)
    BY TInvFacts, RecordFields, KeyFacts DEF Neat
  <2> HIDE DEF W
  <2>2. PICK i \in 1 .. Len(q) : q[i] = n
    BY <2>1, LenProperties DEF ToSet
  <2>3. Len(q) \in Nat /\ q[1] \in QItem /\ n \in QItem /\ q # << >>
    BY <2>1, <2>2, ElementOfSeq, EmptySeq, LenProperties
  <2>4. W[q[1]] <= W[n]
    BY <2>1, <2>2, <2>3 DEF InOrder
  <2>5. timestep <= Wakeup(rtsys, q[1]) - rtsys.time
    BY <1>1, <2>3 DEF Candidates, TimeToWakeup
  <2>6. W[q[1]] \in Int /\ W[n] \in Int
    BY <2>1, <2>3
  <2> QED BY <1>6, <2>1, <2>3, <2>4, <2>5, <2>6, TInvFacts
<1>8. ASSUME NEW c \in CPU, rtsys.running[c] # None
      PROVE  timestep <= rtsys.execTime[rtsys.running[c]]
  BY <1>1, <1>8 DEF Candidates
<1>9. Punctual(s)
  <2>1. \A n \in ToSet(s.timeQ) : s.nextHit <= Wakeup(s, n)
    BY <1>3, <1>4, <1>7
  <2>2. ASSUME NEW c \in CPU, s.running[c] # None
        PROVE  s.nextHit <= s.prevHit + s.execTime[s.running[c]]
    <3>1. rtsys.execTime[rtsys.running[c]] \in Int
      BY <1>3, <2>2, TInvFacts, RecordFields
    <3>2. timestep <= rtsys.execTime[rtsys.running[c]]
      BY <1>3, <1>8, <2>2
    <3> QED BY <1>2, <1>3, <1>6, <3>1, <3>2, TInvFacts
  <2> QED BY <2>1, <2>2 DEF Punctual
<1> QED BY <1>1, <1>5, <1>9 DEF TimelyNext, Timely

LEMMA AnotherPassTimely ==
  ASSUME TInv, AnotherPass
  PROVE  TimelyNext
<1>1. /\ pc = "advance" /\ timeElapsed' = 0
      /\ IF niter + 1 = MaxIter THEN Abort
         ELSE pc' = "count" /\ rtsys' = [rtsys EXCEPT !.currentCPU = 0]
  BY DEF AnotherPass
<1>2. CASE niter + 1 = MaxIter
  BY <1>1, <1>2, AbortTimely DEF Abort
<1>3. CASE niter + 1 # MaxIter
  <2>1. 0 \in CPU
    BY AttributesAssumption DEF AttributesAssumption, CPU
  <2>2. /\ Orderly(rtsys') /\ rtsys'.time = rtsys.time /\ rtsys'.prevHit = rtsys.prevHit
        /\ rtsys'.running = rtsys.running /\ rtsys'.execTime = rtsys.execTime
        /\ rtsys'.currentCPU = 0
    BY <1>1, <1>3, <2>1, TInvFacts, SetCPUOrderly
  <2>3. ASSUME NEW c \in CPU, rtsys.running[c] # None
        PROVE  rtsys.execTime[rtsys.running[c]] >= 0
    <3>1. rtsys.running[c] \in Task
      BY <2>3, TInvFacts, RecordFields
    <3> QED BY <3>1, TInvFacts DEF Orderly, Progressing
  <2> QED BY <1>1, <1>3, <2>1, <2>2, <2>3 DEF TimelyNext, Timely, Uncharged, TInv
<1> QED BY <1>2, <1>3

-----------------------------------------------------------------------------
(***************************************************************************)
(* The invariant about time holds initially and every step preserves it.   *)
(***************************************************************************)
LEMMA TimelyInit ==
  ASSUME Init
  PROVE  TInv
<1>1. PICK q \in InitialTimeQs : rtsys = InitialRTsys(q)
  BY DEF Init
<1>2. /\ KernelInv /\ rtsys \in RTsysType /\ pc = "idle"
  BY InitialState, IInvFacts DEF Init, KernelInv
<1>3. /\ rtsys.timeQ = q /\ rtsys.running = [c \in CPU |-> None]
      /\ rtsys.segment = [t \in Task |-> 0] /\ rtsys.nextSegment = [t \in Task |-> 1]
      /\ rtsys.execTime = [t \in Task |-> 0] /\ rtsys.nextHit = 0
      /\ rtsys.nbrInvocations = [t \in Task |-> 0]
      /\ rtsys.expiry = [tm \in Timer |-> IF tm[1] = "activation" THEN StartTime[tm[2]] ELSE 0]
  BY <1>1 DEF InitialRTsys
<1>4. q \in Seq(QItem) /\ DOMAIN q = 1 .. Len(q)
  BY InitialTimeQFacts, LenProperties
<1>5. /\ \A i \in 1 .. Len(q) : q[i] \in Started
      /\ \A i, j \in 1 .. Len(q) : i < j => StartTime[q[i][2]] <= StartTime[q[j][2]]
  BY <1>4 DEF InitialTimeQs
<1>6. ASSUME NEW n \in Started
      PROVE  /\ n \in Timer /\ n \in QItem /\ Key(rtsys)[n] = StartTime[n[2]]
             /\ \A u \in UserTask : n # DLTimer(u)
  <2>1. PICK t \in UserTask : n = Activation(t)
    BY <1>6 DEF Started
  <2>2. n \in Timer /\ n \in QItem /\ n[1] = "activation"
    BY <2>1 DEF Activation, Timer, QItem
  <2>3. Wakeup(rtsys, n) = StartTime[n[2]]
    BY <1>3, <2>2 DEF Wakeup
  <2> QED BY <1>2, <2>1, <2>2, <2>3, KeyFacts DEF Activation, DLTimer
<1>7. InOrder(Key(rtsys), rtsys.timeQ)
  BY <1>3, <1>5, <1>6 DEF InOrder
<1>8. \A t \in Task : Progressing(rtsys, t)
  BY <1>3 DEF Progressing
<1>9. \A u \in UserTask : DeadlineTimed(rtsys, u)
  <2>1. \A u \in UserTask : DLTimer(u) \notin ToSet(rtsys.timeQ)
    BY <1>3, <1>4, <1>5, <1>6 DEF ToSet
  <2> QED BY <1>3, <2>1, TaskSorts DEF DeadlineTimed
<1>10. Punctual(rtsys)
  BY <1>3 DEF Punctual
<1> QED BY <1>2, <1>7, <1>8, <1>9, <1>10 DEF TInv, Timely, Orderly

LEMMA TimelyStep ==
  ASSUME "ttKillJob" \in Primitives => NbrOfCPUs = 1, TInv, [Next]_vars
  PROVE  TInv'
<1>1. KernelInv'
  BY KernelInvStep DEF TInv
<1>2. TimelyNext => TInv'
  BY <1>1 DEF TInv, TimelyNext
<1>3. CASE UNCHANGED vars
  <2>1. rtsys' = rtsys /\ pc' = pc /\ timeElapsed' = timeElapsed
    BY <1>3 DEF vars
  <2> QED BY <1>2, <2>1 DEF TInv, TimelyNext
<1>4. CASE RunKernel
  BY <1>2, <1>4, RunKernelTimely
<1>5. CASE \E h \in External, t \in 0 .. MaxTime : Interrupt(h, t)
  BY <1>2, <1>5, InterruptTimely
<1>6. CASE KernelStep
  <2>1. CASE SkipCPU \/ CountDown \/ StartSegment
    BY <1>2, <2>1, SkipCPUTimely, CountDownTimely, StartSegmentTimely
  <2>2. CASE \E t \in UserTask : CreateJob(t)
    BY <1>2, <2>2, CreateJobTimely
  <2>3. CASE \E t \in UserTask : KillJob(t)
    <3>1. NbrOfCPUs = 1
      BY <2>3 DEF KillJob, Calling
    <3> QED BY <1>2, <2>3, <3>1, KillJobTimely
  <2>4. CASE \E d \in SleepTimes : SleepUntil(rtsys.time + d)
    BY <1>2, <2>4, SleepUntilTimely
  <2>5. CASE \E t \in UserTask, e \in NewDeadlines : SetAbsDeadline(t, rtsys.time + e)
    BY <1>2, <2>5, SetAbsDeadlineTimely
  <2>6. CASE \E seg \in 0 .. MaxSegment : SetNextSegment(seg)
    BY <1>2, <2>6, SetNextSegmentTimely
  <2>7. CASE \E e \in ExecTimes \cup {ContextSwitchTime} : SegmentReturns(e)
    BY <1>2, <2>7, SegmentReturnsTimely
  <2>8. CASE JobFinishes \/ FinishBlocked
    BY <1>2, <2>8, JobFinishesTimely, FinishBlockedTimely
  <2>9. CASE TimerExpires \/ TaskWakes \/ ScanEnds
    BY <1>2, <2>9, TimerExpiresTimely, TaskWakesTimely, ScanEndsTimely
  <2>10. CASE Dispatch \/ AnotherPass
    BY <1>2, <2>10, DispatchTimely, AnotherPassTimely
  <2>11. CASE \E timestep \in Candidates : NextInvocation(timestep)
    BY <1>2, <2>11, NextInvocationTimely
  <2> QED BY <1>6, <2>1, <2>2, <2>3, <2>4, <2>5, <2>6, <2>7, <2>8, <2>9, <2>10, <2>11
          DEF KernelStep, RunStep, SegmentCall
<1> QED BY <1>3, <1>4, <1>5, <1>6 DEF Next

LEMMA TimelyInvariant ==
  ASSUME "ttKillJob" \in Primitives => NbrOfCPUs = 1
  PROVE  Spec => []TInv
<1>1. Init => TInv
  BY TimelyInit
<1>2. TInv /\ [Next]_vars => TInv'
  BY TimelyStep
<1> QED BY <1>1, <1>2, PTL DEF Spec

-----------------------------------------------------------------------------
(***************************************************************************)
(* The budget timers, without context switch overhead.                     *)
(***************************************************************************)
\* The budget timer of u is armed only while u runs, for the moment at which
\* the budget is used up once the time owed so far has been charged; a task
\* that runs, has budget left and has not put itself to sleep has it armed.
Budgeted(s, u, owed) ==
  WCETHandler[u] # None =>
    /\ Armed(s, u) => Runs(s, u) /\ Wakeup(s, WCETTimer(u)) = s.prevHit + s.budget[u] - owed
    /\ Runs(s, u) /\ ~ Asleep(s, u) /\ s.budget[u] > 0 => Armed(s, u)
    /\ Runs(s, u) /\ Asleep(s, u) => Wakeup(s, u) > s.time

\* The tasks of the CPUs behind c have not been charged yet.
Budgets(s, elapsed, c) ==
  \A u \in UserTask : Budgeted(s, u, IF c < Affinity[u] THEN elapsed ELSE 0)

\* The tasks that run on the CPUs before c do not sleep.
Awake(s, c) == \A u \in UserTask : Affinity[u] < c /\ Runs(s, u) => ~ Asleep(s, u)

\* Every armed budget timer has still to expire.
Solvent(s) == \A u \in UserTask : WCETHandler[u] # None /\ Armed(s, u) => s.budget[u] > 0

Charged(s, p, elapsed) ==
  /\ p = "count" => Budgets(s, elapsed, s.currentCPU - 1)
  /\ p = "segment" => Budgets(s, elapsed, s.currentCPU)
  /\ p \in {"idle", "timers", "dispatch", "advance"} => Budgets(s, 0, 0)
  /\ p \in {"idle", "advance"} => Awake(s, NbrOfCPUs)
  /\ p = "dispatch" => Awake(s, s.currentCPU)
  /\ p = "idle" => Solvent(s)

BInv == TInv /\ Charged(rtsys, pc, timeElapsed)

ChargedNext == Charged(rtsys', pc', timeElapsed')

LEMMA OnCPU ==
  ASSUME NEW u \in UserTask
  PROVE  /\ Affinity[u] \in CPU /\ Affinity[u] \in Int
         /\ 0 <= Affinity[u] /\ Affinity[u] <= NbrOfCPUs - 1 /\ NbrOfCPUs \in Int
  BY TaskSorts, AttributesAssumption DEF AttributesAssumption, CPU

LEMMA SameBudgeted ==
  ASSUME NEW s, NEW r, NEW u, SameBudget(s, r, u), NEW owed, Budgeted(s, u, owed)
  PROVE  Budgeted(r, u, owed)
  BY DEF SameBudget, Budgeted

\* a task that is on no CPU, with its timer disarmed
LEMMA OutBudgeted ==
  ASSUME NEW r, NEW u, ~ Armed(r, u), ~ Runs(r, u), NEW owed
  PROVE  Budgeted(r, u, owed)
  BY DEF Budgeted

LEMMA OthersBudget ==
  ASSUME NEW s, NEW r, NEW t \in Task, Works(s, r, t, Own(t)), NEW u \in UserTask, u # t
  PROVE  SameBudget(s, r, u)
<1>1. /\ u \in QItem \ Own(t) /\ WCETTimer(u) \in QItem \ Own(t) /\ u # None
      /\ Affinity[u] \in CPU
  BY OwnTimers, TimersOfTasks, OnCPU
<1> QED BY <1>1 DEF Works, SameTimers, SameBudget, Runs, Armed, Asleep

\* Moves of timers other than budget timers change no budget.
LEMMA MovesBudget ==
  ASSUME NEW s, NEW r, NEW T, Moves(s, r, T), NEW u \in UserTask, u \notin T, WCETTimer(u) \notin T
  PROVE  SameBudget(s, r, u)
<1>1. u \in QItem /\ WCETTimer(u) \in QItem
  BY TimersOfTasks
<1> QED BY <1>1 DEF Moves, SameWork, SameTimers, SameBudget, Runs, Armed, Asleep

LEMMA FieldsBudget ==
  ASSUME NEW s, NEW r, r.time = s.time, r.prevHit = s.prevHit, r.budget = s.budget,
         r.running = s.running, r.timeQ = s.timeQ, r.expiry = s.expiry, r.release = s.release,
         NEW u
  PROVE  SameBudget(s, r, u)
  BY DEF SameBudget, Runs, Armed, Asleep, Wakeup

LEMMA SameBudgets ==
  ASSUME NEW s, NEW r, \A u \in UserTask : SameBudget(s, r, u), NEW e, NEW c, Budgets(s, e, c)
  PROVE  Budgets(r, e, c)
  BY SameBudgeted DEF Budgets

\* Work on one task leaves it to check that task.
LEMMA WorksBudgets ==
  ASSUME NEW s, NEW r, NEW t \in Task, Works(s, r, t, Own(t)), NEW e, NEW c, Budgets(s, e, c),
         t \in UserTask => \/ SameBudget(s, r, t)
                           \/ ~ Armed(r, t) /\ ~ Runs(r, t)
  PROVE  Budgets(r, e, c)
<1> SUFFICES ASSUME NEW u \in UserTask
             PROVE  Budgeted(r, u, IF c < Affinity[u] THEN e ELSE 0)
  BY DEF Budgets
<1>1. Budgeted(s, u, IF c < Affinity[u] THEN e ELSE 0)
  BY DEF Budgets
<1>2. CASE u # t
  BY <1>1, <1>2, OthersBudget, SameBudgeted
<1>3. CASE u = t /\ SameBudget(s, r, t)
  BY <1>1, <1>3, SameBudgeted
<1>4. CASE u = t /\ ~ Armed(r, t) /\ ~ Runs(r, t)
  BY <1>4, OutBudgeted
<1> QED BY <1>2, <1>3, <1>4

\* A task without an active job is on no CPU.
LEMMA InactiveIsOut ==
  ASSUME NEW s, Sound(s, ActiveUsers(s), {}), NEW t \in UserTask, s.nbrInvocations[t] = 0
  PROVE  ~ Runs(s, t)
<1>1. t \notin ActiveUsers(s) /\ t \notin ActiveHandlers(s) /\ t # None /\ Affinity[t] \in CPU
  BY TaskSorts, OnCPU DEF ActiveUsers, ActiveHandlers
<1> QED BY <1>1 DEF Sound, Placed, Runs

\* invoke_task: the budget of a new job is its own, but nothing runs it yet
LEMMA InvokedBudgets ==
  ASSUME NEW s, NEW t \in Task, Sound(s, ActiveUsers(s), {}), Neat(s),
         NEW r, r = InvokeTask(s, t), NEW e, NEW c, Budgets(s, e, c)
  PROVE  Budgets(r, e, c)
<1>1. Works(s, r, t, Own(t))
  BY InvokeTaskWorks
<1>2. CASE t \notin UserTask
  BY <1>1, <1>2, WorksBudgets
<1>3. CASE t \in UserTask /\ s.nbrInvocations[t] # 0
  <2>1. r = InvokeUserTask(s, t)
    BY <1>3 DEF InvokeTask
  <2>2. SameBudget(s, r, t)
    BY <1>3, <2>1, InvokeUserTaskWorks
  <2> QED BY <1>1, <2>2, WorksBudgets
<1>4. CASE t \in UserTask /\ s.nbrInvocations[t] = 0
  <2>1. r = InvokeUserTask(s, t)
    BY <1>4 DEF InvokeTask
  <2>2. SameCode(s, r, t) /\ SameTimers(s, r, {t, DLTimer(t)})
    BY <1>4, <2>1, InvokeUserTaskWorks
  <2>3. ~ Runs(s, t)
    BY <1>4, InactiveIsOut
  <2>4. ~ Runs(r, t) /\ (Armed(r, t) <=> Armed(s, t))
    BY <1>4, <2>2, <2>3, TimersOfTasks DEF SameCode, SameTimers, Runs, Armed
  <2> SUFFICES ASSUME NEW u \in UserTask
               PROVE  Budgeted(r, u, IF c < Affinity[u] THEN e ELSE 0)
    BY DEF Budgets
  <2>5. Budgeted(s, u, IF c < Affinity[u] THEN e ELSE 0)
    BY DEF Budgets
  <2>6. CASE u # t
    BY <1>1, <2>5, <2>6, OthersBudget, SameBudgeted
  <2>7. CASE u = t
    BY <2>3, <2>4, <2>5, <2>7 DEF Budgeted
  <2> QED BY <2>6, <2>7
<1> QED BY <1>2, <1>3, <1>4

LEMMA NextCPUCharged ==
  ASSUME NEW s \in RTsysType, Budgets(s, timeElapsed, s.currentCPU), NextCPU(s),
         timeElapsed' = timeElapsed
  PROVE  ChargedNext
<1>1. CASE s.currentCPU < NbrOfCPUs - 1
  <2> DEFINE r == [s EXCEPT !.currentCPU = s.currentCPU + 1]
  <2>1. rtsys' = r /\ pc' = "count"
    BY <1>1 DEF NextCPU
  <2>2. /\ r.currentCPU = s.currentCPU + 1 /\ s.currentCPU \in Int
        /\ r.timeQ = s.timeQ /\ r.running = s.running /\ r.expiry = s.expiry
        /\ r.release = s.release /\ r.budget = s.budget
        /\ r.time = s.time /\ r.prevHit = s.prevHit
    BY RecordFields DEF RTsysType, CPU
  <2> HIDE DEF r
  <2>3. r.currentCPU - 1 = s.currentCPU
    BY <2>2
  <2>4. Budgets(r, timeElapsed, s.currentCPU)
    BY <2>2, FieldsBudget, SameBudgets
  <2> QED BY <2>1, <2>3, <2>4 DEF ChargedNext, Charged
<1>2. CASE ~ (s.currentCPU < NbrOfCPUs - 1)
  <2>1. rtsys' = s /\ pc' = "timers"
    BY <1>2 DEF NextCPU
  <2>2. s.currentCPU \in CPU /\ s.currentCPU \in Int
    BY RecordFields DEF CPU
  <2>3. \A u \in UserTask : ~ (s.currentCPU < Affinity[u])
    BY <1>2, <2>2, OnCPU
  <2>4. Budgets(s, 0, 0)
    BY <2>3 DEF Budgets
  <2> QED BY <2>1, <2>4 DEF ChargedNext, Charged
<1> QED BY <1>1, <1>2

LEMMA BInvFacts ==
  ASSUME BInv
  PROVE  /\ TInv /\ Neat(rtsys) /\ rtsys \in RTsysType
         /\ Sound(rtsys, ActiveUsers(rtsys), {}) /\ rtsys.currentCPU \in CPU
         /\ rtsys.currentCPU \in Int /\ timeElapsed \in Nat
         /\ rtsys.time \in Nat /\ rtsys.prevHit \in Nat /\ rtsys.nextHit \in Nat
  BY TInvFacts DEF BInv, CPU

LEMMA RunKernelCharged ==
  ASSUME BInv, RunKernel
  PROVE  ChargedNext
<1>1. /\ rtsys' = [rtsys EXCEPT !.time = rtsys.nextHit, !.prevHit = rtsys.nextHit,
                                !.currentCPU = 0]
      /\ timeElapsed' = rtsys.nextHit - rtsys.prevHit /\ pc' = "count" /\ pc = "idle"
  BY DEF RunKernel
<1>2. /\ rtsys'.prevHit = rtsys.nextHit /\ rtsys'.currentCPU = 0
      /\ rtsys'.timeQ = rtsys.timeQ /\ rtsys'.running = rtsys.running
      /\ rtsys'.expiry = rtsys.expiry /\ rtsys'.release = rtsys.release
      /\ rtsys'.budget = rtsys.budget
  BY <1>1, BInvFacts DEF RTsysType
<1>3. ASSUME NEW u \in UserTask
      PROVE  Budgeted(rtsys', u, timeElapsed')
  <2>1. Budgeted(rtsys, u, 0)
    BY <1>1 DEF BInv, Charged, Budgets
  <2>2. Runs(rtsys, u) => ~ Asleep(rtsys, u)
    BY <1>1, OnCPU DEF BInv, Charged, Awake
  <2>3. /\ Runs(rtsys', u) <=> Runs(rtsys, u)
        /\ Armed(rtsys', u) <=> Armed(rtsys, u)
        /\ Asleep(rtsys', u) <=> Asleep(rtsys, u)
        /\ Wakeup(rtsys', WCETTimer(u)) = Wakeup(rtsys, WCETTimer(u))
    BY <1>2 DEF Runs, Armed, Asleep, Wakeup
  <2>4. rtsys.budget[u] \in Int
    BY BInvFacts, RecordFields
  <2>5. rtsys.prevHit + rtsys.budget[u] - 0 = rtsys.nextHit + rtsys.budget[u] - timeElapsed'
    BY <1>1, <2>4, BInvFacts
  <2> QED BY <1>2, <2>1, <2>2, <2>3, <2>5 DEF Budgeted
<1>4. Budgets(rtsys', timeElapsed', rtsys'.currentCPU - 1)
  <2>1. \A u \in UserTask : rtsys'.currentCPU - 1 < Affinity[u]
    BY <1>2, OnCPU
  <2> QED BY <1>3, <2>1 DEF Budgets
<1> QED BY <1>1, <1>4 DEF ChargedNext, Charged

LEMMA InterruptCharged ==
  ASSUME BInv, NEW h \in External, NEW t \in 0 .. MaxTime, Interrupt(h, t)
  PROVE  ChargedNext
<1> DEFINE a == [rtsys EXCEPT !.time = t]
           s == InvokeHandler(a, h)
           r == IF s.nbrInvocations[h] = 1 THEN [s EXCEPT !.nextHit = t] ELSE s
<1>1. rtsys' = r /\ pc = "idle" /\ pc' = pc
  BY DEF Interrupt
<1>2. h \in Handler /\ t \in Nat
  BY TasksAssumption, BoundsAssumption DEF TasksAssumption, BoundsAssumption
<1>3. /\ a \in RTsysType
      /\ a.readyQ = rtsys.readyQ /\ a.timeQ = rtsys.timeQ /\ a.running = rtsys.running
      /\ a.expiry = rtsys.expiry /\ a.release = rtsys.release /\ a.budget = rtsys.budget
      /\ a.prevHit = rtsys.prevHit
  BY <1>2, BInvFacts DEF RTsysType
<1> HIDE DEF a
<1>4. Neat(a) /\ SameTimers(rtsys, a, {})
  BY <1>3, BInvFacts, KeepNeat
<1>5. Moves(a, s, {}) /\ s \in RTsysType
  BY <1>2, <1>4, InvokeHandlerMoves DEF Moves, Neat
<1> HIDE DEF s
<1>6. /\ r.timeQ = s.timeQ /\ r.expiry = s.expiry /\ r.release = s.release
      /\ r.running = s.running /\ r.prevHit = s.prevHit /\ r.budget = s.budget
  BY <1>5 DEF RTsysType
<1> HIDE DEF r
<1>7. ASSUME NEW u \in UserTask
      PROVE  /\ Budgeted(r, u, 0)
             /\ Runs(r, u) => ~ Asleep(r, u)
             /\ WCETHandler[u] # None /\ Armed(r, u) => r.budget[u] > 0
  <2>1. /\ Budgeted(rtsys, u, 0)
        /\ Runs(rtsys, u) => ~ Asleep(rtsys, u)
        /\ WCETHandler[u] # None /\ Armed(rtsys, u) => rtsys.budget[u] > 0
    BY <1>1, OnCPU DEF BInv, Charged, Budgets, Awake, Solvent
  <2>2. u \in QItem /\ WCETTimer(u) \in QItem
    BY TimersOfTasks
  <2>3. /\ Runs(r, u) <=> Runs(rtsys, u)
        /\ Armed(r, u) <=> Armed(rtsys, u)
        /\ Asleep(r, u) <=> Asleep(rtsys, u)
        /\ Wakeup(r, WCETTimer(u)) = Wakeup(rtsys, WCETTimer(u))
        /\ r.budget = rtsys.budget /\ r.prevHit = rtsys.prevHit
    BY <1>3, <1>4, <1>5, <1>6, <2>2, SameKeys
       DEF Moves, SameWork, SameTimers, Runs, Armed, Asleep
  <2>4. Budgeted(r, u, 0)
    BY <2>1, <2>3 DEF Budgeted
  <2> QED BY <2>1, <2>3, <2>4
<1>8. Budgets(r, 0, 0) /\ Awake(r, NbrOfCPUs) /\ Solvent(r)
  BY <1>7 DEF Budgets, Awake, Solvent
<1> QED BY <1>1, <1>8 DEF ChargedNext, Charged

\* the task on the CPU at hand is the only user task there
LEMMA OnlyCurrentRuns ==
  ASSUME NEW s, NEW t, s.running[s.currentCPU] = t, NEW u \in UserTask, u # t,
         Affinity[u] = s.currentCPU
  PROVE  ~ Runs(s, u)
  BY DEF Runs

\* Charging the task of the CPU at hand settles what that CPU owes.
LEMMA ChargeBudgets ==
  ASSUME NEW s, Neat(s), NEW t \in Task \cup {None}, s.running[s.currentCPU] = t,
         timeElapsed \in Nat, Budgets(s, timeElapsed, s.currentCPU - 1),
         NEW r, r = IF t = None THEN s ELSE Charge(s, t)
  PROVE  Budgets(r, timeElapsed, s.currentCPU)
<1> DEFINE c == s.currentCPU
<1>1. s \in RTsysType /\ c \in CPU /\ c \in Int
  BY RecordFields DEF Neat, CPU
<1> SUFFICES ASSUME NEW u \in UserTask
             PROVE  Budgeted(r, u, IF c < Affinity[u] THEN timeElapsed ELSE 0)
  BY DEF Budgets
<1>2. Budgeted(s, u, IF c - 1 < Affinity[u] THEN timeElapsed ELSE 0)
  BY DEF Budgets
<1>3. c - 1 < Affinity[u] <=> c < Affinity[u] \/ Affinity[u] = c
  BY <1>1, OnCPU
<1>4. r = s \/ (t \in Task /\ Works(s, r, t, {}) /\ r.running = s.running)
  BY TaskSorts, ChargeWorks
<1>5. u # t => SameBudget(s, r, u)
  <2> HAVE u # t
  <2>1. SameBudget(s, s, u)
    BY DEF SameBudget
  <2>2. CASE r # s
    <3>1. t \in Task
      BY <1>4, <2>2
    <3>2. Works(s, r, t, Own(t))
      BY <1>4, <2>2 DEF Works, SameTimers
    <3> QED BY <3>1, <3>2, OthersBudget
  <2> QED BY <2>1, <2>2
<1>6. CASE Affinity[u] # c
  <2>1. u # t
    <3>1. t \in UserTask => Affinity[t] = c
      BY <1>1, TaskSorts DEF Neat, Placed
    <3> QED BY <1>6, <3>1
  <2> QED BY <1>2, <1>3, <1>5, <1>6, <2>1, SameBudgeted
<1>7. CASE Affinity[u] = c /\ u # t
  <2>1. ~ Runs(s, u)
    BY <1>7, OnlyCurrentRuns
  <2>2. ~ Runs(r, u) /\ (Armed(r, u) <=> Armed(s, u))
    BY <1>5, <1>7, <2>1 DEF SameBudget
  <2> QED BY <1>2, <2>1, <2>2 DEF Budgeted
<1>8. CASE Affinity[u] = c /\ u = t
  <2>1. ~ (c < Affinity[u]) /\ c - 1 < Affinity[u]
    BY <1>1, <1>3, <1>8
  <2>2. Budgeted(s, u, timeElapsed)
    BY <1>2, <2>1
  <2>3. t # None /\ r = Charge(s, t)
    BY <1>8, TaskSorts
  <2>4. /\ Works(s, r, t, {}) /\ r.running = s.running
        /\ r.budget[u] = s.budget[u] - timeElapsed
    BY <1>8, <2>3, TaskSorts, ChargeWorks
  <2>5. u \in QItem /\ WCETTimer(u) \in QItem
    BY TimersOfTasks
  <2>6. /\ Runs(r, u) <=> Runs(s, u)
        /\ Armed(r, u) <=> Armed(s, u)
        /\ Asleep(r, u) <=> Asleep(s, u)
        /\ Wakeup(r, WCETTimer(u)) = Wakeup(s, WCETTimer(u)) /\ Wakeup(r, u) = Wakeup(s, u)
        /\ r.prevHit = s.prevHit /\ r.time = s.time
    BY <2>4, <2>5 DEF Works, SameTimers, Runs, Armed, Asleep
  <2>7. s.budget[u] \in Int /\ s.prevHit \in Nat
    BY <1>1, RecordFields
  <2>8. s.prevHit + s.budget[u] - timeElapsed = r.prevHit + r.budget[u] - 0
    BY <2>4, <2>6, <2>7
  <2>9. r.budget[u] > 0 => s.budget[u] > 0
    BY <2>4, <2>7
  <2>10. Budgeted(r, u, 0)
    BY <2>2, <2>6, <2>8, <2>9 DEF Budgeted
  <2> QED BY <2>1, <2>10
<1> QED BY <1>6, <1>7, <1>8

LEMMA SkipCPUCharged ==
  ASSUME BInv, SkipCPU
  PROVE  ChargedNext
<1>1. NextCPU(rtsys) /\ timeElapsed' = timeElapsed /\ pc = "count" /\ Current = None
  BY DEF SkipCPU
<1>2. Budgets(rtsys, timeElapsed, rtsys.currentCPU)
  BY <1>1, BInvFacts, ChargeBudgets DEF BInv, Charged, Current
<1> QED BY <1>1, <1>2, BInvFacts, NextCPUCharged

LEMMA CountDownCharged ==
  ASSUME BInv, CountDown
  PROVE  ChargedNext
<1> DEFINE t == Current
           s == Charge(rtsys, t)
<1>1. NextCPU(s) /\ timeElapsed' = timeElapsed /\ pc = "count" /\ t # None
  BY DEF CountDown
<1>2. t \in Task /\ rtsys.running[rtsys.currentCPU] = t
  BY <1>1, BInvFacts, CurrentFacts
<1> HIDE DEF t
<1>3. Works(rtsys, s, t, {}) /\ s \in RTsysType
  BY <1>2, BInvFacts, ChargeWorks
<1>4. s = IF t = None THEN rtsys ELSE Charge(rtsys, t)
  BY <1>1
<1> HIDE DEF s
<1>5. Budgets(rtsys, timeElapsed, rtsys.currentCPU - 1)
  BY <1>1 DEF BInv, Charged
<1>6. Budgets(s, timeElapsed, rtsys.currentCPU)
  BY <1>2, <1>4, <1>5, BInvFacts, ChargeBudgets
<1>7. s.currentCPU = rtsys.currentCPU
  BY <1>3 DEF Works
<1> QED BY <1>1, <1>3, <1>6, <1>7, NextCPUCharged

LEMMA StartSegmentCharged ==
  ASSUME BInv, StartSegment
  PROVE  ChargedNext
<1> DEFINE t == Current
           s == Charge(rtsys, t)
<1>1. /\ timeElapsed' = timeElapsed /\ pc = "count" /\ t # None /\ pc' = "segment"
      /\ rtsys' = [s EXCEPT !.segment[t] = s.nextSegment[t],
                            !.nextSegment[t] = s.nextSegment[t] + 1]
  BY DEF StartSegment
<1>2. t \in Task /\ rtsys.running[rtsys.currentCPU] = t
  BY <1>1, BInvFacts, CurrentFacts
<1> HIDE DEF t
<1>3. Works(rtsys, s, t, {}) /\ s \in RTsysType
  BY <1>2, BInvFacts, ChargeWorks
<1>4. s = IF t = None THEN rtsys ELSE Charge(rtsys, t)
  BY <1>1
<1> HIDE DEF s
<1>5. Budgets(rtsys, timeElapsed, rtsys.currentCPU - 1)
  BY <1>1 DEF BInv, Charged
<1>6. Budgets(s, timeElapsed, rtsys.currentCPU)
  BY <1>2, <1>4, <1>5, BInvFacts, ChargeBudgets
<1>7. s.currentCPU = rtsys.currentCPU
  BY <1>3 DEF Works
<1>8. /\ rtsys'.time = s.time /\ rtsys'.prevHit = s.prevHit /\ rtsys'.budget = s.budget
      /\ rtsys'.running = s.running /\ rtsys'.timeQ = s.timeQ /\ rtsys'.expiry = s.expiry
      /\ rtsys'.release = s.release /\ rtsys'.currentCPU = s.currentCPU
  BY <1>1, <1>3 DEF RTsysType
<1>9. Budgets(rtsys', timeElapsed, rtsys'.currentCPU)
  BY <1>6, <1>7, <1>8, FieldsBudget, SameBudgets
<1> QED BY <1>1, <1>9 DEF ChargedNext, Charged


LEMMA AbortCharged ==
  ASSUME pc' = "aborted"
  PROVE  ChargedNext
  BY DEF ChargedNext, Charged

\* a primitive that works on t, whose timer goes with it
LEMMA CallCharged ==
  ASSUME BInv, NEW primitive, Calling(primitive), pc' = pc,
         NEW t \in Task, Works(rtsys, rtsys', t, Own(t)),
         t \in UserTask => \/ SameBudget(rtsys, rtsys', t)
                           \/ ~ Armed(rtsys', t) /\ ~ Runs(rtsys', t)
  PROVE  ChargedNext
<1>1. pc = "segment" /\ timeElapsed' = timeElapsed
  BY DEF Calling
<1>2. Budgets(rtsys, timeElapsed, rtsys.currentCPU)
  BY <1>1 DEF BInv, Charged
<1>3. Budgets(rtsys', timeElapsed, rtsys.currentCPU)
  BY <1>2, WorksBudgets
<1>4. rtsys'.currentCPU = rtsys.currentCPU
  BY DEF Works
<1> QED BY <1>1, <1>3, <1>4 DEF ChargedNext, Charged

LEMMA CreateJobCharged ==
  ASSUME BInv, NEW t \in UserTask, CreateJob(t)
  PROVE  ChargedNext
<1>1. /\ Calling("ttCreateJob") /\ rtsys' = InvokeUserTask(rtsys, t) /\ pc' = pc
      /\ pc = "segment" /\ timeElapsed' = timeElapsed
  BY DEF CreateJob, Calling
<1>2. rtsys' = InvokeTask(rtsys, t) /\ t \in Task
  BY <1>1, TaskSorts DEF InvokeTask
<1>3. Budgets(rtsys, timeElapsed, rtsys.currentCPU)
  BY <1>1 DEF BInv, Charged
<1>4. Budgets(rtsys', timeElapsed, rtsys.currentCPU)
  BY <1>2, <1>3, BInvFacts, InvokedBudgets
<1>5. rtsys'.currentCPU = rtsys.currentCPU
  BY <1>2, BInvFacts, InvokeTaskWorks DEF Works
<1> QED BY <1>1, <1>4, <1>5 DEF ChargedNext, Charged

LEMMA KillJobCharged ==
  ASSUME BInv, NEW t \in UserTask, KillJob(t), NbrOfCPUs = 1
  PROVE  ChargedNext
<1>1. Calling("ttKillJob") /\ pc = "segment"
  BY DEF KillJob, Calling
<1>2. CASE rtsys.nbrInvocations[t] = 0 \/ t = Current
  BY <1>2, AbortCharged DEF KillJob, Abort
<1>3. CASE ~ (rtsys.nbrInvocations[t] = 0 \/ t = Current)
  <2>1. rtsys' = KilledJob(rtsys, t) /\ pc' = pc /\ t \in Task
    BY <1>3, TaskSorts DEF KillJob
  <2>2. rtsys.nbrInvocations[t] > 0
    BY <1>3, BInvFacts, AtRest
  <2>3. \A c \in CPU : rtsys.running[c] # t
    <3>1. CPU = {0}
      BY DEF CPU
    <3> QED BY <1>3, <3>1, BInvFacts DEF Current
  <2>4. rtsys' \in RTsysType
    BY <1>1, <2>1, <2>2, <2>3, BInvFacts, KilledJobFacts DEF Sound, Calling
  <2>5. /\ Works(rtsys, rtsys', t, Own(t)) /\ rtsys'.running = rtsys.running
        /\ ~ Armed(rtsys', t)
    BY <2>1, <2>2, <2>4, BInvFacts, KilledJobWorks
  <2>6. ~ Runs(rtsys', t)
    BY <2>3, <2>5, OnCPU DEF Runs
  <2> QED BY <1>1, <2>1, <2>5, <2>6, CallCharged
<1> QED BY <1>2, <1>3

LEMMA SleepUntilCharged ==
  ASSUME BInv, NEW d \in SleepTimes, SleepUntil(rtsys.time + d)
  PROVE  ChargedNext
<1> DEFINE time == rtsys.time + d
           t == Current
<1>1. Calling("ttSleepUntil") /\ pc = "segment" /\ timeElapsed' = timeElapsed
  BY DEF SleepUntil, Calling
<1>2. CASE t \in Handler
  BY <1>2, AbortCharged DEF SleepUntil, Abort
<1>3. CASE t \notin Handler
  <2>1. t \in UserTask /\ t \in Task
    BY <1>1, <1>3, BInvFacts, SegmentFacts, TaskSorts
  <2>2. time \in Int
    BY BInvFacts, BoundsAssumption DEF BoundsAssumption
  <2>3. pc' = pc /\ rtsys' = IF time <= rtsys.time THEN rtsys ELSE SleepingTask(rtsys, t, time)
    BY <1>3 DEF SleepUntil, SleepingTask
  <2>4. Budgets(rtsys, timeElapsed, rtsys.currentCPU)
    BY <1>1 DEF BInv, Charged
  <2> HIDE DEF t, time
  <2>5. CASE time <= rtsys.time
    BY <1>1, <2>3, <2>4, <2>5 DEF ChargedNext, Charged
  <2>6. CASE ~ (time <= rtsys.time)
    <3>1. /\ Moves(rtsys, rtsys', {t, WCETTimer(t)})
          /\ ~ Armed(rtsys', t) /\ Asleep(rtsys', t) /\ Wakeup(rtsys', t) = time
      BY <2>1, <2>2, <2>3, <2>6, BInvFacts, SleepMoves
    <3>2. rtsys'.time = rtsys.time /\ rtsys'.currentCPU = rtsys.currentCPU
      BY <3>1 DEF Moves, SameWork
    <3>3. time > rtsys.time
      BY <2>2, <2>6, BInvFacts
    <3>4. \A owed : Budgeted(rtsys', t, owed)
      BY <3>1, <3>2, <3>3 DEF Budgeted
    <3>5. ASSUME NEW u \in UserTask, u # t PROVE SameBudget(rtsys, rtsys', u)
      <4>1. Works(rtsys, rtsys', t, {t, WCETTimer(t)})
        BY <3>1, MovesIsWork
      <4>2. {t, WCETTimer(t)} \subseteq Own(t)
        BY <2>1, TimersOfTasks DEF Own
      <4>3. Works(rtsys, rtsys', t, Own(t))
        BY <4>1, <4>2 DEF Works, SameTimers
      <4> QED BY <2>1, <3>5, <4>3, OthersBudget
    <3>6. Budgets(rtsys', timeElapsed, rtsys.currentCPU)
      BY <2>4, <3>4, <3>5, SameBudgeted DEF Budgets
    <3> QED BY <1>1, <2>3, <3>2, <3>6 DEF ChargedNext, Charged
  <2> QED BY <2>5, <2>6
<1> QED BY <1>2, <1>3

LEMMA SetAbsDeadlineCharged ==
  ASSUME BInv, NEW t \in UserTask, NEW e \in NewDeadlines, SetAbsDeadline(t, rtsys.time + e)
  PROVE  ChargedNext
<1> DEFINE time == rtsys.time + e
<1>1. Calling("ttSetAbsDeadline")
  BY DEF SetAbsDeadline
<1>2. CASE rtsys.nbrInvocations[t] = 0
  BY <1>2, AbortCharged DEF SetAbsDeadline, Abort
<1>3. CASE rtsys.nbrInvocations[t] # 0
  <2>1. pc' = pc /\ rtsys' = Rearranged(rtsys, t, time)
    BY <1>3 DEF SetAbsDeadline, Rearranged
  <2>2. time \in Int /\ t \in Task
    BY BInvFacts, TaskSorts, BoundsAssumption DEF BoundsAssumption
  <2> HIDE DEF time
  <2>3. HasPlace(rtsys, t)
    BY <2>2, BInvFacts DEF Sound
  <2>4. Works(rtsys, rtsys', t, Own(t)) /\ SameBudget(rtsys, rtsys', t)
    BY <2>1, <2>2, <2>3, BInvFacts, RearrangedWorks
  <2> QED BY <1>1, <2>1, <2>2, <2>4, CallCharged
<1> QED BY <1>2, <1>3

LEMMA SetNextSegmentCharged ==
  ASSUME BInv, NEW seg \in 0 .. MaxSegment, SetNextSegment(seg)
  PROVE  ChargedNext
<1>1. pc = "segment" /\ timeElapsed' = timeElapsed
  BY DEF SetNextSegment, Calling
<1>2. CASE ~ (seg > 0)
  BY <1>2, AbortCharged DEF SetNextSegment, Abort
<1>3. CASE seg > 0
  <2>1. rtsys' = [rtsys EXCEPT !.nextSegment[Current] = seg] /\ pc' = pc
    BY <1>3 DEF SetNextSegment
  <2>2. /\ rtsys'.time = rtsys.time /\ rtsys'.prevHit = rtsys.prevHit
        /\ rtsys'.budget = rtsys.budget /\ rtsys'.running = rtsys.running
        /\ rtsys'.timeQ = rtsys.timeQ /\ rtsys'.expiry = rtsys.expiry
        /\ rtsys'.release = rtsys.release /\ rtsys'.currentCPU = rtsys.currentCPU
    BY <2>1, BInvFacts DEF RTsysType
  <2>3. Budgets(rtsys, timeElapsed, rtsys.currentCPU)
    BY <1>1 DEF BInv, Charged
  <2>4. Budgets(rtsys', timeElapsed, rtsys'.currentCPU)
    BY <2>2, <2>3, FieldsBudget, SameBudgets
  <2> QED BY <1>1, <2>1, <2>4 DEF ChargedNext, Charged
<1> QED BY <1>2, <1>3

LEMMA SegmentReturnsCharged ==
  ASSUME BInv, NEW e \in ExecTimes \cup {ContextSwitchTime}, SegmentReturns(e)
  PROVE  ChargedNext
<1> DEFINE t == Current
           ex == [rtsys.execTime EXCEPT ![t] = e]
           r == [rtsys EXCEPT !.execTime = ex]
<1>1. /\ NextCPU([rtsys EXCEPT !.execTime[t] = e]) /\ pc = "segment"
      /\ timeElapsed' = timeElapsed
  BY DEF SegmentReturns
<1>2. t \in Task /\ e \in Int
  BY <1>1, BInvFacts, SegmentFacts, BoundsAssumption, AttributesAssumption
     DEF BoundsAssumption, AttributesAssumption
<1> HIDE DEF t
<1>3. ex \in [Task -> Int] /\ [rtsys EXCEPT !.execTime[t] = e] = r
  BY <1>2, BInvFacts, RecordFields DEF RTsysType
<1>4. NextCPU(r)
  BY <1>1, <1>3
<1> HIDE DEF ex
<1>5. /\ r \in RTsysType
      /\ r.time = rtsys.time /\ r.prevHit = rtsys.prevHit
      /\ r.budget = rtsys.budget /\ r.running = rtsys.running
      /\ r.timeQ = rtsys.timeQ /\ r.expiry = rtsys.expiry
      /\ r.release = rtsys.release /\ r.currentCPU = rtsys.currentCPU
  BY <1>3, BInvFacts DEF RTsysType
<1> HIDE DEF r
<1>6. Budgets(rtsys, timeElapsed, rtsys.currentCPU)
  BY <1>1 DEF BInv, Charged
<1>7. Budgets(r, timeElapsed, r.currentCPU)
  BY <1>5, <1>6, FieldsBudget, SameBudgets
<1> QED BY <1>1, <1>4, <1>5, <1>7, NextCPUCharged

LEMMA JobFinishesCharged ==
  ASSUME BInv, JobFinishes
  PROVE  ChargedNext
<1> DEFINE t == Current
           r == ReleasePending(EndJob(rtsys, t), t)
<1>1. NextCPU(r) /\ pc = "segment" /\ timeElapsed' = timeElapsed
  BY DEF JobFinishes
<1>2. t \in Task /\ t # None /\ rtsys.running[rtsys.currentCPU] = t
  BY <1>1, BInvFacts, SegmentFacts
<1> HIDE DEF t
<1>3. /\ Works(rtsys, r, t, Own(t))
      /\ t \in UserTask => ~ Armed(r, t)
  BY <1>2, BInvFacts, FinishWorks
<1>4. r.running[rtsys.currentCPU] = None
  BY <1>2, BInvFacts, FinishWorks
<1> HIDE DEF r
<1>5. ~ Runs(r, t)
  <2>1. Affinity[t] = rtsys.currentCPU
    BY <1>2, BInvFacts DEF Neat, Placed
  <2> QED BY <1>2, <1>4, <2>1 DEF Runs
<1>6. Budgets(rtsys, timeElapsed, rtsys.currentCPU)
  BY <1>1 DEF BInv, Charged
<1>7. Budgets(r, timeElapsed, rtsys.currentCPU)
  BY <1>2, <1>3, <1>5, <1>6, WorksBudgets
<1>8. r \in RTsysType /\ r.currentCPU = rtsys.currentCPU
  BY <1>3 DEF Works, Neat
<1> QED BY <1>1, <1>7, <1>8, NextCPUCharged


LEMMA TimerExpiresCharged ==
  ASSUME BInv, TimerExpires
  PROVE  ChargedNext
<1> DEFINE x == TimerTask(next)
           s == InvokeTask(rtsys, x)
           time == s.expiry[next] + Period[next[2]]
           p == [s EXCEPT !.expiry[next] = time]
<1>1. /\ pc = "timers" /\ pc' = pc /\ next \in Timer /\ Wakeup(rtsys, next) <= rtsys.time
      /\ rtsys' = IF IsPeriodic(next) THEN MoveToTimeQ(p, next) ELSE Unlink(s, next)
  BY Zenon DEF TimerExpires, Due
<1>2. x \in Task
  BY <1>1 DEF BInv, TInv, KernelInv, IInv, Consistent, Handled
<1>3. Budgets(rtsys, 0, 0) /\ rtsys.time = rtsys.prevHit
  BY <1>1 DEF BInv, Charged, TInv, Timely
<1>4. Budgets(s, 0, 0)
  BY <1>2, <1>3, BInvFacts, InvokedBudgets
<1>5. Neat(s) /\ s \in RTsysType
  BY <1>2, BInvFacts, InvokeTaskWorks DEF Works, Neat
<1>6. Moves(s, rtsys', {next}) /\ (~ IsPeriodic(next) => next \notin ToSet(rtsys'.timeQ))
  <2>1. TimerTask(next) \in Task
    BY <1>2
  <2>2. CASE IsPeriodic(next)
    <3>1. s.expiry[next] \in Int /\ Period[next[2]] \in Int
      <4>1. next[2] \in UserTask
        BY <1>1 DEF Timer
      <4> QED BY <1>1, <1>5, <4>1, RecordFields, AttributesAssumption DEF AttributesAssumption
    <3>2. time \in Int
      BY <3>1
    <3>3. rtsys' = MoveToTimeQ(p, next)
      BY <1>1, <2>2
    <3> HIDE DEF s, time
    <3> QED BY <1>1, <1>5, <2>1, <2>2, <3>2, <3>3, AdvanceMoves
  <2>3. CASE ~ IsPeriodic(next)
    <3>1. rtsys' = Unlink(s, next)
      BY <1>1, <2>3
    <3> HIDE DEF s
    <3> QED BY <1>1, <1>5, <3>1, UnlinkMoves
  <2> QED BY <2>2, <2>3
<1>7. ASSUME NEW u \in UserTask, WCETTimer(u) # next
      PROVE  SameBudget(s, rtsys', u)
  <2>1. u # next
    BY <1>1, TimersOfTasks
  <2> HIDE DEF s
  <2> QED BY <1>6, <1>7, <2>1, MovesBudget
<1>8. ASSUME NEW u \in UserTask, WCETTimer(u) = next, WCETHandler[u] # None
      PROVE  Budgeted(rtsys', u, 0)
  <2>1. x = WCETHandler[u] /\ x \in Handler /\ x \notin UserTask
    BY <1>8, TimerSorts, TaskSorts, AttributesAssumption DEF AttributesAssumption
  <2>2. s = InvokeHandler(rtsys, x)
    BY <2>1 DEF InvokeTask
  <2> HIDE DEF s
  <2>3. Moves(rtsys, s, {})
    BY <2>1, <2>2, BInvFacts, InvokeHandlerMoves
  <2>4. Moves(rtsys, rtsys', {next})
    BY <1>6, <2>3, MovesTransitive
  <2>5. ~ Armed(rtsys', u)
    BY <1>6, <1>8 DEF IsPeriodic, WCETTimer, Armed
  <2>6. Runs(rtsys, u) /\ ~ Asleep(rtsys, u) => ~ (rtsys.budget[u] > 0)
    <3>1. Budgeted(rtsys, u, 0)
      BY <1>3 DEF Budgets
    <3>2. rtsys.budget[u] \in Int
      BY BInvFacts, RecordFields
    <3>3. Armed(rtsys, u) => rtsys.prevHit + rtsys.budget[u] - 0 <= rtsys.prevHit
      BY <1>1, <1>3, <1>8, <3>1 DEF Budgeted
    <3>4. Armed(rtsys, u) => ~ (rtsys.budget[u] > 0)
      BY <3>2, <3>3, BInvFacts
    <3> QED BY <1>8, <3>1, <3>4 DEF Budgeted
  <2>7. u \in QItem \ {next}
    BY <1>1, TimersOfTasks
  <2>8. /\ Runs(rtsys', u) <=> Runs(rtsys, u)
        /\ Asleep(rtsys', u) <=> Asleep(rtsys, u)
        /\ Wakeup(rtsys', u) = Wakeup(rtsys, u)
        /\ rtsys'.budget = rtsys.budget /\ rtsys'.time = rtsys.time
    BY <2>4, <2>7 DEF Moves, SameWork, SameTimers, Runs, Asleep
  <2>9. Runs(rtsys, u) /\ Asleep(rtsys, u) => Wakeup(rtsys, u) > rtsys.time
    BY <1>3, <1>8 DEF Budgets, Budgeted
  <2> QED BY <2>5, <2>6, <2>8, <2>9 DEF Budgeted
<1> HIDE DEF s
<1>9. \A u \in UserTask : Budgeted(rtsys', u, 0)
  <2> SUFFICES ASSUME NEW u \in UserTask PROVE Budgeted(rtsys', u, 0)
    OBVIOUS
  <2>1. Budgeted(s, u, 0)
    BY <1>4 DEF Budgets
  <2>2. CASE WCETTimer(u) # next
    BY <1>7, <2>1, <2>2, SameBudgeted
  <2>3. CASE WCETTimer(u) = next
    BY <1>8, <2>3 DEF Budgeted
  <2> QED BY <2>2, <2>3
<1> QED BY <1>1, <1>9 DEF ChargedNext, Charged, Budgets

LEMMA TaskWakesCharged ==
  ASSUME BInv, TaskWakes
  PROVE  ChargedNext
<1> DEFINE t == next
<1>1. /\ pc = "timers" /\ pc' = pc /\ t \in UserTask
      /\ Wakeup(rtsys, t) <= rtsys.time /\ rtsys' = MakeReady(rtsys, t)
  BY DEF TaskWakes, Due
<1>2. Moves(rtsys, rtsys', {t}) /\ ~ Asleep(rtsys', t)
  BY <1>1, BInvFacts, TaskSorts, MakeReadyMoves DEF Asleep
<1>3. Budgets(rtsys, 0, 0)
  BY <1>1 DEF BInv, Charged
<1> SUFFICES ASSUME NEW u \in UserTask PROVE Budgeted(rtsys', u, 0)
  BY <1>1 DEF ChargedNext, Charged, Budgets
<1>4. Budgeted(rtsys, u, 0)
  BY <1>3 DEF Budgets
<1>5. WCETTimer(u) # t /\ WCETTimer(u) \in QItem
  BY <1>1, TimersOfTasks
<1>6. CASE u # t
  BY <1>2, <1>4, <1>5, <1>6, MovesBudget, SameBudgeted
<1>7. CASE u = t
  <2>1. WCETHandler[u] # None => ~ (Runs(rtsys, u) /\ Asleep(rtsys, u))
    <3>1. Wakeup(rtsys, u) \in Int
      BY BInvFacts, KeyFacts, TimersOfTasks
    <3> QED BY <1>1, <1>4, <1>7, <3>1, BInvFacts DEF Budgeted
  <2>2. /\ Runs(rtsys', u) <=> Runs(rtsys, u)
        /\ Armed(rtsys', u) <=> Armed(rtsys, u)
        /\ Wakeup(rtsys', WCETTimer(u)) = Wakeup(rtsys, WCETTimer(u))
        /\ rtsys'.budget = rtsys.budget /\ rtsys'.prevHit = rtsys.prevHit
    BY <1>2, <1>5 DEF Moves, SameWork, SameTimers, Runs, Armed
  <2> QED BY <1>2, <1>4, <1>7, <2>1, <2>2 DEF Budgeted
<1> QED BY <1>6, <1>7

LEMMA ScanEndsCharged ==
  ASSUME BInv, ScanEnds
  PROVE  ChargedNext
<1>1. pc = "timers" /\ pc' = "dispatch" /\ rtsys' = [rtsys EXCEPT !.currentCPU = 0]
  BY DEF ScanEnds
<1>2. /\ rtsys'.time = rtsys.time /\ rtsys'.prevHit = rtsys.prevHit
      /\ rtsys'.budget = rtsys.budget /\ rtsys'.running = rtsys.running
      /\ rtsys'.timeQ = rtsys.timeQ /\ rtsys'.expiry = rtsys.expiry
      /\ rtsys'.release = rtsys.release /\ rtsys'.currentCPU = 0
  BY <1>1, BInvFacts DEF RTsysType
<1>3. Budgets(rtsys, 0, 0)
  BY <1>1 DEF BInv, Charged
<1>4. Budgets(rtsys', 0, 0)
  BY <1>2, <1>3, FieldsBudget, SameBudgets
<1>5. Awake(rtsys', 0)
  BY OnCPU DEF Awake
<1> QED BY <1>1, <1>2, <1>4, <1>5 DEF ChargedNext, Charged

LEMMA NextInvocationCharged ==
  ASSUME BInv, NEW timestep \in Candidates, NextInvocation(timestep), TimelyNext
  PROVE  ChargedNext
<1>1. /\ pc = "advance" /\ pc' = "idle" /\ timestep > 0
      /\ rtsys' = [rtsys EXCEPT !.nextHit = rtsys.time + timestep]
  BY DEF NextInvocation
<1>2. /\ rtsys'.time = rtsys.time /\ rtsys'.prevHit = rtsys.prevHit
      /\ rtsys'.budget = rtsys.budget /\ rtsys'.running = rtsys.running
      /\ rtsys'.timeQ = rtsys.timeQ /\ rtsys'.expiry = rtsys.expiry
      /\ rtsys'.release = rtsys.release /\ rtsys'.nextHit = rtsys.time + timestep
  BY <1>1, BInvFacts DEF RTsysType
<1>3. Budgets(rtsys, 0, 0) /\ Awake(rtsys, NbrOfCPUs) /\ rtsys.time = rtsys.prevHit
  BY <1>1 DEF BInv, Charged, TInv, Timely
<1>4. Budgets(rtsys', 0, 0)
  BY <1>2, <1>3, FieldsBudget, SameBudgets
<1>5. Awake(rtsys', NbrOfCPUs)
  BY <1>2, <1>3 DEF Awake, Runs, Asleep
<1>6. timestep \in Int
  BY BInvFacts, CandidatesAreTimes
<1>7. Solvent(rtsys')
  <2> SUFFICES ASSUME NEW u \in UserTask, WCETHandler[u] # None, Armed(rtsys', u)
               PROVE  rtsys'.budget[u] > 0
    BY DEF Solvent
  <2>1. Wakeup(rtsys', WCETTimer(u)) = rtsys'.prevHit + rtsys'.budget[u] - 0
    BY <1>4 DEF Budgets, Budgeted
  <2>2. \/ rtsys'.nextHit <= Wakeup(rtsys', WCETTimer(u))
        \/ rtsys'.nextHit = 0
    BY <1>1 DEF TimelyNext, Timely, Punctual, Armed
  <2>3. rtsys'.budget[u] \in Int
    BY <1>2, BInvFacts, RecordFields
  <2> QED BY <1>1, <1>2, <1>3, <1>6, <2>1, <2>2, <2>3, BInvFacts
<1> QED BY <1>1, <1>4, <1>5, <1>7 DEF ChargedNext, Charged

LEMMA AnotherPassCharged ==
  ASSUME BInv, AnotherPass
  PROVE  ChargedNext
<1>1. /\ pc = "advance" /\ timeElapsed' = 0
      /\ IF niter + 1 = MaxIter THEN Abort
         ELSE pc' = "count" /\ rtsys' = [rtsys EXCEPT !.currentCPU = 0]
  BY DEF AnotherPass
<1>2. CASE niter + 1 = MaxIter
  BY <1>1, <1>2, AbortCharged DEF Abort
<1>3. CASE niter + 1 # MaxIter
  <2>1. /\ rtsys'.time = rtsys.time /\ rtsys'.prevHit = rtsys.prevHit
        /\ rtsys'.budget = rtsys.budget /\ rtsys'.running = rtsys.running
        /\ rtsys'.timeQ = rtsys.timeQ /\ rtsys'.expiry = rtsys.expiry
        /\ rtsys'.release = rtsys.release
    BY <1>1, <1>3, BInvFacts DEF RTsysType
  <2>2. Budgets(rtsys, 0, 0)
    BY <1>1 DEF BInv, Charged
  <2>3. Budgets(rtsys', 0, 0)
    BY <2>1, <2>2, FieldsBudget, SameBudgets
  <2>4. Budgets(rtsys', 0, rtsys'.currentCPU - 1)
    BY <2>3 DEF Budgets
  <2> QED BY <1>1, <1>3, <2>4 DEF ChargedNext, Charged
<1> QED BY <1>2, <1>3


\* Without context switches a hook moves only timers.
LEMMA SuspendHookReadyQ ==
  ASSUME NEW s \in RTsysType, NEW t \in UserTask, ContextSwitchTime = 0,
         NEW r, r = SuspendHook(s, t)
  PROVE  r.readyQ = s.readyQ
<1>1. r = Unlink(s, WCETTimer(t)) /\ WCETTimer(t) \in Timer
  BY TimersOfTasks DEF SuspendHook, ContextSwitch
<1> QED BY <1>1 DEF Unlink, RTsysType

LEMMA ArmBudgetReadyQ ==
  ASSUME NEW s \in RTsysType, NEW t \in UserTask, NEW r, r = ArmBudget(s, t)
  PROVE  r.readyQ = s.readyQ
<1> DEFINE e == [s EXCEPT !.expiry[WCETTimer(t)] = s.time + s.budget[t]]
           d == Unlink(e, WCETTimer(t))
<1>1. CASE WCETHandler[t] # None /\ s.budget[t] > 0
  <2>1. r = MoveToTimeQ(e, WCETTimer(t)) /\ WCETTimer(t) \in Timer
    BY <1>1, TimersOfTasks DEF ArmBudget, Arm
  <2>2. PICK q : r = [d EXCEPT !.timeQ = q]
    <3> HIDE DEF e
    <3> QED BY <2>1, Zenon DEF MoveToTimeQ, d
  <2>3. PICK ex : e = [s EXCEPT !.expiry = ex]
    BY DEF RTsysType
  <2> HIDE DEF e
  <2>4. e.readyQ = s.readyQ /\ DOMAIN e = DOMAIN s
    BY <2>3 DEF RTsysType
  <2>5. d = [e EXCEPT !.timeQ = RemoveFirst(@, WCETTimer(t))]
    BY <2>1 DEF Unlink
  <2> QED BY <2>2, <2>3, <2>4, <2>5 DEF RTsysType
<1>2. CASE ~ (WCETHandler[t] # None /\ s.budget[t] > 0)
  BY <1>2 DEF ArmBudget
<1> QED BY <1>1, <1>2

\* The task that leaves CPU c has its timer disarmed.
LEMMA SuspendedBudget ==
  ASSUME NEW s, Neat(s), NEW c \in CPU, NEW new, ContextSwitchTime = 0,
         NEW r, r = Suspended(s, c, new)
  PROVE  /\ Neat(r) /\ SameWork(s, r) /\ r.readyQ = s.readyQ
         /\ \A u \in UserTask : /\ Asleep(r, u) <=> Asleep(s, u)
                                /\ u = s.running[c] /\ u # new => ~ Armed(r, u)
                                /\ u # s.running[c] \/ u = new => SameBudget(s, r, u)
<1> DEFINE t == s.running[c]
<1>1. CASE t \in UserTask /\ t # new
  <2>1. r = SuspendHook(s, t)
    BY <1>1 DEF Suspended
  <2> HIDE DEF t
  <2>2. Moves(s, r, {WCETTimer(t)}) /\ WCETTimer(t) \notin ToSet(r.timeQ)
    BY <1>1, <2>1, SuspendHookMoves
  <2>3. r.readyQ = s.readyQ
    BY <1>1, <2>1, SuspendHookReadyQ DEF Neat
  <2>4. \A u \in UserTask : u # t => SameBudget(s, r, u)
    <3> SUFFICES ASSUME NEW u \in UserTask, u # t PROVE SameBudget(s, r, u)
      OBVIOUS
    <3>1. u \notin {WCETTimer(t)} /\ WCETTimer(u) \notin {WCETTimer(t)}
      BY <1>1, TimersOfTasks DEF WCETTimer
    <3> QED BY <2>2, <3>1, MovesBudget
  <2>5. \A u \in UserTask : Asleep(r, u) <=> Asleep(s, u)
    BY <1>1, <2>2, TimersOfTasks DEF Moves, SameTimers, Asleep
  <2>6. t = s.running[c]
    BY DEF t
  <2> QED BY <1>1, <2>2, <2>3, <2>4, <2>5, <2>6 DEF Moves, Armed
<1>2. CASE ~ (t \in UserTask /\ t # new)
  <2>1. r = s
    BY <1>2 DEF Suspended
  <2> QED BY <1>2, <2>1 DEF SameWork, SameBudget
<1> QED BY <1>1, <1>2

\* The task that comes to CPU c has its timer armed for the budget it has left.
LEMMA ResumedBudget ==
  ASSUME NEW s, Neat(s), NEW c \in CPU, NEW new, NEW r, r = Resumed(s, c, new)
  PROVE  /\ r \in RTsysType /\ r.readyQ = s.readyQ /\ r.running = s.running
         /\ r.time = s.time /\ r.prevHit = s.prevHit /\ r.budget = s.budget
         /\ \A u \in UserTask :
              /\ Asleep(r, u) <=> Asleep(s, u)
              /\ u # new \/ u = s.running[c] => SameBudget(s, r, u)
         /\ new \in UserTask /\ new # s.running[c] /\ WCETHandler[new] # None =>
              \/ /\ s.budget[new] > 0 /\ Armed(r, new)
                 /\ Wakeup(r, WCETTimer(new)) = s.time + s.budget[new]
              \/ ~ (s.budget[new] > 0) /\ (Armed(r, new) <=> Armed(s, new))
<1>1. CASE new \notin UserTask \/ new = s.running[c]
  <2>1. r = s
    BY <1>1 DEF Resumed
  <2> QED BY <1>1, <2>1 DEF SameBudget, Neat
<1>2. CASE ~ (new \notin UserTask \/ new = s.running[c])
  <2> DEFINE sg == [s.segment EXCEPT ![new] = 1]
             a == IF s.segment[new] = 0 THEN [s EXCEPT !.segment = sg] ELSE s
             b == ArmBudget(a, new)
  <2>1. s \in RTsysType /\ new \in UserTask /\ new \in Task
    BY <1>2, TaskSorts DEF Neat
  <2>2. sg \in [Task -> Nat] /\ [s EXCEPT !.segment[new] = 1] = [s EXCEPT !.segment = sg]
    BY <2>1, RecordFields DEF RTsysType
  <2>3. r = [b EXCEPT !.runningUser[c] = new]
    <3>1. r = [(IF s.segment[new] = 0 THEN StartHook([s EXCEPT !.segment[new] = 1], new)
                ELSE ResumeHook(s, new)) EXCEPT !.runningUser[c] = new]
      BY <1>2 DEF Resumed
    <3>2. (IF s.segment[new] = 0 THEN StartHook([s EXCEPT !.segment[new] = 1], new)
           ELSE ResumeHook(s, new)) = b
      <4> HIDE DEF sg
      <4> QED BY <2>2 DEF StartHook, ResumeHook
    <3> HIDE DEF b
    <3> QED BY <3>1, <3>2
  <2> HIDE DEF sg
  <2>4. /\ a \in RTsysType /\ a.running = s.running /\ a.budget = s.budget
        /\ a.readyQ = s.readyQ /\ a.timeQ = s.timeQ
        /\ a.expiry = s.expiry /\ a.release = s.release
        /\ a.time = s.time /\ a.prevHit = s.prevHit
    <3>1. CASE s.segment[new] = 0
      BY <2>1, <2>2, <3>1 DEF RTsysType
    <3>2. CASE s.segment[new] # 0
      BY <2>1, <3>2
    <3> QED BY <3>1, <3>2
  <2> HIDE DEF a, b
  <2>5. Neat(a) /\ SameTimers(s, a, {})
    BY <2>4, KeepNeat
  <2>6. /\ Moves(a, b, {WCETTimer(new)}) /\ b \in RTsysType
        /\ WCETHandler[new] # None /\ a.budget[new] > 0 =>
             /\ WCETTimer(new) \in ToSet(b.timeQ)
             /\ Wakeup(b, WCETTimer(new)) = a.time + a.budget[new]
        /\ ~ (WCETHandler[new] # None /\ a.budget[new] > 0) => b = a
    BY <2>1, <2>5, ArmBudgetMoves DEF b, Moves, Neat
  <2>7. b.readyQ = a.readyQ
    BY <2>1, <2>4, ArmBudgetReadyQ DEF b
  <2>8. /\ r.readyQ = b.readyQ /\ r.running = b.running /\ r.budget = b.budget
        /\ r.time = b.time /\ r.prevHit = b.prevHit
        /\ r.timeQ = b.timeQ /\ r.expiry = b.expiry /\ r.release = b.release
    BY <2>3, <2>6 DEF RTsysType
  <2>9. r \in RTsysType
    <3>1. Begins(s, r)
      BY ResumedBegins
    <3> QED BY <3>1 DEF Begins, Neat
  <2>10. ASSUME NEW u \in UserTask PROVE Asleep(r, u) <=> Asleep(s, u)
    BY <2>1, <2>4, <2>6, <2>8, TimersOfTasks DEF Moves, SameTimers, Asleep
  <2>11. ASSUME NEW u \in UserTask, u # new PROVE SameBudget(s, r, u)
    <3>1. u \notin {WCETTimer(new)} /\ WCETTimer(u) \notin {WCETTimer(new)}
      BY <2>1, <2>11, TimersOfTasks DEF WCETTimer
    <3>2. SameBudget(a, b, u)
      BY <2>6, <3>1, MovesBudget
    <3>3. SameBudget(s, a, u) /\ SameBudget(b, r, u)
      BY <2>4, <2>8, FieldsBudget
    <3> QED BY <3>2, <3>3 DEF SameBudget
  <2>12. Wakeup(r, WCETTimer(new)) = Wakeup(b, WCETTimer(new))
    BY <2>8, SameKeys
  <2> QED BY <1>2, <2>1, <2>4, <2>6, <2>7, <2>8, <2>9, <2>10, <2>11, <2>12
          DEF Moves, SameWork, Armed
<1> QED BY <1>1, <1>2

LEMMA DispatchedBudgets ==
  ASSUME NEW s, Sound(s, ActiveUsers(s), {}), Neat(s), NEW c \in CPU, ContextSwitchTime = 0,
         Budgets(s, 0, 0), Awake(s, c), s.time = s.prevHit,
         NEW d, d = Dispatched(s, c)
  PROVE  Budgets(d, 0, 0) /\ Awake(d, c + 1)
<1> DEFINE new == First(s.readyQ[c])
           a == Suspended(s, c, new)
           r == Resumed(a, c, new)
           run == First(r.readyQ[c])
           rn == [r.running EXCEPT ![c] = new]
<1>1. s \in RTsysType /\ c \in Int /\ s.running \in [CPU -> Task \cup {None}]
  BY RecordFields DEF Neat, CPU
<1>2. /\ d = LET z == [r EXCEPT !.running[c] = run]
             IN  IF run = None THEN z ELSE [z EXCEPT !.state[run] = "RUNNING"]
      /\ run = First(r.readyQ[c])
  BY Zenon DEF Dispatched
<1>3. new # None => new \in Task /\ Ready(s, new) /\ Affinity[new] = c
  <2>1. /\ s.readyQ[c] \in Seq(Task)
        /\ \A t \in ToSet(s.readyQ[c]) : Affinity[t] = c
    BY <1>1, RecordFields DEF Neat, Placed
  <2>2. s.readyQ[c] # << >> => s.readyQ[c][1] \in ToSet(s.readyQ[c]) /\ s.readyQ[c][1] \in Task
    BY <2>1, EmptySeq, ElementOfSeq, LenProperties DEF ToSet
  <2> QED BY <2>1, <2>2 DEF First, Ready
<1> HIDE DEF new
<1>4. /\ Neat(a) /\ SameWork(s, a) /\ a.readyQ = s.readyQ
      /\ \A u \in UserTask : /\ Asleep(a, u) <=> Asleep(s, u)
                             /\ u = s.running[c] /\ u # new => ~ Armed(a, u)
                             /\ u # s.running[c] \/ u = new => SameBudget(s, a, u)
  BY SuspendedBudget
<1> HIDE DEF a
<1>5. /\ r \in RTsysType /\ r.readyQ = a.readyQ /\ r.running = a.running
      /\ r.time = a.time /\ r.prevHit = a.prevHit /\ r.budget = a.budget
      /\ \A u \in UserTask :
           /\ Asleep(r, u) <=> Asleep(a, u)
           /\ u # new \/ u = a.running[c] => SameBudget(a, r, u)
      /\ new \in UserTask /\ new # a.running[c] /\ WCETHandler[new] # None =>
           \/ /\ a.budget[new] > 0 /\ Armed(r, new)
              /\ Wakeup(r, WCETTimer(new)) = a.time + a.budget[new]
           \/ ~ (a.budget[new] > 0) /\ (Armed(r, new) <=> Armed(a, new))
  BY <1>4, ResumedBudget
<1>6. run = new
  BY <1>4, <1>5 DEF new
<1> HIDE DEF r, run
<1>7. /\ d.running = rn /\ d.timeQ = r.timeQ /\ d.expiry = r.expiry /\ d.release = r.release
      /\ d.time = r.time /\ d.prevHit = r.prevHit /\ d.budget = r.budget
  <2>1. CASE run = None
    BY <1>2, <1>5, <1>6, <2>1 DEF RTsysType
  <2>2. CASE run # None
    BY <1>2, <1>5, <1>6, <2>2 DEF RTsysType
  <2> QED BY <2>1, <2>2
<1>8. \A b \in CPU : rn[b] = IF b = c THEN new ELSE s.running[b]
  <2>1. r.running = s.running
    BY <1>4, <1>5 DEF SameWork
  <2> QED BY <1>1, <2>1
<1> HIDE DEF rn
<1>9. /\ d.time = s.time /\ d.prevHit = s.prevHit /\ d.budget = s.budget
      /\ a.running = s.running /\ a.budget = s.budget /\ a.time = s.time
  BY <1>4, <1>5, <1>7 DEF SameWork
<1>10. ASSUME NEW u \in UserTask
       PROVE  /\ Runs(d, u) <=> IF Affinity[u] = c THEN u = new ELSE Runs(s, u)
              /\ Armed(d, u) <=> Armed(r, u)
              /\ Asleep(d, u) <=> Asleep(s, u)
              /\ Wakeup(d, WCETTimer(u)) = Wakeup(r, WCETTimer(u))
              /\ Wakeup(d, u) = Wakeup(r, u)
  BY <1>4, <1>5, <1>7, <1>8, OnCPU, SameKeys DEF Runs, Armed, Asleep
<1>11. ASSUME NEW u \in UserTask, u = new <=> u = s.running[c]
       PROVE  SameBudget(s, d, u)
  <2>1. SameBudget(s, a, u) /\ SameBudget(a, r, u)
    BY <1>4, <1>5, <1>9, <1>11
  <2>2. Runs(d, u) <=> Runs(s, u)
    BY <1>10, <1>11 DEF Runs
  <2> QED BY <1>9, <1>10, <2>1, <2>2 DEF SameBudget
<1>12. ASSUME NEW u \in UserTask, Affinity[u] # c
       PROVE  u # new /\ u # s.running[c]
  BY <1>3, <1>12, TaskSorts DEF Neat, Placed
<1>13. ASSUME NEW u \in UserTask
       PROVE  Budgeted(d, u, 0)
  <2>1. Budgeted(s, u, 0) /\ s.budget[u] \in Int /\ s.prevHit \in Int
    BY <1>1, RecordFields DEF Budgets
  <2>2. CASE u = new <=> u = s.running[c]
    BY <1>11, <2>1, <2>2, SameBudgeted
  <2>3. CASE u = new /\ u # s.running[c]
    <3>1. Affinity[u] = c /\ ~ Runs(s, u)
      BY <1>12, <2>3 DEF Runs
    <3>2. SameBudget(s, a, u)
      BY <1>4, <2>3
    <3> SUFFICES ASSUME WCETHandler[u] # None PROVE Budgeted(d, u, 0)
      BY DEF Budgeted
    <3>3. ~ Armed(a, u)
      BY <2>1, <3>1, <3>2 DEF Budgeted, SameBudget
    <3>4. Runs(d, u) /\ ~ Asleep(d, u)
      <4>1. HasPlace(s, u) /\ Ready(s, u)
        BY <1>3, <2>3, TaskSorts DEF Sound
      <4> QED BY <1>10, <2>3, <3>1, <4>1 DEF HasPlace
    <3>5. \/ /\ s.budget[u] > 0 /\ Armed(d, u)
             /\ Wakeup(d, WCETTimer(u)) = s.time + s.budget[u]
          \/ ~ (s.budget[u] > 0) /\ ~ Armed(d, u)
      BY <1>5, <1>9, <1>10, <2>3, <3>3
    <3>6. s.time + s.budget[u] = d.prevHit + d.budget[u] - 0
      BY <1>9, <2>1
    <3> QED BY <1>9, <3>4, <3>5, <3>6 DEF Budgeted
  <2>4. CASE u # new /\ u = s.running[c]
    <3>1. Affinity[u] = c /\ ~ Runs(d, u)
      BY <1>10, <1>12, <2>4
    <3>2. ~ Armed(a, u) /\ SameBudget(a, r, u)
      BY <1>4, <1>5, <2>4
    <3> QED BY <1>10, <3>1, <3>2, OutBudgeted DEF SameBudget
  <2> QED BY <2>2, <2>3, <2>4
<1>14. ASSUME NEW u \in UserTask, Affinity[u] < c + 1, Runs(d, u)
       PROVE  ~ Asleep(d, u)
  <2>1. CASE Affinity[u] = c
    <3>1. HasPlace(s, u) /\ Ready(s, u)
      BY <1>3, <1>10, <1>14, <2>1, TaskSorts DEF Sound
    <3> QED BY <1>10, <3>1 DEF HasPlace
  <2>2. CASE Affinity[u] # c
    <3>1. Affinity[u] < c
      BY <1>1, <1>14, <2>2, OnCPU
    <3> QED BY <1>10, <1>14, <2>2, <3>1 DEF Awake
  <2> QED BY <2>1, <2>2
<1> QED BY <1>13, <1>14 DEF Budgets, Awake

LEMMA DispatchCharged ==
  ASSUME BInv, Dispatch, ContextSwitchTime = 0
  PROVE  ChargedNext
<1> DEFINE c == rtsys.currentCPU
           d == Dispatched(rtsys, c)
<1>1. /\ IF c < NbrOfCPUs - 1
         THEN rtsys' = [d EXCEPT !.currentCPU = d.currentCPU + 1] /\ pc' = pc
         ELSE rtsys' = d /\ pc' = "advance"
      /\ pc = "dispatch"
  BY DEF Dispatch
<1>2. Budgets(rtsys, 0, 0) /\ Awake(rtsys, c) /\ rtsys.time = rtsys.prevHit
  BY <1>1 DEF BInv, Charged, TInv, Timely
<1>3. Budgets(d, 0, 0) /\ Awake(d, c + 1)
  BY <1>2, BInvFacts, DispatchedBudgets
<1>4. d \in RTsysType /\ d.currentCPU = c
  BY BInvFacts, DispatchedFacts DEF Sound, SameClock
<1> HIDE DEF d
<1>5. CASE c < NbrOfCPUs - 1
  <2>1. /\ rtsys'.time = d.time /\ rtsys'.prevHit = d.prevHit
        /\ rtsys'.budget = d.budget /\ rtsys'.running = d.running
        /\ rtsys'.timeQ = d.timeQ /\ rtsys'.expiry = d.expiry
        /\ rtsys'.release = d.release /\ rtsys'.currentCPU = c + 1
    BY <1>1, <1>4, <1>5 DEF RTsysType
  <2>2. Budgets(rtsys', 0, 0)
    BY <1>3, <2>1, FieldsBudget, SameBudgets
  <2>3. Awake(rtsys', rtsys'.currentCPU)
    BY <1>3, <2>1 DEF Awake, Runs, Asleep
  <2> QED BY <1>1, <1>5, <2>2, <2>3 DEF ChargedNext, Charged
<1>6. CASE ~ (c < NbrOfCPUs - 1)
  <2>1. Awake(d, NbrOfCPUs)
    <3>1. \A u \in UserTask : Affinity[u] < c + 1
      BY <1>6, BInvFacts, OnCPU
    <3> QED BY <1>3, <3>1 DEF Awake
  <2> QED BY <1>1, <1>3, <1>6, <2>1 DEF ChargedNext, Charged
<1> QED BY <1>5, <1>6

\* At the start no task runs and only activation timers are armed.
LEMMA BudgetInit ==
  ASSUME Init
  PROVE  BInv
<1>1. PICK q \in InitialTimeQs : rtsys = InitialRTsys(q)
  BY DEF Init
<1>2. rtsys.timeQ = q /\ rtsys.running = [c \in CPU |-> None] /\ pc = "idle"
  BY <1>1 DEF InitialRTsys, Init
<1>3. q \in Seq(QItem) /\ DOMAIN q = 1 .. Len(q)
  BY InitialTimeQFacts, LenProperties
<1>4. ASSUME NEW u \in UserTask
      PROVE  ~ Armed(rtsys, u) /\ ~ Runs(rtsys, u)
  <2>1. \A n \in Started : n # WCETTimer(u)
    BY DEF Started, Activation, WCETTimer
  <2>2. ToSet(q) \subseteq Started
    BY <1>3 DEF InitialTimeQs, ToSet
  <2>3. u # None /\ Affinity[u] \in CPU
    BY TimersOfTasks, OnCPU, TaskSorts
  <2> QED BY <1>2, <2>1, <2>2, <2>3 DEF Armed, Runs
<1>5. Budgets(rtsys, 0, 0)
  BY <1>4, OutBudgeted DEF Budgets
<1>6. Awake(rtsys, NbrOfCPUs) /\ Solvent(rtsys)
  BY <1>4 DEF Awake, Solvent
<1> QED BY <1>2, <1>5, <1>6, TimelyInit DEF BInv, Charged

LEMMA BudgetStep ==
  ASSUME "ttKillJob" \in Primitives => NbrOfCPUs = 1, ContextSwitchTime = 0,
         BInv, [Next]_vars
  PROVE  BInv'
<1>1. TInv /\ TInv'
  BY TimelyStep DEF BInv
<1>2. TimelyNext
  BY <1>1 DEF TInv, TimelyNext
<1>3. ChargedNext => BInv'
  BY <1>1 DEF BInv, ChargedNext
<1>4. CASE UNCHANGED vars
  <2>1. rtsys' = rtsys /\ pc' = pc /\ timeElapsed' = timeElapsed
    BY <1>4 DEF vars
  <2> QED BY <1>3, <2>1 DEF BInv, ChargedNext
<1>5. CASE RunKernel
  BY <1>3, <1>5, RunKernelCharged
<1>6. CASE \E h \in External, t \in 0 .. MaxTime : Interrupt(h, t)
  BY <1>3, <1>6, InterruptCharged
<1>7. CASE KernelStep
  <2>1. CASE SkipCPU \/ CountDown \/ StartSegment
    BY <1>3, <2>1, SkipCPUCharged, CountDownCharged, StartSegmentCharged
  <2>2. CASE \E t \in UserTask : CreateJob(t)
    BY <1>3, <2>2, CreateJobCharged
  <2>3. CASE \E t \in UserTask : KillJob(t)
    <3>1. NbrOfCPUs = 1
      BY <2>3 DEF KillJob, Calling
    <3> QED BY <1>3, <2>3, <3>1, KillJobCharged
  <2>4. CASE \E d \in SleepTimes : SleepUntil(rtsys.time + d)
    BY <1>3, <2>4, SleepUntilCharged
  <2>5. CASE \E t \in UserTask, e \in NewDeadlines : SetAbsDeadline(t, rtsys.time + e)
    BY <1>3, <2>5, SetAbsDeadlineCharged
  <2>6. CASE \E seg \in 0 .. MaxSegment : SetNextSegment(seg)
    BY <1>3, <2>6, SetNextSegmentCharged
  <2>7. CASE \E e \in ExecTimes \cup {ContextSwitchTime} : SegmentReturns(e)
    BY <1>3, <2>7, SegmentReturnsCharged
  <2>8. CASE JobFinishes
    BY <1>3, <2>8, JobFinishesCharged
  <2>9. CASE FinishBlocked
    BY <1>3, <2>9, AbortCharged DEF FinishBlocked, Abort
  <2>10. CASE TimerExpires \/ TaskWakes \/ ScanEnds
    BY <1>3, <2>10, TimerExpiresCharged, TaskWakesCharged, ScanEndsCharged
  <2>11. CASE Dispatch \/ AnotherPass
    BY <1>3, <2>11, DispatchCharged, AnotherPassCharged
  <2>12. CASE \E timestep \in Candidates : NextInvocation(timestep)
    BY <1>2, <1>3, <2>12, NextInvocationCharged
  <2> QED BY <1>7, <2>1, <2>2, <2>3, <2>4, <2>5, <2>6, <2>7, <2>8, <2>9, <2>10, <2>11, <2>12
          DEF KernelStep, RunStep, SegmentCall
<1> QED BY <1>4, <1>5, <1>6, <1>7 DEF Next

LEMMA BudgetInvariant ==
  ASSUME "ttKillJob" \in Primitives => NbrOfCPUs = 1, ContextSwitchTime = 0
  PROVE  Spec => []BInv
<1>1. Init => BInv
  BY BudgetInit
<1>2. BInv /\ [Next]_vars => BInv'
  BY BudgetStep
<1> QED BY <1>1, <1>2, PTL DEF Spec

-----------------------------------------------------------------------------
\* The time queue is in the order of the wakeup times in every reachable state,
\* although hooks, primitives and the scan rewrite expiry and release times: a
\* time that changes belongs to an entry that is outside the queue or is moved
\* to its new place before anything else runs.
THEOREM TimeQueueIsSorted ==
  ASSUME "ttKillJob" \in Primitives => NbrOfCPUs = 1
  PROVE  Spec => []TimeQSorted
<1>1. TInv => TimeQSorted
  <2> SUFFICES ASSUME TInv, NEW i \in 1 .. Len(rtsys.timeQ), NEW j \in 1 .. Len(rtsys.timeQ),
                      i < j
               PROVE  Wakeup(rtsys, rtsys.timeQ[i]) <= Wakeup(rtsys, rtsys.timeQ[j])
    BY DEF TimeQSorted
  <2>1. rtsys.timeQ \in Seq(QItem)
    BY TInvFacts, RecordFields
  <2>2. rtsys.timeQ[i] \in QItem /\ rtsys.timeQ[j] \in QItem
    BY <2>1, ElementOfSeq, LenProperties
  <2> QED BY <2>2, TInvFacts, KeyFacts DEF Neat, InOrder
<1> QED BY <1>1, TimelyInvariant, PTL

\* No wakeup time or timer lies behind the next call of runKernel, no segment
\* runs longer than its execution time, on any number of CPUs, and an interrupt
\* only ever brings the next call forward.
THEOREM EventsAreServedInTime ==
  ASSUME "ttKillJob" \in Primitives => NbrOfCPUs = 1
  PROVE  Spec => []NoEventIsMissed
<1>1. TInv => NoEventIsMissed
  BY DEF TInv, Timely, Orderly, Progressing, Punctual, NoEventIsMissed
<1> QED BY <1>1, TimelyInvariant, PTL

\* The deadline timer of every task follows its active job, through releases,
\* the end of jobs, ttKillJob and the expiry of the timer, as long as no code
\* segment moves a deadline: ttSetAbsDeadline leaves an expired timer alone.
THEOREM DeadlineTimersFollowJobs ==
  ASSUME "ttKillJob" \in Primitives => NbrOfCPUs = 1,
         "ttSetAbsDeadline" \notin Primitives
  PROVE  Spec => []DeadlineTimerFollowsJob
<1>1. TInv => DeadlineTimerFollowsJob
  <2> SUFFICES ASSUME TInv, NEW t \in UserTask PROVE DeadlineTimed(rtsys, t)
               => (DLHandler[t] # None =>
                     LET armed == DLTimer(t) \in ToSet(rtsys.timeQ)
                     IN  /\ armed => /\ rtsys.nbrInvocations[t] > 0
                                     /\ rtsys.expiry[DLTimer(t)] = rtsys.absDeadline[t]
                         /\ rtsys.nbrInvocations[t] > 0 /\ rtsys.absDeadline[t] > rtsys.time
                              => armed)
    BY TInvFacts DEF Orderly, DeadlineTimerFollowsJob
  <2>1. Wakeup(rtsys, DLTimer(t)) = rtsys.expiry[DLTimer(t)]
    BY TimersOfTasks DEF Wakeup
  <2> QED BY <2>1 DEF DeadlineTimed
<1> QED BY <1>1, TimelyInvariant, PTL

\* The budget timer of a task is armed exactly while the task runs and has
\* budget left, and for the moment at which the budget is used up: through
\* preemption, sleep, the end of jobs, ttKillJob and the expiry of the timer,
\* on any number of CPUs.  With context switch overhead a resume hook would arm
\* the timer while the switching code still holds the CPU.
THEOREM BudgetTimersFollowTasks ==
  ASSUME "ttKillJob" \in Primitives => NbrOfCPUs = 1, ContextSwitchTime = 0
  PROVE  Spec => []BudgetTimerFollowsTask
<1>1. BInv => BudgetTimerFollowsTask
  <2> SUFFICES ASSUME BInv, NEW t \in UserTask, WCETHandler[t] # None
               PROVE  /\ Armed(rtsys, t) /\ pc \notin {"count", "segment", "aborted"} =>
                           rtsys.expiry[WCETTimer(t)] = rtsys.prevHit + rtsys.budget[t]
                      /\ pc = "idle" => (Armed(rtsys, t) <=> Runs(rtsys, t) /\ rtsys.budget[t] > 0)
    BY DEF BudgetTimerFollowsTask, Armed, Runs
  <2>1. /\ Wakeup(rtsys, WCETTimer(t)) = rtsys.expiry[WCETTimer(t)]
        /\ rtsys.prevHit \in Int /\ rtsys.budget[t] \in Int
    BY TimersOfTasks, BInvFacts, RecordFields DEF Wakeup
  <2>2. pc \in {"idle", "count", "segment", "timers", "dispatch", "advance", "aborted"}
    BY BInvFacts DEF TInv, KernelInv, IInv, Consistent, PCs
  <2>3. CASE pc \in {"idle", "timers", "dispatch", "advance"}
    <3>1. Budgeted(rtsys, t, 0)
      BY <2>3 DEF BInv, Charged, Budgets
    <3>2. pc = "idle" => (Runs(rtsys, t) => ~ Asleep(rtsys, t))
      BY OnCPU DEF BInv, Charged, Awake
    <3>3. pc = "idle" => (Armed(rtsys, t) => rtsys.budget[t] > 0)
      BY DEF BInv, Charged, Solvent
    <3> QED BY <2>1, <3>1, <3>2, <3>3 DEF Budgeted
  <2> QED BY <2>2, <2>3
<1> QED BY <1>1, BudgetInvariant, PTL

\* A job that has not begun begins with the first segment of its code function,
\* whatever ttSetNextSegment did in the jobs before it; ttKillJob breaks this.
THEOREM JobsStartAtFirstSegment ==
  ASSUME "ttKillJob" \notin Primitives
  PROVE  Spec => []JobStartsAtFirstSegment
<1>1. TInv => JobStartsAtFirstSegment
  BY DEF TInv, Timely, Orderly, Progressing, JobStartsAtFirstSegment
<1>2. Spec => []TInv
  BY TimelyInvariant
<1> QED BY <1>1, <1>2, PTL

-----------------------------------------------------------------------------
(***************************************************************************)
(* The scheduling theorems of TTKernel: between two kernel runs every CPU  *)
(* runs the task of its ready queue that no other should preempt, for      *)
(* every policy, every set of tasks and handlers and every number of CPUs. *)
(* A non-preemptible task gives its CPU to another user task only when its *)
(* job ends.  Both are proved without ttKillJob, and for non-preemptible   *)
(* user tasks on one CPU that neither sleep nor set absolute deadlines.    *)
(*                                                                         *)
(* The argument has two halves.  The ready queues are always in the order  *)
(* of Ahead, which changes when a deadline does: every operator that gives *)
(* a task a new deadline has it out of the queue, or moves it afterwards.  *)
(* And once the third loop of runKernel has passed a CPU, the CPU runs the *)
(* head of its queue until the next run: nothing that follows, the hooks   *)
(* of the CPUs after it included, changes that queue.                      *)
(***************************************************************************)

\* When prioCmp is an order: no task is non-preemptible, or only user tasks are,
\* on a single CPU, and no code segment puts them to sleep or into their queue
\* again while they have the CPU.
PrioCmpSorts ==
  \/ NonPreemptible = {}
  \/ /\ NonPreemptible \subseteq UserTask /\ NbrOfCPUs = 1
     /\ {"ttSleepUntil", "ttSetAbsDeadline"} \cap Primitives = {}

\* the tasks that may not be preempted
Protected(s) == NonPreemptible \cap {s.runningUser[c] : c \in CPU}

\* n goes ahead of m in a ready queue
Outranks(s, n, m) ==
  \/ n \in Handler /\ m \in UserTask
  \/ /\ n \in UserTask /\ m \in UserTask /\ m \notin Protected(s)
     /\ n \in Protected(s) \/ Prio(s, n) < Prio(s, m)
  \/ n \in Handler /\ m \in Handler /\ Priority[n] < Priority[m]

Ahead(s) == {p \in Task \X Task : Outranks(s, p[1], p[2])}

Ranked(s) ==
  PrioCmpSorts => \A c \in CPU : OrderedBy(Ahead(s), s.readyQ[c])

\* ... but for the place of t
RankedBut(s, t) ==
  PrioCmpSorts => \A c \in CPU : OrderedByBut(Ahead(s), s.readyQ[c], t)

Placeable(s) == s \in RTsysType /\ Placed(s, Task)

Lined(s)       == Placeable(s) /\ Ranked(s)
LinedBut(s, t) == Placeable(s) /\ RankedBut(s, t)

\* No user task leaves a ready queue or falls asleep.
KeepsUsers(s, r) ==
  /\ r.running = s.running /\ r.runningUser = s.runningUser
  /\ \A u \in UserTask :
       /\ \A c \in CPU : u \in ToSet(s.readyQ[c]) => u \in ToSet(r.readyQ[c])
       /\ Asleep(r, u) => Asleep(s, u)

\* What user tasks that may not be preempted rely on: one that has its CPU is
\* in the ready queue, and no user task sleeps.
Marked      == PrioCmpSorts /\ NonPreemptible # {}
Reserved(s) ==
  Marked =>
    /\ \A c \in CPU :
         /\ s.runningUser[c] \in NonPreemptible => s.runningUser[c] \in ToSet(s.readyQ[c])
         /\ s.running[c] \in UserTask => s.running[c] = s.runningUser[c]
    /\ \A u \in UserTask : ~ Asleep(s, u)

\* Neither the ready queues nor what they are ordered by changes.
RanksKept(s, r) ==
  /\ Placeable(r)
  /\ r.readyQ = s.readyQ /\ r.tempPrio = s.tempPrio /\ r.absDeadline = s.absDeadline
  /\ KeepsUsers(s, r)

LEMMA KeepsUsersReflexive ==
  ASSUME NEW s
  PROVE  KeepsUsers(s, s)
  BY DEF KeepsUsers

LEMMA KeepsUsersTransitive ==
  ASSUME NEW s, NEW r, NEW q, KeepsUsers(s, r), KeepsUsers(r, q)
  PROVE  KeepsUsers(s, q)
  BY DEF KeepsUsers

\* moving an entry that is a timer, a handler or on its way to a ready queue
LEMMA ElsewhereKeepsUsers ==
  ASSUME NEW s, NEW r, NEW n, Elsewhere(s, r, n),
         r.running = s.running, r.runningUser = s.runningUser,
         n \in UserTask =>
           /\ ~ Asleep(r, n)
           /\ \A c \in CPU : n \in ToSet(s.readyQ[c]) => n \in ToSet(r.readyQ[c])
  PROVE  KeepsUsers(s, r)
  BY DEF Elsewhere, KeepsUsers, Asleep

LEMMA SameQueuesKeepsUsers ==
  ASSUME NEW s, NEW r, r.running = s.running, r.runningUser = s.runningUser,
         r.readyQ = s.readyQ, r.timeQ = s.timeQ
  PROVE  KeepsUsers(s, r)
  BY DEF KeepsUsers, Asleep

LEMMA MarkedMeansOneCPU ==
  ASSUME Marked
  PROVE  /\ NbrOfCPUs = 1 /\ NonPreemptible \subseteq UserTask
         /\ \A b, c \in CPU : b = c
  BY DEF Marked, PrioCmpSorts, CPU

LEMMA ReservedKept ==
  ASSUME NEW s, NEW r, Reserved(s), KeepsUsers(s, r)
  PROVE  Reserved(r)
<1> SUFFICES ASSUME Marked
             PROVE  /\ \A c \in CPU :
                         /\ r.runningUser[c] \in NonPreemptible
                              => r.runningUser[c] \in ToSet(r.readyQ[c])
                         /\ r.running[c] \in UserTask => r.running[c] = r.runningUser[c]
                    /\ \A u \in UserTask : ~ Asleep(r, u)
  BY DEF Reserved
<1>1. NonPreemptible \subseteq UserTask
  BY MarkedMeansOneCPU
<1> QED BY <1>1 DEF Reserved, KeepsUsers

\* A task in no ready queue has no claim to its CPU.
LEMMA QueuelessIsUnprotected ==
  ASSUME NEW s, Reserved(s), NEW t, \A c \in CPU : t \notin ToSet(s.readyQ[c])
  PROVE  PrioCmpSorts => t \notin Protected(s)
  BY DEF Reserved, Marked, Protected

\* Only user tasks are protected, and nobody where all may be preempted.
LEMMA ProtectedAreUsers ==
  ASSUME NEW s, PrioCmpSorts
  PROVE  /\ Protected(s) \subseteq UserTask
         /\ NonPreemptible = {} => Protected(s) = {}
  BY DEF PrioCmpSorts, Protected

LEMMA AheadFacts ==
  ASSUME NEW s
  PROVE  \A n, m \in Task : <<n, m>> \in Ahead(s) <=> Outranks(s, n, m)
  BY DEF Ahead

LEMMA PrioTypes ==
  ASSUME NEW s \in RTsysType
  PROVE  /\ \A t \in UserTask : Prio(s, t) \in Int
         /\ \A t \in Task : Priority[t] \in Int
<1>1. s.tempPrio \in [UserTask -> Int \cup {None}] /\ s.absDeadline \in [UserTask -> Int]
  BY DEF RTsysType
<1>2. Priority \in [Task -> Int] /\ Deadline \in [UserTask -> Int]
      /\ Policy \in {"FP", "DM", "EDF"}
  BY AttributesAssumption DEF AttributesAssumption
<1>3. ASSUME NEW t \in UserTask
      PROVE  Prio(s, t) \in Int
  <2>1. Priority[t] \in Int /\ Deadline[t] \in Int /\ s.absDeadline[t] \in Int
    BY <1>1, <1>2, TaskSorts
  <2>2. OwnPrio(s, t) \in Int
    BY <1>2, <2>1 DEF OwnPrio
  <2>3. s.tempPrio[t] \in Int \cup {None}
    BY <1>1
  <2> QED BY <2>2, <2>3 DEF Prio
<1> QED BY <1>2, <1>3

LEMMA AheadIsAnOrder ==
  ASSUME NEW s \in RTsysType
  PROVE  StrictWeakOrder(Ahead(s), Task)
<1>1. \A t \in UserTask : Prio(s, t) \in Int
  BY PrioTypes
<1>2. \A t \in Task : Priority[t] \in Int
  BY PrioTypes
<1>3. ASSUME NEW a \in Task, NEW b \in Task, Outranks(s, a, b)
      PROVE  ~ Outranks(s, b, a)
  BY <1>1, <1>2, <1>3, TaskSorts DEF Outranks
<1>4. ASSUME NEW a \in Task, NEW b \in Task, NEW c \in Task,
             ~ Outranks(s, a, b), ~ Outranks(s, b, c)
      PROVE  ~ Outranks(s, a, c)
  <2>1. CASE a \in UserTask /\ c \in UserTask
    <3>1. b \in UserTask
      BY <1>4, <2>1, TaskSorts DEF Outranks
    <3> QED BY <2>1, <3>1, <1>1, <1>4, TaskSorts DEF Outranks
  <2>2. CASE a \in Handler /\ c \in Handler
    <3>1. b \in Handler
      BY <1>4, <2>2, TaskSorts DEF Outranks
    <3> QED BY <2>2, <3>1, <1>2, <1>4, TaskSorts DEF Outranks
  <2>3. CASE a \in UserTask /\ c \in Handler
    BY <2>3, TaskSorts DEF Outranks
  <2>4. CASE a \in Handler /\ c \in UserTask
    BY <2>4, <1>4, TaskSorts DEF Outranks
  <2> QED BY <2>1, <2>2, <2>3, <2>4, TaskSorts
<1> QED BY <1>3, <1>4, AheadFacts DEF StrictWeakOrder

LEMMA SamePrio ==
  ASSUME NEW s, NEW r, r.tempPrio = s.tempPrio, r.absDeadline = s.absDeadline
  PROVE  \A u \in UserTask : Prio(r, u) = Prio(s, u)
  BY DEF Prio, OwnPrio

LEMMA SameAhead ==
  ASSUME NEW s, NEW r, r.tempPrio = s.tempPrio /\ r.runningUser = s.runningUser,
         r.absDeadline = s.absDeadline
  PROVE  Ahead(r) = Ahead(s)
  BY DEF Ahead, Outranks, Protected, Prio, OwnPrio

\* A new deadline of t, and t's protection, matter to t only.
LEMMA AheadButOne ==
  ASSUME NEW s, NEW r, NEW t, r.tempPrio = s.tempPrio,
         \A u \in UserTask : u # t => /\ r.absDeadline[u] = s.absDeadline[u]
                                      /\ u \in Protected(r) <=> u \in Protected(s),
         NEW n \in Task, NEW m \in Task, n # t, m # t
  PROVE  <<n, m>> \in Ahead(r) <=> <<n, m>> \in Ahead(s)
<1>1. \A u \in UserTask : u # t => Prio(r, u) = Prio(s, u)
  BY DEF Prio, OwnPrio
<1> QED BY <1>1, AheadFacts DEF Outranks

LEMMA LinedFields ==
  ASSUME NEW s, Placeable(s), NEW c \in CPU
  PROVE  /\ s.readyQ[c] \in Seq(Task) /\ NoDuplicates(s.readyQ[c])
         /\ \A i \in 1 .. Len(s.readyQ[c]) : s.readyQ[c][i] \in Task
<1>1. s.readyQ[c] \in Seq(Task)
  BY RecordFields DEF Placeable
<1> QED BY <1>1, ElementOfSeq, LenProperties DEF Placeable, Placed

LEMMA LinedAnyhow ==
  ASSUME NEW s, Lined(s), NEW t
  PROVE  LinedBut(s, t)
  BY DEF Lined, LinedBut, Ranked, RankedBut, OrderedBy, OrderedByBut

LEMMA RanksKeptLined ==
  ASSUME NEW s, NEW r, RanksKept(s, r)
  PROVE  /\ Lined(s) => Lined(r)
         /\ \A t : LinedBut(s, t) => LinedBut(r, t)
         /\ KeepsUsers(s, r)
<1>1. Ahead(r) = Ahead(s)
  BY SameAhead DEF RanksKept, KeepsUsers
<1> QED BY <1>1 DEF RanksKept, Lined, LinedBut, Ranked, RankedBut

LEMMA RanksKeptTransitive ==
  ASSUME NEW s, NEW r, NEW q, RanksKept(s, r), RanksKept(r, q)
  PROVE  RanksKept(s, q)
  BY KeepsUsersTransitive DEF RanksKept

\* Fields that no queue depends on change.
LEMMA FieldsRanksKept ==
  ASSUME NEW s, Placeable(s), NEW r \in RTsysType,
         r.readyQ = s.readyQ, r.timeQ = s.timeQ, r.running = s.running,
         r.tempPrio = s.tempPrio /\ r.runningUser = s.runningUser,
         r.absDeadline = s.absDeadline
  PROVE  RanksKept(s, r)
  BY SameQueuesKeepsUsers DEF RanksKept, Placeable, Placed

\* A new deadline of a task that is in no ready queue changes no order.
LEMMA DeadlineLined ==
  ASSUME NEW s, Lined(s), NEW r \in RTsysType, NEW t,
         r.readyQ = s.readyQ, r.timeQ = s.timeQ, r.running = s.running,
         r.tempPrio = s.tempPrio,
         \A u \in UserTask : u # t => r.absDeadline[u] = s.absDeadline[u],
         PrioCmpSorts => \A u \in UserTask : u # t => (u \in Protected(r) <=> u \in Protected(s))
  PROVE  /\ LinedBut(r, t)
         /\ (\A c \in CPU : t \notin ToSet(s.readyQ[c])) => Lined(r)
<1>1. Placeable(r)
  BY DEF Lined, Placeable, Placed
<1>2. ASSUME PrioCmpSorts, NEW c \in CPU,
             NEW i \in 1 .. Len(s.readyQ[c]), NEW j \in 1 .. Len(s.readyQ[c]), i < j,
             s.readyQ[c][i] # t, s.readyQ[c][j] # t
      PROVE  <<s.readyQ[c][j], s.readyQ[c][i]>> \notin Ahead(r)
  <2>1. s.readyQ[c][i] \in Task /\ s.readyQ[c][j] \in Task
    BY LinedFields DEF Lined
  <2>2. <<s.readyQ[c][j], s.readyQ[c][i]>> \notin Ahead(s)
    BY <1>2 DEF Lined, Ranked, OrderedBy
  <2>3. \A u \in UserTask : u # t => /\ r.absDeadline[u] = s.absDeadline[u]
                                     /\ u \in Protected(r) <=> u \in Protected(s)
    BY <1>2
  <2> DEFINE n == s.readyQ[c][j]
             m == s.readyQ[c][i]
  <2>4. n \in Task /\ m \in Task /\ n # t /\ m # t
    BY <2>1, <1>2
  <2> HIDE DEF n, m
  <2>5. <<n, m>> \in Ahead(r) <=> <<n, m>> \in Ahead(s)
    BY <2>3, <2>4, AheadButOne
  <2> QED BY <2>2, <2>5 DEF n, m
<1>3. RankedBut(r, t)
  BY <1>2 DEF RankedBut, OrderedByBut
<1>4. ASSUME \A c \in CPU : t \notin ToSet(s.readyQ[c])
      PROVE  Ranked(r)
  <2>1. \A c \in CPU : \A i \in 1 .. Len(s.readyQ[c]) : s.readyQ[c][i] # t
    <3> TAKE c \in CPU
    <3>1. DOMAIN s.readyQ[c] = 1 .. Len(s.readyQ[c])
      BY LinedFields, LenProperties DEF Lined
    <3> QED BY <3>1, <1>4 DEF ToSet
  <2> QED BY <1>2, <2>1 DEF Ranked, OrderedBy
<1> QED BY <1>1, <1>3, <1>4 DEF LinedBut, Lined

-----------------------------------------------------------------------------
(***************************************************************************)
(* The list operations.                                                    *)
(***************************************************************************)
LEMMA UnlinkRanks ==
  ASSUME NEW s \in RTsysType, NEW n \in Task \cup Timer
  PROVE  LET r == Unlink(s, n)
         IN  /\ r.tempPrio = s.tempPrio /\ r.runningUser = s.runningUser
             /\ r.absDeadline = s.absDeadline
             /\ IF n \in Timer THEN r.readyQ = s.readyQ
                ELSE r.readyQ = [s.readyQ EXCEPT ![Affinity[n]] = RemoveFirst(@, n)]
<1>1. CASE n \in Timer
  BY <1>1 DEF Unlink, RTsysType
<1>2. CASE n \notin Timer
  BY <1>2 DEF Unlink, RTsysType
<1> QED BY <1>1, <1>2

LEMMA UnlinkTimer ==
  ASSUME NEW s, Placeable(s), NEW tm \in Timer
  PROVE  RanksKept(s, Unlink(s, tm))
<1> DEFINE r == Unlink(s, tm)
<1>1. /\ r.tempPrio = s.tempPrio /\ r.runningUser = s.runningUser
      /\ r.absDeadline = s.absDeadline /\ r.readyQ = s.readyQ
  BY UnlinkRanks DEF Placeable
<1>2. r \in RTsysType /\ Placed(r, Task) /\ Elsewhere(s, r, tm) /\ tm \notin UserTask
  BY UnlinkFacts, TimerSorts, TaskSorts DEF Placeable
<1>3. KeepsUsers(s, r)
  <2>1. r.running = s.running
    BY UnlinkFacts DEF Placeable, SameJobs
  <2> HIDE DEF r
  <2> QED BY <1>1, <1>2, <2>1, ElsewhereKeepsUsers
<1> QED BY <1>1, <1>2, <1>3 DEF RanksKept, Placeable

\* Node::remove, also of a task that is out of its place
LEMMA UnlinkLined ==
  ASSUME NEW s, NEW t \in Task, LinedBut(s, t), NEW r, r = Unlink(s, t)
  PROVE  Lined(r) /\ \A c \in CPU : t \notin ToSet(r.readyQ[c])
<1>1. /\ r \in RTsysType /\ Placed(r, Task)
      /\ \A c \in CPU : t \notin ToSet(r.readyQ[c])
  BY UnlinkFacts DEF LinedBut, Placeable
<1>2. /\ r.tempPrio = s.tempPrio /\ r.runningUser = s.runningUser
      /\ r.absDeadline = s.absDeadline
      /\ r.readyQ = [s.readyQ EXCEPT ![Affinity[t]] = RemoveFirst(@, t)]
  BY UnlinkRanks, TimerSorts DEF LinedBut, Placeable
<1>3. Ahead(r) = Ahead(s)
  BY <1>2, SameAhead
<1>4. ASSUME PrioCmpSorts, NEW c \in CPU
      PROVE  OrderedBy(Ahead(s), r.readyQ[c])
  <2> DEFINE q == s.readyQ[c]
  <2>1. q \in Seq(Task) /\ NoDuplicates(q) /\ OrderedByBut(Ahead(s), q, t)
    BY <1>4, LinedFields DEF LinedBut, RankedBut
  <2>2. s.readyQ \in [CPU -> Seq(Task)]
    BY RecordFields DEF LinedBut, Placeable
  <2>3. CASE c = Affinity[t]
    <3>1. r.readyQ[c] = RemoveFirst(q, t)
      BY <1>2, <2>2, <2>3
    <3> QED BY <2>1, <3>1, RemoveFirstOrdered
  <2>4. CASE c # Affinity[t]
    <3>1. r.readyQ[c] = q
      BY <1>2, <2>2, <2>4
    <3>2. t \notin ToSet(q)
      BY <2>4 DEF LinedBut, Placeable, Placed
    <3>3. \A i \in 1 .. Len(q) : q[i] # t
      BY <2>1, <3>2, LenProperties DEF ToSet
    <3> QED BY <2>1, <3>1, <3>3 DEF OrderedBy, OrderedByBut
  <2> QED BY <2>3, <2>4
<1> QED BY <1>1, <1>3, <1>4 DEF Lined, Placeable, Ranked

\* moveToList of a timer
LEMMA ArmRanks ==
  ASSUME NEW s, Placeable(s), NEW tm \in Timer, NEW time \in Int, TimerTask(tm) \in Task
  PROVE  RanksKept(s, Arm(s, tm, time))
<1> DEFINE e == [s EXCEPT !.expiry[tm] = time]
           d == Unlink(e, tm)
           r == Arm(s, tm, time)
<1>1. RanksKept(s, e)
  <2> DEFINE ex == [s.expiry EXCEPT ![tm] = time]
  <2>1. ex \in [Timer -> Int] /\ e = [s EXCEPT !.expiry = ex]
    BY RecordFields DEF Placeable, RTsysType
  <2> HIDE DEF ex, e
  <2>2. /\ e \in RTsysType /\ e.readyQ = s.readyQ /\ e.tempPrio = s.tempPrio
        /\ e.runningUser = s.runningUser
        /\ e.absDeadline = s.absDeadline /\ e.timeQ = s.timeQ /\ e.running = s.running
    BY <2>1 DEF Placeable, RTsysType
  <2> QED BY <2>2, FieldsRanksKept
<1> HIDE DEF e
<1>2. RanksKept(e, d)
  BY <1>1, UnlinkTimer DEF RanksKept
<1>3. PICK q : r = [d EXCEPT !.timeQ = q]
  BY Zenon DEF Arm, MoveToTimeQ, e
<1>4. /\ r \in RTsysType /\ Placed(r, Task)
      /\ Elsewhere(s, r, tm) /\ tm \notin UserTask
  BY ArmFacts, TimerSorts, TaskSorts DEF Placeable
<1> HIDE DEF d, r
<1>5. /\ r.readyQ = d.readyQ /\ r.tempPrio = d.tempPrio
      /\ r.runningUser = d.runningUser /\ r.absDeadline = d.absDeadline
  BY <1>2, <1>3 DEF RanksKept, Placeable, RTsysType
<1>6. KeepsUsers(s, r)
  <2>1. r.running = s.running
    BY ArmFacts DEF Placeable, SameJobs, r
  <2> QED BY <1>1, <1>2, <1>4, <1>5, <2>1, ElsewhereKeepsUsers DEF RanksKept, KeepsUsers, r
<1> QED BY <1>1, <1>2, <1>4, <1>5, <1>6 DEF RanksKept, Placeable, r

\* moveToList(readyQs[affinity]), also of a task that is out of its place, but
\* not of a protected one, which prioCmp does not put first
LEMMA MoveToReadyQLined ==
  ASSUME NEW s, NEW t \in Task, LinedBut(s, t), PrioCmpSorts => t \notin Protected(s),
         NEW r, r = MoveToReadyQ(s, t)
  PROVE  Lined(r) /\ KeepsUsers(s, r)
<1> DEFINE d == Unlink(s, t)
           a == Affinity[t]
           Stays == {i \in 1 .. Len(d.readyQ[a]) : ~ PrioCmp(d, t, d.readyQ[a][i])}
           k == 1 + Max({0} \cup Stays)
           q == InsertAt(d.readyQ[a], k, t)
<1>1. Lined(d)
  BY UnlinkLined
<1>2. a \in CPU
  BY AttributesAssumption DEF AttributesAssumption
<1>3. r = [d EXCEPT !.readyQ = [d.readyQ EXCEPT ![a] = q]]
  <2>1. r = [d EXCEPT !.readyQ[a] = q]
    BY DEF MoveToReadyQ, InsertSorted
  <2> HIDE DEF q, d
  <2> QED BY <2>1, <1>1 DEF Lined, Placeable, RTsysType
<1>4. /\ r \in RTsysType /\ Placed(r, Task)
      /\ Elsewhere(s, r, t) /\ t \in ToSet(r.readyQ[a]) /\ t \notin ToSet(r.timeQ)
  <2>1. Task \cup {t} = Task
    OBVIOUS
  <2> QED BY <2>1, MoveToReadyQFacts DEF LinedBut, Placeable
<1>5. PrioCmpSorts => OrderedBy(Ahead(d), q)
  <2> HAVE PrioCmpSorts
  <2>0. t \notin Protected(d)
    <3>1. s \in RTsysType /\ t \in Task \cup Timer
      BY DEF LinedBut, Placeable
    <3>2. d.runningUser = s.runningUser
      BY <3>1, UnlinkRanks
    <3> QED BY <3>2 DEF Protected
  <2> HIDE DEF d
  <2> DEFINE w == d.readyQ[a]
             R == Ahead(d)
  <2>1. /\ w \in Seq(Task) /\ OrderedBy(R, w) /\ StrictWeakOrder(R, Task)
        /\ \A i \in 1 .. Len(w) : w[i] \in Task
    BY <1>1, <1>2, LinedFields, AheadIsAnOrder DEF Lined, Ranked, Placeable
  <2>2. \A m \in Task : PrioCmp(d, t, m) <=> <<t, m>> \in R
    <3>1. ASSUME NEW m \in UserTask
          PROVE  m = d.runningUser[d.currentCPU] /\ m \in NonPreemptible <=> m \in Protected(d)
      <4>1. d.currentCPU \in CPU /\ (NbrOfCPUs = 1 => CPU = {d.currentCPU})
        BY <1>1, RecordFields DEF Lined, Placeable, CPU
      <4> QED BY <4>1 DEF PrioCmpSorts, Protected
    <3>2. \A m \in Handler : m \notin NonPreemptible
      BY TaskSorts DEF PrioCmpSorts
    <3>3. ASSUME NEW m \in Task
          PROVE  PrioCmp(d, t, m) <=> Outranks(d, t, m)
      BY <2>0, <3>1, <3>2, TaskSorts DEF PrioCmp, Outranks
    <3> QED BY <3>3, AheadFacts
  <2>3. Stays = {i \in 1 .. Len(w) : <<t, w[i]>> \notin R}
    <3> HIDE DEF R
    <3> QED BY <2>1, <2>2
  <2> HIDE DEF Stays, w, R
  <2>4. k = PlaceOf(R, w, t)
    BY <2>3 DEF PlaceOf
  <2> HIDE DEF k
  <2>5. OrderedBy(R, InsertAt(w, PlaceOf(R, w, t), t))
    BY <2>1, InsertOrdered
  <2>6. OrderedBy(R, InsertAt(w, k, t))
    BY <2>4, <2>5
  <2> QED BY <2>6 DEF w, R
<1> HIDE DEF q, d
<1>6. /\ r.readyQ = [d.readyQ EXCEPT ![a] = q]
      /\ r.tempPrio = d.tempPrio /\ r.runningUser = d.runningUser
      /\ r.absDeadline = d.absDeadline
  BY <1>1, <1>3 DEF Lined, Placeable, RTsysType
<1>7. \A c \in CPU : r.readyQ[c] = IF c = a THEN q ELSE d.readyQ[c]
  BY <1>1, <1>6, RecordFields DEF Lined, Placeable
<1>8. Ahead(r) = Ahead(d)
  BY <1>6, SameAhead
<1>9. Lined(r)
  BY <1>1, <1>4, <1>5, <1>7, <1>8 DEF Lined, Placeable, Ranked
<1>10. r.runningUser = s.runningUser
  BY <1>6, UnlinkRanks DEF LinedBut, Placeable, d
<1>11. \A c \in CPU : t \in ToSet(s.readyQ[c]) => c = a
  BY DEF LinedBut, Placeable, Placed
<1>12. r.running = s.running
  BY MoveToReadyQFacts DEF LinedBut, Placeable, SameJobs
<1> QED BY <1>4, <1>9, <1>10, <1>11, <1>12, ElsewhereKeepsUsers DEF Asleep

LEMMA SetStateRanks ==
  ASSUME NEW s, Placeable(s), NEW t \in Task, NEW v \in State,
         NEW r, r = [s EXCEPT !.state[t] = v]
  PROVE  RanksKept(s, r)
<1> DEFINE st == [s.state EXCEPT ![t] = v]
<1>1. r = [s EXCEPT !.state = st] /\ st \in [Task -> State]
  BY RecordFields DEF Placeable, RTsysType
<1> HIDE DEF st
<1>2. /\ r \in RTsysType /\ r.readyQ = s.readyQ /\ r.timeQ = s.timeQ
      /\ r.running = s.running
      /\ r.tempPrio = s.tempPrio /\ r.runningUser = s.runningUser
      /\ r.absDeadline = s.absDeadline
  BY <1>1 DEF Placeable, RTsysType
<1> QED BY <1>2, FieldsRanksKept

LEMMA SetCountRanks ==
  ASSUME NEW s, Placeable(s), NEW t \in Task, NEW v \in Int,
         NEW r, r = [s EXCEPT !.nbrInvocations[t] = v]
  PROVE  RanksKept(s, r)
<1> DEFINE ni == [s.nbrInvocations EXCEPT ![t] = v]
<1>1. r = [s EXCEPT !.nbrInvocations = ni] /\ ni \in [Task -> Int]
  BY RecordFields DEF Placeable, RTsysType
<1> HIDE DEF ni
<1>2. /\ r \in RTsysType /\ r.readyQ = s.readyQ /\ r.timeQ = s.timeQ
      /\ r.running = s.running
      /\ r.tempPrio = s.tempPrio /\ r.runningUser = s.runningUser
      /\ r.absDeadline = s.absDeadline
  BY <1>1 DEF Placeable, RTsysType
<1> QED BY <1>2, FieldsRanksKept

LEMMA SetPendingRanks ==
  ASSUME NEW s, Placeable(s), NEW t \in Task, NEW p \in Seq(Nat),
         NEW r, r = [s EXCEPT !.pending[t] = p]
  PROVE  RanksKept(s, r)
<1> DEFINE pe == [s.pending EXCEPT ![t] = p]
<1>1. r = [s EXCEPT !.pending = pe] /\ pe \in [Task -> Seq(Nat)]
  BY RecordFields DEF Placeable, RTsysType
<1> HIDE DEF pe
<1>2. /\ r \in RTsysType /\ r.readyQ = s.readyQ /\ r.timeQ = s.timeQ
      /\ r.running = s.running
      /\ r.tempPrio = s.tempPrio /\ r.runningUser = s.runningUser
      /\ r.absDeadline = s.absDeadline
  BY <1>1 DEF Placeable, RTsysType
<1> QED BY <1>2, FieldsRanksKept

LEMMA MakeReadyLined ==
  ASSUME NEW s, NEW t \in Task, Lined(s), PrioCmpSorts => t \notin Protected(s),
         NEW r, r = MakeReady(s, t)
  PROVE  Lined(r) /\ KeepsUsers(s, r)
<1> DEFINE m == MoveToReadyQ(s, t)
<1>1. Lined(m) /\ KeepsUsers(s, m)
  BY LinedAnyhow, MoveToReadyQLined
<1>2. r = [m EXCEPT !.state[t] = "READY"]
  BY DEF MakeReady
<1> HIDE DEF m
<1>3. RanksKept(m, r)
  BY <1>1, <1>2, SetStateRanks DEF State, Lined
<1> QED BY <1>1, <1>3, RanksKeptLined, KeepsUsersTransitive

\* moveToList(timeQ) of a task takes it out of the ready queue.
LEMMA MoveToTimeQLined ==
  ASSUME NEW s, NEW n \in QItem, Lined(s), n \in Timer => TimerTask(n) \in Task,
         NEW r, r = MoveToTimeQ(s, n)
  PROVE  Lined(r) /\ (n \in Timer => KeepsUsers(s, r))
<1> DEFINE d == Unlink(s, n)
<1>1. Lined(d)
  <2>1. CASE n \in Timer
    BY <2>1, UnlinkTimer, RanksKeptLined DEF Lined
  <2>2. CASE n \notin Timer
    BY <2>2, LinedAnyhow, UnlinkLined, TimerSorts DEF QItem
  <2> QED BY <2>1, <2>2
<1>2. PICK q : r = [d EXCEPT !.timeQ = q]
  BY Zenon DEF MoveToTimeQ
<1> HIDE DEF d
<1>3. r \in RTsysType /\ Placed(r, Task) /\ Elsewhere(s, r, n)
  <2>1. Task \cup ({n} \ Timer) = Task
    BY TimerSorts DEF QItem
  <2> QED BY <2>1, MoveToTimeQFacts DEF Lined, Placeable
<1>4. /\ r.readyQ = d.readyQ /\ r.tempPrio = d.tempPrio
      /\ r.runningUser = d.runningUser /\ r.absDeadline = d.absDeadline
  BY <1>1, <1>2 DEF Lined, Placeable, RTsysType
<1>5. Ahead(r) = Ahead(d)
  BY <1>4, SameAhead
<1>6. Lined(r)
  BY <1>1, <1>3, <1>4, <1>5 DEF Lined, Placeable, Ranked
<1>7. d.runningUser = s.runningUser
  BY UnlinkRanks, TimerSorts DEF Lined, Placeable, QItem, d
<1>8. r.running = s.running
  BY MoveToTimeQFacts DEF Lined, Placeable, SameJobs
<1> QED BY <1>3, <1>4, <1>6, <1>7, <1>8, ElsewhereKeepsUsers, TimerSorts, TaskSorts

-----------------------------------------------------------------------------
(***************************************************************************)
(* invoke_task and the hooks.                                              *)
(***************************************************************************)
LEMMA EnqueueRanks ==
  ASSUME NEW s, Placeable(s), NEW t \in Task
  PROVE  RanksKept(s, Enqueue(s, t))
<1> DEFINE p == Append(s.pending[t], s.time)
           m == [s EXCEPT !.pending[t] = p]
           v == m.nbrInvocations[t] + 1
<1>1. p \in Seq(Nat)
  <2>1. s.pending[t] \in Seq(Nat) /\ s.time \in Nat
    BY RecordFields DEF Placeable
  <2> QED BY <2>1, AppendProperties
<1>2. Enqueue(s, t) = [m EXCEPT !.nbrInvocations[t] = v]
  BY DEF Enqueue, Placeable, RTsysType
<1> HIDE DEF p
<1>3. RanksKept(s, m)
  BY <1>1, SetPendingRanks
<1> HIDE DEF m
<1>4. v \in Int
  BY <1>3, RecordFields DEF RanksKept, Placeable
<1> HIDE DEF v
<1>5. RanksKept(m, Enqueue(s, t))
  BY <1>2, <1>3, <1>4, SetCountRanks DEF RanksKept
<1> QED BY <1>3, <1>5, RanksKeptTransitive

LEMMA InvokeHandlerLined ==
  ASSUME NEW s, Lined(s), NEW h \in Handler
  PROVE  Lined(InvokeHandler(s, h)) /\ KeepsUsers(s, InvokeHandler(s, h))
<1>1. h \in Task /\ (PrioCmpSorts => h \notin Protected(s))
  BY TaskSorts, ProtectedAreUsers
<1>2. CASE s.nbrInvocations[h] = 0
  <2> DEFINE m == MakeReady(s, h)
  <2>1. Lined(m) /\ KeepsUsers(s, m)
    BY <1>1, MakeReadyLined
  <2>2. InvokeHandler(s, h) = [m EXCEPT !.nbrInvocations[h] = 1]
    BY <1>2 DEF InvokeHandler
  <2> HIDE DEF m
  <2>3. RanksKept(m, InvokeHandler(s, h))
    BY <1>1, <2>1, <2>2, SetCountRanks DEF Lined
  <2> QED BY <2>1, <2>3, RanksKeptLined, KeepsUsersTransitive
<1>3. CASE s.nbrInvocations[h] # 0
  <2>1. InvokeHandler(s, h) = Enqueue(s, h)
    BY <1>3 DEF InvokeHandler
  <2> QED BY <2>1, <1>1, EnqueueRanks, RanksKeptLined DEF Lined
<1> QED BY <1>2, <1>3

LEMMA ContextSwitchLined ==
  ASSUME NEW s, Lined(s)
  PROVE  /\ Lined(ContextSwitch(s)) /\ KeepsUsers(s, ContextSwitch(s))
         /\ ContextSwitchTime = 0 => ContextSwitch(s) = s
<1>1. ContextSwitchTime > 0 => KernelHandler \in Handler
  BY TasksAssumption, AttributesAssumption DEF TasksAssumption, AttributesAssumption
<1> QED BY <1>1, InvokeHandlerLined, KeepsUsersReflexive DEF ContextSwitch

LEMMA ArmBudgetRanks ==
  ASSUME NEW s, Placeable(s), NEW t \in UserTask
  PROVE  RanksKept(s, ArmBudget(s, t))
<1>1. CASE WCETHandler[t] # None /\ s.budget[t] > 0
  <2>1. ArmBudget(s, t) = Arm(s, WCETTimer(t), s.time + s.budget[t])
    BY <1>1 DEF ArmBudget
  <2>2. WCETTimer(t) \in Timer /\ TimerTask(WCETTimer(t)) \in Task
    BY <1>1, TimerSorts, TaskSorts, AttributesAssumption DEF AttributesAssumption
  <2>3. s.time + s.budget[t] \in Int
    BY RecordFields DEF Placeable
  <2> QED BY <2>1, <2>2, <2>3, ArmRanks
<1>2. CASE ~ (WCETHandler[t] # None /\ s.budget[t] > 0)
  <2>1. ArmBudget(s, t) = s
    BY <1>2 DEF ArmBudget
  <2> QED BY <2>1, KeepsUsersReflexive DEF RanksKept
<1> QED BY <1>1, <1>2

LEMMA SuspendHookLined ==
  ASSUME NEW s, Lined(s), NEW t \in UserTask
  PROVE  /\ Lined(SuspendHook(s, t)) /\ KeepsUsers(s, SuspendHook(s, t))
         /\ ContextSwitchTime = 0 => RanksKept(s, SuspendHook(s, t))
<1> DEFINE u == Unlink(s, WCETTimer(t))
<1>1. RanksKept(s, u)
  BY UnlinkTimer, TimerSorts DEF Lined
<1>2. SuspendHook(s, t) = ContextSwitch(u)
  BY DEF SuspendHook
<1> HIDE DEF u
<1>3. Lined(u) /\ KeepsUsers(s, u)
  BY <1>1, RanksKeptLined
<1> QED BY <1>1, <1>2, <1>3, ContextSwitchLined, KeepsUsersTransitive

LEMMA FinishHookLined ==
  ASSUME NEW s, Lined(s), NEW t \in UserTask
  PROVE  Lined(FinishHook(s, t)) /\ KeepsUsers(s, FinishHook(s, t))
<1> DEFINE d == Unlink(s, DLTimer(t))
           u == Unlink(d, WCETTimer(t))
<1>1. RanksKept(s, d)
  BY UnlinkTimer, TimerSorts DEF Lined
<1>2. RanksKept(d, u)
  BY <1>1, UnlinkTimer, TimerSorts DEF RanksKept
<1>3. FinishHook(s, t) = ContextSwitch(u)
  BY DEF FinishHook
<1> HIDE DEF u, d
<1>4. Lined(u) /\ KeepsUsers(s, u)
  BY <1>1, <1>2, RanksKeptLined, RanksKeptTransitive
<1> QED BY <1>3, <1>4, ContextSwitchLined, KeepsUsersTransitive

\* release_hook gives t, which is in no ready queue, its new deadline.
LEMMA ReleaseHookLined ==
  ASSUME NEW s, Lined(s), NEW t \in UserTask, \A c \in CPU : t \notin ToSet(s.readyQ[c])
  PROVE  Lined(ReleaseHook(s, t)) /\ KeepsUsers(s, ReleaseHook(s, t))
<1> DEFINE ad == [s.absDeadline EXCEPT ![t] = s.arrival[t] + Deadline[t]]
           bu == [s.budget EXCEPT ![t] = WCET[t]]
           a  == [s EXCEPT !.absDeadline = ad, !.budget = bu]
           b  == ContextSwitch(a)
           r  == ReleaseHook(s, t)
<1>1. r = IF DLHandler[t] = None THEN b ELSE Arm(b, DLTimer(t), b.absDeadline[t])
  <2>1. [s EXCEPT !.absDeadline[t] = s.arrival[t] + Deadline[t], !.budget[t] = WCET[t]] = a
    BY DEF RTsysType, Lined, Placeable
  <2> HIDE DEF a
  <2> QED BY <2>1 DEF ReleaseHook
<1>2. /\ ad \in [UserTask -> Int] /\ bu \in [UserTask -> Int]
      /\ \A u \in UserTask : u # t => ad[u] = s.absDeadline[u]
  BY RecordFields, AttributesAssumption DEF AttributesAssumption, Lined, Placeable
<1> HIDE DEF ad, bu, r, b
<1>3. /\ a \in RTsysType /\ a.readyQ = s.readyQ /\ a.timeQ = s.timeQ
      /\ a.running = s.running /\ a.tempPrio = s.tempPrio /\ a.runningUser = s.runningUser
      /\ a.absDeadline = ad
  BY <1>2 DEF RTsysType, Lined, Placeable
<1> HIDE DEF a
<1>4. Lined(a) /\ KeepsUsers(s, a)
  <2>1. Protected(a) = Protected(s)
    BY <1>3 DEF Protected
  <2> QED BY <1>2, <1>3, <2>1, DeadlineLined, SameQueuesKeepsUsers
<1>5. Lined(b) /\ KeepsUsers(s, b)
  BY <1>4, ContextSwitchLined, KeepsUsersTransitive DEF b
<1>6. CASE DLHandler[t] = None
  BY <1>1, <1>5, <1>6 DEF r
<1>7. CASE DLHandler[t] # None
  <2>1. r = Arm(b, DLTimer(t), b.absDeadline[t])
    BY <1>1, <1>7
  <2>2. DLTimer(t) \in Timer /\ TimerTask(DLTimer(t)) \in Task
    BY <1>7, TimerSorts, TaskSorts, AttributesAssumption DEF AttributesAssumption
  <2>3. b.absDeadline[t] \in Int
    BY <1>5, RecordFields DEF Lined, Placeable
  <2>4. RanksKept(b, r)
    BY <2>1, <2>2, <2>3, <1>5, ArmRanks DEF Lined
  <2> QED BY <2>4, <1>5, RanksKeptLined, KeepsUsersTransitive DEF r
<1> QED BY <1>6, <1>7

LEMMA SetReleaseRanks ==
  ASSUME NEW s, Placeable(s), NEW t \in UserTask, NEW v \in Int, NEW w \in Int,
         NEW r, r = [s EXCEPT !.arrival[t] = v, !.release[t] = w]
  PROVE  RanksKept(s, r)
<1> DEFINE ar == [s.arrival EXCEPT ![t] = v]
           re == [s.release EXCEPT ![t] = w]
<1>1. /\ r = [s EXCEPT !.arrival = ar, !.release = re]
      /\ ar \in [UserTask -> Int] /\ re \in [UserTask -> Int]
  BY RecordFields DEF Placeable, RTsysType
<1> HIDE DEF ar, re
<1>2. /\ r \in RTsysType /\ r.readyQ = s.readyQ /\ r.timeQ = s.timeQ
      /\ r.running = s.running
      /\ r.tempPrio = s.tempPrio /\ r.runningUser = s.runningUser
      /\ r.absDeadline = s.absDeadline
  BY <1>1 DEF Placeable, RTsysType
<1> QED BY <1>2, FieldsRanksKept

\* A task without an active job is in no ready queue.
LEMMA InactiveIsNotReady ==
  ASSUME NEW s, Sound(s, ActiveUsers(s), {}), NEW t \in UserTask, s.nbrInvocations[t] = 0
  PROVE  \A c \in CPU : t \notin ToSet(s.readyQ[c])
<1>1. t \notin ActiveUsers(s) \cup ActiveHandlers(s)
  BY TaskSorts DEF ActiveUsers, ActiveHandlers
<1> QED BY <1>1 DEF Sound, Placed

LEMMA InvokeUserTaskLined ==
  ASSUME NEW s, Lined(s), Reserved(s), NEW t \in UserTask, Sound(s, ActiveUsers(s), {})
  PROVE  Lined(InvokeUserTask(s, t)) /\ KeepsUsers(s, InvokeUserTask(s, t))
<1>1. t \in Task
  BY TaskSorts
<1>2. CASE s.nbrInvocations[t] = 0
  <2> DEFINE a == [s EXCEPT !.arrival[t] = s.time, !.release[t] = s.time]
             b == ReleaseHook(a, t)
             m == MakeReady(b, t)
             v == m.nbrInvocations[t] + 1
  <2>1. InvokeUserTask(s, t) = [m EXCEPT !.nbrInvocations[t] = v]
    BY <1>2, Zenon DEF InvokeUserTask
  <2>2. s.time \in Int
    BY RecordFields DEF Lined, Placeable
  <2>3. RanksKept(s, a)
    BY <2>2, SetReleaseRanks DEF Lined
  <2> HIDE DEF a
  <2>4. \A c \in CPU : t \notin ToSet(s.readyQ[c])
    BY <1>2, InactiveIsNotReady
  <2>5. /\ Lined(a) /\ KeepsUsers(s, a)
        /\ \A c \in CPU : t \notin ToSet(a.readyQ[c])
    BY <2>3, <2>4, RanksKeptLined DEF RanksKept
  <2>6. Lined(b) /\ KeepsUsers(s, b)
    BY <2>5, ReleaseHookLined, KeepsUsersTransitive
  <2> HIDE DEF b
  <2>7. PrioCmpSorts => t \notin Protected(b)
    BY <2>4, <2>6, QueuelessIsUnprotected DEF KeepsUsers, Protected
  <2>8. Lined(m) /\ KeepsUsers(s, m)
    BY <1>1, <2>6, <2>7, MakeReadyLined, KeepsUsersTransitive
  <2> HIDE DEF m
  <2>9. v \in Int
    BY <1>1, <2>8, RecordFields DEF Lined, Placeable
  <2> HIDE DEF v
  <2>10. RanksKept(m, InvokeUserTask(s, t))
    BY <1>1, <2>1, <2>8, <2>9, SetCountRanks DEF Lined
  <2> QED BY <2>8, <2>10, RanksKeptLined, KeepsUsersTransitive
<1>3. CASE s.nbrInvocations[t] # 0
  <2>1. InvokeUserTask(s, t) = Enqueue(s, t)
    BY <1>3 DEF InvokeUserTask
  <2> QED BY <2>1, <1>1, EnqueueRanks, RanksKeptLined DEF Lined
<1> QED BY <1>2, <1>3

LEMMA InvokeTaskLined ==
  ASSUME NEW s, Lined(s), Reserved(s), NEW t \in Task, Sound(s, ActiveUsers(s), {})
  PROVE  Lined(InvokeTask(s, t)) /\ KeepsUsers(s, InvokeTask(s, t))
<1>1. CASE t \in UserTask
  BY <1>1, InvokeUserTaskLined DEF InvokeTask
<1>2. CASE t \notin UserTask
  BY <1>2, InvokeHandlerLined, TaskSorts DEF InvokeTask
<1> QED BY <1>1, <1>2

\* A user task leaves its CPU, if any does.
Vacates(s, r) ==
  /\ \A c \in CPU : r.runningUser[c] \in {s.runningUser[c], None}
  /\ \A u \in UserTask : Asleep(r, u) => Asleep(s, u)

\* The active job of t ends: t is in no queue.
LEMMA EndJobLined ==
  ASSUME NEW s, Lined(s), Reserved(s), NEW t \in Task, Sound(s, ActiveUsers(s), {}),
         s.running[s.currentCPU] = t, NEW r, r = EndJob(s, t)
  PROVE  /\ Lined(r) /\ Reserved(r) /\ Vacates(s, r)
         /\ \A c \in CPU : t \notin ToSet(r.readyQ[c])
         /\ Len(r.pending[t]) = r.nbrInvocations[t]
<1> DEFINE c == s.currentCPU
           d == Unlink(s, t)
           ex == [d.execTime EXCEPT ![t] = 0]
           sg == [d.segment EXCEPT ![t] = 0]
           ns == [d.nextSegment EXCEPT ![t] = 1]
           st == [d.state EXCEPT ![t] = "SLEEPING"]
           ru == [d.running EXCEPT ![c] = None]
           e == [d EXCEPT !.execTime = ex, !.segment = sg, !.nextSegment = ns,
                          !.state = st, !.running = ru]
           raw == [d EXCEPT !.execTime[t] = 0, !.segment[t] = 0,
                            !.nextSegment[t] = 1, !.state[t] = "SLEEPING",
                            !.running[c] = None]
           h == FinishHook(e, t)
           us == [h.runningUser EXCEPT ![c] = None]
           f == IF t \in UserTask THEN [h EXCEPT !.runningUser[c] = None] ELSE e
           v == f.nbrInvocations[t] - 1
<1>1. s \in RTsysType /\ c \in CPU /\ t # None
  BY RecordFields, TaskSorts DEF Lined, Placeable
<1>2. Lined(d)
  BY LinedAnyhow, UnlinkLined
<1>3. raw = e
  <2> HIDE DEF d
  <2> QED BY <1>2 DEF RTsysType, Lined, Placeable
<1>4. r = [f EXCEPT !.nbrInvocations[t] = v]
  <2>1. r = LET g == IF t \in UserTask
                     THEN [FinishHook(raw, t) EXCEPT !.runningUser[c] = None] ELSE raw
            IN  [g EXCEPT !.nbrInvocations[t] = g.nbrInvocations[t] - 1]
    BY Zenon DEF EndJob
  <2> HIDE DEF raw, e
  <2> QED BY <2>1, <1>3
<1> HIDE DEF d, raw
<1>5. /\ ex \in [Task -> Int] /\ sg \in [Task -> Nat] /\ ns \in [Task -> Nat]
      /\ st \in [Task -> State] /\ ru \in [CPU -> Task \cup {None}]
      /\ \A b \in CPU : ru[b] = IF b = c THEN None ELSE d.running[b]
  BY <1>1, <1>2, RecordFields DEF Lined, Placeable, State
<1> HIDE DEF ex, sg, ns, st, ru
<1>6. /\ e \in RTsysType /\ e.readyQ = d.readyQ /\ e.timeQ = d.timeQ /\ e.running = ru
      /\ e.tempPrio = d.tempPrio /\ e.runningUser = d.runningUser
      /\ e.absDeadline = d.absDeadline
  BY <1>2, <1>5 DEF RTsysType, Lined, Placeable
<1> HIDE DEF e
<1>7. Placed(e, Task)
  BY <1>2, <1>5, <1>6 DEF Placed, Lined, Placeable
<1>8. Lined(e)
  <2>1. Ahead(e) = Ahead(d)
    BY <1>6, SameAhead
  <2> QED BY <1>2, <1>6, <1>7, <2>1 DEF Lined, Placeable, Ranked
<1>9. Ended(s, r, t)
  <2> DEFINE X == ActiveUsers(s)
             Y == X \ {t}
             U == {t}
  <2>1. Y = X \ {t} /\ U = {t} /\ Sound(s, X, {})
    OBVIOUS
  <2>2. s.nbrInvocations[t] > 0
    <3>1. t \in X \cup ActiveHandlers(s)
      BY <1>1 DEF Sound, Placed
    <3> QED BY <3>1 DEF ActiveUsers, ActiveHandlers
  <2> HIDE DEF X, Y, U
  <2> QED BY <2>1, <2>2, EndJobFacts
<1>10. /\ Elsewhere(s, e, t) /\ e.runningUser = s.runningUser
       /\ t \notin ToSet(e.timeQ) /\ \A b \in CPU : t \notin ToSet(e.readyQ[b])
  <2>1. t \in Task \cup Timer /\ Placed(s, Task)
    BY DEF Lined, Placeable
  <2>2. /\ Elsewhere(s, d, t) /\ d.runningUser = s.runningUser
        /\ t \notin ToSet(d.timeQ) /\ \A b \in CPU : t \notin ToSet(d.readyQ[b])
    BY <1>1, <2>1, UnlinkFacts DEF SameJobs, d
  <2> QED BY <1>6, <2>2 DEF Elsewhere
<1>11. CASE t \notin UserTask
  <2>1. f = e
    BY <1>11
  <2> HIDE DEF f
  <2>2. v \in Int
    BY <2>1, <1>8, RecordFields DEF Lined, Placeable
  <2> HIDE DEF v
  <2>3. RanksKept(e, r)
    BY <1>4, <1>8, <2>1, <2>2, SetCountRanks DEF Lined
  <2>4. Lined(r) /\ KeepsUsers(e, r) /\ r.readyQ = e.readyQ
    BY <1>8, <2>3, RanksKeptLined DEF RanksKept
  <2>5. Vacates(s, r)
    BY <1>10, <1>11, <2>4 DEF Vacates, KeepsUsers, Elsewhere, Asleep
  <2>6. Reserved(r)
    <3>0. Marked => \A u \in UserTask : ~ Asleep(r, u)
      BY <2>5 DEF Reserved, Vacates
    <3> SUFFICES ASSUME Marked, NEW b \in CPU
                 PROVE  /\ r.runningUser[b] \in NonPreemptible
                             => r.runningUser[b] \in ToSet(r.readyQ[b])
                        /\ r.running[b] \notin UserTask
      BY <3>0 DEF Reserved
    <3>1. b = c /\ NonPreemptible \subseteq UserTask
      BY <1>1, MarkedMeansOneCPU
    <3>2. r.running[b] \notin UserTask
      BY <1>1, <1>5, <1>6, <2>4, <3>1, TasksAssumption DEF TasksAssumption, Task, KeepsUsers
    <3> QED BY <1>10, <1>11, <2>4, <2>5, <3>1, <3>2 DEF Reserved, Vacates, KeepsUsers,
               Elsewhere
  <2> QED BY <1>9, <1>10, <2>4, <2>5, <2>6 DEF Ended
<1>12. CASE t \in UserTask
  <2>1. Lined(h) /\ KeepsUsers(e, h)
    BY <1>8, <1>12, FinishHookLined
  <2> HIDE DEF h
  <2>2. f = [h EXCEPT !.runningUser = us] /\ us \in [CPU -> UserTask \cup {None}]
        /\ \A b \in CPU : us[b] = IF b = c THEN None ELSE h.runningUser[b]
    BY <1>12, <2>1, <1>1, RecordFields DEF Lined, Placeable, RTsysType
  <2> HIDE DEF us, f
  <2>3. /\ f \in RTsysType /\ f.readyQ = h.readyQ /\ f.timeQ = h.timeQ
        /\ f.running = h.running /\ f.tempPrio = h.tempPrio /\ f.runningUser = us
        /\ f.absDeadline = h.absDeadline
    BY <2>1, <2>2 DEF Lined, Placeable, RTsysType
  <2>4. v \in Int
    BY <2>3, RecordFields
  <2> HIDE DEF v
  <2>5. RanksKept(f, r)
    <3>1. Placeable(f)
      BY <2>1, <2>3 DEF Lined, Placeable, Placed
    <3> QED BY <1>4, <2>4, <3>1, SetCountRanks
  <2>6. /\ r.readyQ = h.readyQ /\ r.runningUser = us /\ r.running = e.running
        /\ \A u \in UserTask : Asleep(r, u) => Asleep(e, u)
    BY <2>1, <2>3, <2>5 DEF RanksKept, KeepsUsers, Asleep
  <2>7. \A b \in CPU : t \notin ToSet(r.readyQ[b])
    BY <1>9, <2>5 DEF RanksKept, Ended, Dequeued, Ready, Placeable, Placed
  <2>8. PrioCmpSorts => \A u \in UserTask : u # t => (u \in Protected(f) <=> u \in Protected(h))
    <3> SUFFICES ASSUME Marked, NEW u \in UserTask, u # t
                 PROVE  u \notin Protected(f) /\ u \notin Protected(h)
      BY DEF Marked, Protected
    <3>1. \A b \in CPU : b = c
      BY <1>1, MarkedMeansOneCPU
    <3>2. h.runningUser[c] = t
      BY <1>1, <1>10, <1>12, <2>1 DEF Reserved, KeepsUsers
    <3>3. f.runningUser[c] = None /\ None \notin UserTask
      BY <1>1, <2>2, <2>3, TasksAssumption DEF TasksAssumption, Task
    <3> QED BY <3>1, <3>2, <3>3 DEF Protected
  <2>9. Lined(r)
    <3>1. Lined(f)
      BY <2>1, <2>3, <2>6, <2>7, <2>8, DeadlineLined
    <3> QED BY <3>1, <2>5, RanksKeptLined
  <2>10. Vacates(s, r)
    BY <1>10, <2>1, <2>2, <2>6 DEF Vacates, KeepsUsers, Elsewhere, Asleep
  <2>11. Reserved(r)
    <3>0. Marked => \A u \in UserTask : ~ Asleep(r, u)
      BY <2>10 DEF Reserved, Vacates
    <3> SUFFICES ASSUME Marked, NEW b \in CPU
                 PROVE  /\ r.runningUser[b] \in NonPreemptible
                             => r.runningUser[b] \in ToSet(r.readyQ[b])
                        /\ r.running[b] \notin UserTask
      BY <3>0 DEF Reserved
    <3>1. b = c /\ NonPreemptible \subseteq UserTask /\ None \notin UserTask
      BY <1>1, MarkedMeansOneCPU, TasksAssumption DEF TasksAssumption, Task
    <3>2. r.running[b] \notin UserTask
      BY <1>1, <1>5, <1>6, <2>6, <3>1
    <3>3. r.runningUser[b] = None
      BY <1>1, <2>2, <2>6, <3>1
    <3> QED BY <2>10, <3>1, <3>2, <3>3 DEF Reserved, Vacates
  <2> QED BY <1>9, <2>7, <2>9, <2>10, <2>11 DEF Ended
<1> QED BY <1>11, <1>12

\* The active job of t ends and the first pending one, if any, is released.
LEMMA FinishLined ==
  ASSUME NEW s, Lined(s), Reserved(s), NEW t \in Task, Sound(s, ActiveUsers(s), {}),
         s.running[s.currentCPU] = t,
         NEW r, r = ReleasePending(EndJob(s, t), t)
  PROVE  Lined(r) /\ Reserved(r) /\ Vacates(s, r)
<1> DEFINE e == EndJob(s, t)
<1>1. /\ Lined(e) /\ Reserved(e) /\ Vacates(s, e)
      /\ \A c \in CPU : t \notin ToSet(e.readyQ[c])
      /\ Len(e.pending[t]) = e.nbrInvocations[t]
  BY EndJobLined
<1> HIDE DEF e
<1>2. CASE ~ (e.nbrInvocations[t] > 0)
  <2>1. r = e
    <3>1. r = ReleasePending(e, t)
      BY DEF e
    <3> QED BY <1>2, <3>1 DEF ReleasePending
  <2> QED BY <1>1, <2>1
<1>3. CASE e.nbrInvocations[t] > 0
  <2> DEFINE a == PreRelease(e, t)
             b == IF t \in UserTask THEN ReleaseHook(a, t) ELSE e
             m == MakeReady(b, t)
             p == Tail(m.pending[t])
  <2>1. r = [m EXCEPT !.pending[t] = p]
    <3>1. r = ReleasePending(e, t)
      BY DEF e
    <3> QED BY <1>3, <3>1, Zenon DEF ReleasePending, PreRelease
  <2>2. e.pending[t] \in Seq(Nat) /\ e.pending[t] # << >> /\ e.time \in Int
    BY <1>1, <1>3, RecordFields, EmptySeq DEF Lined, Placeable
  <2>3. Lined(b) /\ KeepsUsers(e, b)
    <3>1. CASE t \notin UserTask
      BY <3>1, <1>1, KeepsUsersReflexive
    <3>2. CASE t \in UserTask
      <4> DEFINE v == Head(e.pending[t])
                 w == e.time
      <4>1. a = [e EXCEPT !.arrival[t] = v, !.release[t] = w]
        BY DEF PreRelease
      <4>2. v \in Int /\ w \in Int
        BY <2>2, HeadTailProperties
      <4> HIDE DEF a, v, w
      <4>3. RanksKept(e, a)
        BY <3>2, <4>1, <4>2, <1>1, SetReleaseRanks DEF Lined
      <4>4. Lined(a) /\ KeepsUsers(e, a) /\ \A c \in CPU : t \notin ToSet(a.readyQ[c])
        BY <1>1, <4>3, RanksKeptLined DEF RanksKept
      <4>5. Lined(ReleaseHook(a, t)) /\ KeepsUsers(e, ReleaseHook(a, t))
        BY <3>2, <4>4, ReleaseHookLined, KeepsUsersTransitive
      <4> QED BY <3>2, <4>5
    <3> QED BY <3>1, <3>2
  <2> HIDE DEF b
  <2>4. PrioCmpSorts => t \notin Protected(b)
    BY <1>1, <2>3, QueuelessIsUnprotected DEF KeepsUsers, Protected
  <2>5. Lined(m) /\ KeepsUsers(e, m)
    BY <2>3, <2>4, MakeReadyLined, KeepsUsersTransitive
  <2> HIDE DEF m, p
  <2>6. r \in RTsysType
    BY FinishFacts DEF Sound, e
  <2>7. /\ r.readyQ = m.readyQ /\ r.timeQ = m.timeQ /\ r.running = m.running
        /\ r.tempPrio = m.tempPrio /\ r.runningUser = m.runningUser
        /\ r.absDeadline = m.absDeadline
    BY <2>1, <2>5 DEF Lined, Placeable, RTsysType
  <2>8. RanksKept(m, r)
    BY <2>5, <2>6, <2>7, FieldsRanksKept DEF Lined
  <2>9. Lined(r) /\ KeepsUsers(e, r)
    BY <2>5, <2>8, RanksKeptLined, KeepsUsersTransitive
  <2> QED BY <1>1, <2>9, ReservedKept DEF Vacates, KeepsUsers
<1> QED BY <1>2, <1>3

-----------------------------------------------------------------------------
(***************************************************************************)
(* Sleeping, new deadlines, and dispatching.                               *)
(***************************************************************************)
LEMMA SleepingTaskLined ==
  ASSUME NEW s, Lined(s), NEW t \in UserTask, NEW time \in Int
  PROVE  Lined(SleepingTask(s, t, time))
<1> DEFINE re == [s.release EXCEPT ![t] = time]
           a == [s EXCEPT !.release = re]
           q == MoveToTimeQ(a, t)
           z == [q EXCEPT !.state[t] = "SLEEPING"]
<1>1. t \in Task /\ t \in QItem /\ t \notin Timer
  BY TaskSorts, TimerSorts DEF QItem
<1>2. [s EXCEPT !.release[t] = time] = a /\ re \in [UserTask -> Int]
  BY RecordFields DEF RTsysType, Lined, Placeable
<1>3. SleepingTask(s, t, time) = SuspendHook(z, t)
  BY <1>2 DEF SleepingTask
<1> HIDE DEF re
<1>4. /\ a \in RTsysType /\ a.readyQ = s.readyQ /\ a.timeQ = s.timeQ
      /\ a.running = s.running /\ a.tempPrio = s.tempPrio /\ a.runningUser = s.runningUser
      /\ a.absDeadline = s.absDeadline
  BY <1>2 DEF RTsysType, Lined, Placeable
<1> HIDE DEF a
<1>5. Lined(a)
  BY <1>4, FieldsRanksKept, RanksKeptLined DEF Lined
<1>6. Lined(q)
  BY <1>1, <1>5, MoveToTimeQLined
<1> HIDE DEF q
<1>7. RanksKept(q, z)
  BY <1>1, <1>6, SetStateRanks DEF Lined, State
<1> HIDE DEF z
<1>8. Lined(z)
  BY <1>6, <1>7, RanksKeptLined
<1> QED BY <1>3, <1>8, SuspendHookLined

\* ttSetAbsDeadline moves the task to where its new deadline puts it.
LEMMA RearrangedLined ==
  ASSUME NEW s, Lined(s), NEW t \in UserTask, NEW time \in Int,
         PrioCmpSorts => NonPreemptible = {}
  PROVE  Lined(Rearranged(s, t, time))
<1> DEFINE ad == [s.absDeadline EXCEPT ![t] = time]
           a == [s EXCEPT !.absDeadline = ad]
           d == IF DLTimer(t) \in ToSet(a.timeQ) THEN Arm(a, DLTimer(t), time) ELSE a
           r == Rearranged(s, t, time)
<1>1. t \in Task
  BY TaskSorts
<1>2. /\ [s EXCEPT !.absDeadline[t] = time] = a /\ ad \in [UserTask -> Int]
      /\ \A u \in UserTask : u # t => ad[u] = s.absDeadline[u]
  BY RecordFields DEF RTsysType, Lined, Placeable
<1>3. r = IF t \in ToSet(d.readyQ[Affinity[t]]) THEN MoveToReadyQ(d, t) ELSE d
  BY <1>2 DEF Rearranged
<1> HIDE DEF ad, r
<1>4. /\ a \in RTsysType /\ a.readyQ = s.readyQ /\ a.timeQ = s.timeQ
      /\ a.running = s.running /\ a.tempPrio = s.tempPrio /\ a.runningUser = s.runningUser
      /\ a.absDeadline = ad
  BY <1>2 DEF RTsysType, Lined, Placeable
<1> HIDE DEF a
<1>5. LinedBut(a, t) /\ ((\A c \in CPU : t \notin ToSet(s.readyQ[c])) => Lined(a))
  <2>1. Protected(a) = Protected(s)
    BY <1>4 DEF Protected
  <2> QED BY <1>2, <1>4, <2>1, DeadlineLined
<1>6. RanksKept(a, d)
  <2>1. CASE DLTimer(t) \in ToSet(a.timeQ)
    <3>1. DLTimer(t) \in Timer
      BY TimerSorts
    <3>2. TimerTask(DLTimer(t)) \in Task
      BY <1>5, <2>1, <3>1 DEF LinedBut, Placeable, Placed
    <3> QED BY <1>5, <2>1, <3>1, <3>2, ArmRanks DEF LinedBut
  <2>2. CASE DLTimer(t) \notin ToSet(a.timeQ)
    BY <1>5, <2>2, KeepsUsersReflexive DEF RanksKept, LinedBut
  <2> QED BY <2>1, <2>2
<1> HIDE DEF d
<1>7. LinedBut(d, t)
  BY <1>5, <1>6, RanksKeptLined
<1>8. CASE t \in ToSet(d.readyQ[Affinity[t]])
  <2>1. PrioCmpSorts => t \notin Protected(d)
    BY ProtectedAreUsers
  <2> QED BY <1>1, <1>3, <1>7, <1>8, <2>1, MoveToReadyQLined DEF r
<1>9. CASE t \notin ToSet(d.readyQ[Affinity[t]])
  <2>1. \A c \in CPU : t \notin ToSet(d.readyQ[c])
    BY <1>7, <1>9 DEF LinedBut, Placeable, Placed
  <2>2. Lined(a)
    BY <1>4, <1>5, <1>6, <2>1 DEF RanksKept
  <2> QED BY <1>3, <1>6, <1>9, <2>2, RanksKeptLined DEF r
<1> QED BY <1>8, <1>9

LEMMA ChargeRanks ==
  ASSUME NEW s, Placeable(s), NEW t \in Task, timeElapsed \in Nat
  PROVE  RanksKept(s, Charge(s, t))
<1> DEFINE st == [s.state EXCEPT ![t] = IF s.state[t] = "RUNNING" THEN "READY" ELSE s.state[t]]
           ex == [s.execTime EXCEPT ![t] = s.execTime[t] - timeElapsed]
           bu == IF t \in UserTask THEN [s.budget EXCEPT ![t] = s.budget[t] - timeElapsed]
                 ELSE s.budget
           r == Charge(s, t)
<1>1. s \in RTsysType
  BY DEF Placeable
<1>2. r = [s EXCEPT !.state = st, !.execTime = ex, !.budget = bu]
  <2>1. CASE t \in UserTask
    BY <1>1, <2>1 DEF Charge, RTsysType
  <2>2. CASE t \notin UserTask
    BY <1>1, <2>2 DEF Charge, RTsysType
  <2> QED BY <2>1, <2>2
<1>3. st \in [Task -> State] /\ ex \in [Task -> Int] /\ bu \in [UserTask -> Int]
  <2>1. /\ s.state \in [Task -> State] /\ s.execTime \in [Task -> Int]
        /\ s.budget \in [UserTask -> Int]
    BY <1>1, RecordFields
  <2>2. st \in [Task -> State]
    BY <2>1 DEF State
  <2>3. ex \in [Task -> Int]
    BY <2>1
  <2>4. bu \in [UserTask -> Int]
    BY <2>1
  <2> QED BY <2>2, <2>3, <2>4
<1> HIDE DEF st, ex, bu, r
<1>4. /\ r \in RTsysType /\ r.readyQ = s.readyQ /\ r.timeQ = s.timeQ
      /\ r.running = s.running /\ r.tempPrio = s.tempPrio /\ r.runningUser = s.runningUser
      /\ r.absDeadline = s.absDeadline
  BY <1>1, <1>2, <1>3 DEF RTsysType
<1> QED BY <1>4, FieldsRanksKept DEF r

\* the head of an ordered queue and the others of it
LEMMA HeadIsNotOutranked ==
  ASSUME PrioCmpSorts, NEW s, Lined(s), NEW c \in CPU, NEW r, r = First(s.readyQ[c])
  PROVE  /\ r = None <=> ToSet(s.readyQ[c]) = {}
         /\ r # None => \A t \in ToSet(s.readyQ[c]) : ~ Outranks(s, t, r)
<1> DEFINE q == s.readyQ[c]
<1>1. q \in Seq(Task) /\ \A i \in 1 .. Len(q) : q[i] \in Task
  BY LinedFields DEF Lined
<1>2. OrderedBy(Ahead(s), q)
  BY DEF Lined, Ranked
<1> HIDE DEF q
<1>3. CASE q = << >>
  BY <1>3 DEF First, ToSet, q
<1>4. CASE q # << >>
  <2>1. Len(q) \in Nat /\ Len(q) > 0 /\ 1 \in 1 .. Len(q) /\ DOMAIN q = 1 .. Len(q)
    BY <1>1, <1>4, EmptySeq, LenProperties
  <2>2. r = q[1] /\ q[1] \in Task /\ q[1] # None /\ q[1] \in ToSet(q)
    BY <1>1, <1>4, <2>1, TaskSorts DEF First, ToSet, q
  <2>3. ASSUME NEW i \in 1 .. Len(q)
        PROVE  ~ Outranks(s, q[i], q[1])
    <3>1. CASE i = 1
      <4>1. \A t \in UserTask : Prio(s, t) \in Int
        BY PrioTypes DEF Lined, Placeable
      <4>2. \A t \in Task : Priority[t] \in Int
        BY PrioTypes DEF Lined, Placeable
      <4> QED BY <1>1, <2>1, <3>1, <4>1, <4>2, TaskSorts DEF Outranks
    <3>2. CASE i # 1
      <4>1. 1 < i
        BY <2>1, <3>2
      <4>2. <<q[i], q[1]>> \notin Ahead(s)
        BY <1>2, <2>1, <4>1 DEF OrderedBy
      <4> QED BY <1>1, <2>1, <4>2, AheadFacts
    <3> QED BY <3>1, <3>2
  <2>4. \A t \in ToSet(q) : ~ Outranks(s, t, q[1])
    BY <2>1, <2>3 DEF ToSet
  <2> QED BY <2>2, <2>4 DEF q
<1> QED BY <1>3, <1>4

\* A protected task is ahead of all user tasks in its queue.
LEMMA ProtectedIsFirst ==
  ASSUME NEW s, Lined(s), NEW c \in CPU, Marked,
         NEW t, t \in Protected(s), t \in ToSet(s.readyQ[c]),
         NEW n, n = First(s.readyQ[c]), n \in UserTask
  PROVE  n = t
<1>1. PrioCmpSorts /\ t \in UserTask /\ n # None
  BY ProtectedAreUsers, TasksAssumption DEF Marked, TasksAssumption, Task
<1>2. ~ Outranks(s, t, n)
  BY <1>1, HeadIsNotOutranked
<1>3. n \in Protected(s)
  BY <1>1, <1>2 DEF Outranks
<1>4. \A b, d \in CPU : b = d
  BY MarkedMeansOneCPU
<1> QED BY <1>3, <1>4 DEF Protected

\* Every user task of queue q has n before it, or is n.
FollowsIn(q, n) ==
  \A i \in 1 .. Len(q) : q[i] \in UserTask => \E j \in 1 .. i : q[j] = n

LEMMA FirstIsFollowed ==
  ASSUME NEW q \in Seq(Task)
  PROVE  FollowsIn(q, First(q))
<1> SUFFICES ASSUME NEW i \in 1 .. Len(q)
             PROVE  \E j \in 1 .. i : q[j] = First(q)
  BY DEF FollowsIn
<1>1. Len(q) \in Nat /\ q # << >> /\ 1 \in 1 .. i
  BY LenProperties, EmptySeq
<1> QED BY <1>1 DEF First

LEMMA InsertFollows ==
  ASSUME NEW q \in Seq(Task), NEW h \in Handler, NEW k \in 1 .. Len(q) + 1,
         NEW n, FollowsIn(q, n), NEW r, r = InsertAt(q, k, h)
  PROVE  FollowsIn(r, n)
<1>1. /\ Len(q) \in Nat /\ Len(r) = Len(q) + 1 /\ h \notin UserTask
      /\ \A i \in 1 .. Len(q) + 1 : r[i] = IF i < k THEN q[i] ELSE IF i = k THEN h ELSE q[i - 1]
  BY InsertAtFacts, LenProperties, TaskSorts
<1> SUFFICES ASSUME NEW i \in 1 .. Len(q) + 1, r[i] \in UserTask
             PROVE  \E j \in 1 .. i : r[j] = n
  BY <1>1 DEF FollowsIn
<1>2. CASE i < k
  <2>1. i \in 1 .. Len(q) /\ q[i] \in UserTask
    BY <1>1, <1>2
  <2>2. PICK j \in 1 .. i : q[j] = n
    BY <2>1 DEF FollowsIn
  <2>3. r[j] = n
    BY <1>1, <1>2, <2>1, <2>2
  <2> QED BY <2>3
<1>3. CASE i > k
  <2>1. i - 1 \in 1 .. Len(q) /\ q[i - 1] \in UserTask
    BY <1>1, <1>3
  <2>2. PICK j \in 1 .. i - 1 : q[j] = n
    BY <2>1 DEF FollowsIn
  <2>3. CASE j < k
    <3>1. r[j] = n /\ j \in 1 .. i
      BY <1>1, <2>2, <2>3
    <3> QED BY <3>1
  <2>4. CASE j >= k
    <3>1. r[j + 1] = n /\ j + 1 \in 1 .. i
      BY <1>1, <2>2, <2>4
    <3> QED BY <3>1
  <2> QED BY <2>3, <2>4
<1> QED BY <1>1, <1>2, <1>3

\* The hooks release handlers only, which does not put a user task ahead of
\* the one that leads.
LEMMA InvokeHandlerFollows ==
  ASSUME NEW s, NEW X \in SUBSET UserTask, Sound(s, X, {}), NEW h \in Handler,
         NEW c \in CPU, NEW n, FollowsIn(s.readyQ[c], n)
  PROVE  FollowsIn(InvokeHandler(s, h).readyQ[c], n)
<1> DEFINE r == InvokeHandler(s, h)
<1>1. h \in Task /\ h \notin UserTask /\ s \in RTsysType /\ Affinity[h] \in CPU
  BY TaskSorts, AttributesAssumption DEF AttributesAssumption, Sound
<1>2. CASE s.nbrInvocations[h] = 0
  <2> DEFINE a == Affinity[h]
             d == Unlink(s, h)
             Stays == {i \in 1 .. Len(d.readyQ[a]) : ~ PrioCmp(d, h, d.readyQ[a][i])}
             k == 1 + Max({0} \cup Stays)
             q == InsertAt(d.readyQ[a], k, h)
             m == MoveToReadyQ(s, h)
  <2>1. \A b \in CPU : h \notin ToSet(s.readyQ[b])
    <3>1. h \notin X \cup ActiveHandlers(s)
      BY <1>1, <1>2 DEF ActiveHandlers
    <3> QED BY <3>1 DEF Sound, Placed
  <2>2. d.readyQ = s.readyQ
    <3>1. d.readyQ = [s.readyQ EXCEPT ![a] = RemoveFirst(s.readyQ[a], h)]
      <4>1. h \notin Timer
        BY <1>1, TimerSorts
      <4> QED BY <1>1, <4>1, UnlinkRanks
    <3>2. s.readyQ \in [CPU -> Seq(Task)] /\ s.readyQ[a] \in Seq(Task)
      BY <1>1, RecordFields
    <3>3. ~ \E i \in 1 .. Len(s.readyQ[a]) : s.readyQ[a][i] = h
      BY <1>1, <2>1, <3>2, LenProperties DEF ToSet
    <3>4. RemoveFirst(s.readyQ[a], h) = s.readyQ[a]
      BY <3>3 DEF RemoveFirst
    <3> HIDE DEF d
    <3> QED BY <3>1, <3>2, <3>4
  <2>3. d \in RTsysType
    BY <1>1, UnlinkFacts DEF Sound
  <2>4. m = [d EXCEPT !.readyQ = [d.readyQ EXCEPT ![a] = q]]
    <3>1. m = [d EXCEPT !.readyQ[a] = q]
      BY DEF MoveToReadyQ, InsertSorted
    <3> HIDE DEF q, d, m
    <3> QED BY <2>3, <3>1 DEF RTsysType
  <2>5. k \in 1 .. Len(s.readyQ[a]) + 1 /\ s.readyQ[a] \in Seq(Task)
    <3>1. Stays \in SUBSET (1 .. Len(d.readyQ[a])) /\ s.readyQ[a] \in Seq(Task)
      BY <1>1, RecordFields
    <3> HIDE DEF Stays, d
    <3> QED BY <2>2, <3>1, InsertPosition
  <2>6. r = [[m EXCEPT !.state[h] = "READY"] EXCEPT !.nbrInvocations[h] = 1]
    BY <1>2 DEF InvokeHandler, MakeReady
  <2> HIDE DEF d, Stays, k, m
  <2>7. m.readyQ = [s.readyQ EXCEPT ![a] = q]
    BY <2>2, <2>3, <2>4 DEF RTsysType
  <2>8. r.readyQ = m.readyQ
    <3> HIDE DEF q, r
    <3> QED BY <2>3, <2>4, <2>6 DEF RTsysType
  <2>9. CASE c = a
    <3>1. r.readyQ[c] = InsertAt(s.readyQ[c], k, h)
      BY <1>1, <2>2, <2>7, <2>8, <2>9, RecordFields
    <3> QED BY <2>5, <2>9, <3>1, InsertFollows
  <2>10. CASE c # a
    <3>1. r.readyQ[c] = s.readyQ[c]
      BY <1>1, <2>7, <2>8, <2>10, RecordFields
    <3> QED BY <3>1
  <2> QED BY <2>9, <2>10
<1>3. CASE s.nbrInvocations[h] # 0
  <2>1. r = Enqueue(s, h)
    BY <1>3 DEF InvokeHandler
  <2>2. r.readyQ = s.readyQ
    BY <1>1, <2>1 DEF Enqueue, RTsysType
  <2> QED BY <2>2
<1> QED BY <1>2, <1>3

LEMMA SuspendHookFollows ==
  ASSUME NEW s, NEW X \in SUBSET UserTask, Sound(s, X, {}), NEW t \in UserTask,
         NEW c \in CPU, NEW n, FollowsIn(s.readyQ[c], n)
  PROVE  FollowsIn(SuspendHook(s, t).readyQ[c], n)
<1> DEFINE u == Unlink(s, WCETTimer(t))
<1>1. WCETTimer(t) \in Timer /\ SuspendHook(s, t) = ContextSwitch(u)
  BY TimerSorts DEF SuspendHook
<1>2. Sound(u, X, {}) /\ u.readyQ = s.readyQ
  BY <1>1, UnlinkSound, UnlinkRanks DEF Sound
<1> HIDE DEF u
<1>3. CASE ContextSwitchTime > 0
  <2>1. KernelHandler \in Handler
    BY <1>3, TasksAssumption, AttributesAssumption DEF TasksAssumption, AttributesAssumption
  <2>2. ContextSwitch(u) = InvokeHandler(u, KernelHandler)
    BY <1>3 DEF ContextSwitch
  <2> QED BY <1>1, <1>2, <2>1, <2>2, InvokeHandlerFollows
<1>4. CASE ~ (ContextSwitchTime > 0)
  BY <1>1, <1>2, <1>4 DEF ContextSwitch
<1> QED BY <1>3, <1>4

LEMMA SuspendedLined ==
  ASSUME NEW s, Lined(s), NEW c \in CPU, NEW new, Sound(s, ActiveUsers(s), {}),
         NEW r, r = Suspended(s, c, new)
  PROVE  /\ Lined(r) /\ KeepsUsers(s, r)
         /\ ContextSwitchTime = 0 => r.readyQ = s.readyQ
         /\ \A n : FollowsIn(s.readyQ[c], n) => FollowsIn(r.readyQ[c], n)
<1>1. CASE s.running[c] \in UserTask /\ s.running[c] # new
  <2>1. r = SuspendHook(s, s.running[c]) /\ s.running[c] \in UserTask
    BY <1>1 DEF Suspended
  <2> DEFINE X == ActiveUsers(s)
  <2>2. X \in SUBSET UserTask /\ Sound(s, X, {})
    BY DEF ActiveUsers
  <2> HIDE DEF X
  <2>3. \A n : FollowsIn(s.readyQ[c], n) => FollowsIn(r.readyQ[c], n)
    BY <2>1, <2>2, SuspendHookFollows
  <2> QED BY <2>1, <2>3, SuspendHookLined DEF RanksKept
<1>2. CASE ~ (s.running[c] \in UserTask /\ s.running[c] # new)
  BY <1>2, KeepsUsersReflexive DEF Suspended
<1> QED BY <1>1, <1>2

\* runningUser becomes the first user task of the ready queue: if that is
\* non-preemptible its place is right.
LEMMA RunningUserLined ==
  ASSUME NEW s, Lined(s), NEW c \in CPU, NEW t \in UserTask,
         NEW ru, ru = [s.runningUser EXCEPT ![c] = t],
         NEW r, r = [s EXCEPT !.runningUser = ru],
         Marked => Protected(s) \subseteq {t} /\ FollowsIn(s.readyQ[c], t)
  PROVE  Lined(r)
<1>1. s.runningUser \in [CPU -> UserTask \cup {None}] /\ s \in RTsysType
  BY RecordFields DEF Lined, Placeable
<1>2. /\ ru \in [CPU -> UserTask \cup {None}]
      /\ \A b \in CPU : ru[b] = IF b = c THEN t ELSE s.runningUser[b]
  BY <1>1
<1>3. /\ r \in RTsysType /\ r.readyQ = s.readyQ /\ r.timeQ = s.timeQ
      /\ r.running = s.running /\ r.tempPrio = s.tempPrio /\ r.runningUser = ru
      /\ r.absDeadline = s.absDeadline
  BY <1>1, <1>2 DEF RTsysType
<1>4. Placeable(r)
  BY <1>3 DEF Lined, Placeable, Placed
<1>5. ASSUME PrioCmpSorts, NonPreemptible = {}
      PROVE  Ranked(r)
  <2>1. Protected(s) = {} /\ Protected(r) = {}
    BY <1>5 DEF Protected
  <2>2. Ahead(r) = Ahead(s)
    <3>1. \A u \in UserTask : Prio(r, u) = Prio(s, u)
      BY <1>3, SamePrio
    <3>2. \A n, m \in Task : Outranks(r, n, m) <=> Outranks(s, n, m)
      BY <2>1, <3>1 DEF Outranks
    <3> QED BY <3>2 DEF Ahead
  <2> QED BY <1>3, <2>2 DEF Lined, Ranked
<1>6. ASSUME Marked
      PROVE  Ranked(r)
  <2>1. \A b \in CPU : b = c
    BY <1>6, MarkedMeansOneCPU
  <2>2. Protected(r) = NonPreemptible \cap {t} /\ Protected(s) \subseteq NonPreemptible \cap {t}
    BY <1>2, <1>3, <1>6, <2>1 DEF Protected
  <2> DEFINE q == s.readyQ[c]
  <2>3. q \in Seq(Task) /\ NoDuplicates(q) /\ \A i \in 1 .. Len(q) : q[i] \in Task
    BY LinedFields DEF Lined
  <2>4. OrderedBy(Ahead(s), q) /\ FollowsIn(q, t)
    BY <1>6 DEF Lined, Ranked, Marked
  <2> HIDE DEF q
  <2>5. \A u \in UserTask : Prio(r, u) = Prio(s, u)
    BY <1>3, SamePrio
  <2>6. ASSUME NEW i \in 1 .. Len(q), NEW j \in 1 .. Len(q), i < j
        PROVE  <<q[j], q[i]>> \notin Ahead(r)
    <3> SUFFICES ASSUME Outranks(r, q[j], q[i])
                 PROVE  FALSE
      BY <2>3, AheadFacts
    <3>1. ~ Outranks(s, q[j], q[i])
      BY <2>3, <2>4, <2>6, AheadFacts DEF OrderedBy
    <3>2. q[j] = t /\ q[i] \in UserTask
      BY <2>2, <2>5, <3>1 DEF Outranks
    <3>3. PICK k \in 1 .. i : q[k] = t
      BY <2>4, <3>2 DEF FollowsIn
    <3>4. k \in 1 .. Len(q) /\ j \in 1 .. Len(q) /\ k # j /\ q[k] = q[j]
      BY <2>3, <2>6, <3>2, <3>3, LenProperties
    <3>5. DOMAIN q = 1 .. Len(q)
      BY <2>3, LenProperties
    <3> QED BY <2>3, <3>4, <3>5 DEF NoDuplicates
  <2>7. OrderedBy(Ahead(r), r.readyQ[c])
    BY <1>3, <2>6 DEF OrderedBy, q
  <2> QED BY <2>1, <2>7 DEF Ranked
<1> QED BY <1>4, <1>5, <1>6 DEF Lined, Ranked, Marked

\* what the resume part of the third loop does to the CPUs
Takes(s, r, c, t) ==
  \A b \in CPU : r.runningUser[b] = IF b = c /\ t \in UserTask /\ t # s.running[c]
                                   THEN t ELSE s.runningUser[b]

LEMMA ResumedLined ==
  ASSUME NEW s, Lined(s), NEW c \in CPU, NEW new, NEW r, r = Resumed(s, c, new),
         Marked => FollowsIn(s.readyQ[c], new) /\ (new \in UserTask => Protected(s) \subseteq {new})
  PROVE  /\ Lined(r) /\ r.readyQ = s.readyQ /\ Takes(s, r, c, new)
         /\ \A u \in UserTask : Asleep(r, u) => Asleep(s, u)
<1>1. CASE new \notin UserTask \/ new = s.running[c]
  BY <1>1 DEF Resumed, Takes
<1>2. CASE ~ (new \notin UserTask \/ new = s.running[c])
  <2> DEFINE sg == [s.segment EXCEPT ![new] = 1]
             a == [s EXCEPT !.segment = sg]
             b == IF s.segment[new] = 0 THEN StartHook(a, new) ELSE ResumeHook(s, new)
             ru == [b.runningUser EXCEPT ![c] = new]
  <2>1. s \in RTsysType /\ new \in UserTask /\ new \in Task
    BY <1>2, TaskSorts DEF Lined, Placeable
  <2>2. sg \in [Task -> Nat] /\ [s EXCEPT !.segment[new] = 1] = a
    BY <2>1, RecordFields DEF RTsysType
  <2>3. r = [b EXCEPT !.runningUser[c] = new]
    BY <1>2, <2>2 DEF Resumed
  <2> HIDE DEF sg
  <2>4. /\ a \in RTsysType /\ a.readyQ = s.readyQ /\ a.timeQ = s.timeQ
        /\ a.running = s.running /\ a.tempPrio = s.tempPrio
        /\ a.runningUser = s.runningUser /\ a.absDeadline = s.absDeadline
    BY <2>1, <2>2 DEF RTsysType
  <2> HIDE DEF a
  <2>5. RanksKept(s, a)
    BY <2>4, FieldsRanksKept DEF Lined
  <2>6. RanksKept(s, b)
    BY <2>1, <2>5, ArmBudgetRanks, RanksKeptTransitive DEF StartHook, ResumeHook, Lined,
       RanksKept
  <2>7. /\ Lined(b) /\ b.readyQ = s.readyQ /\ b.runningUser = s.runningUser
        /\ \A u \in UserTask : Asleep(b, u) => Asleep(s, u)
    BY <2>6, RanksKeptLined DEF RanksKept, KeepsUsers
  <2> HIDE DEF b
  <2>8. b \in RTsysType /\ b.runningUser \in [CPU -> UserTask \cup {None}]
    BY <2>7, RecordFields DEF Lined, Placeable
  <2>9. r = [b EXCEPT !.runningUser = ru]
    BY <2>3, <2>8 DEF RTsysType
  <2>10. /\ r.readyQ = b.readyQ /\ r.timeQ = b.timeQ
         /\ \A d \in CPU : r.runningUser[d] = IF d = c THEN new ELSE b.runningUser[d]
    BY <2>8, <2>9 DEF RTsysType
  <2>11. Lined(r)
    <3>1. Marked => Protected(b) \subseteq {new} /\ FollowsIn(b.readyQ[c], new)
      BY <2>1, <2>7 DEF Protected
    <3> QED BY <2>1, <2>7, <2>9, <3>1, RunningUserLined
  <2> QED BY <1>2, <2>7, <2>10, <2>11 DEF Takes, Asleep
<1> QED BY <1>1, <1>2

\* The third loop puts the head of the queue of CPU c on it.
LEMMA DispatchedLined ==
  ASSUME NEW s, Lined(s), Reserved(s), NEW c \in CPU, Sound(s, ActiveUsers(s), {}),
         NEW d, d = Dispatched(s, c)
  PROVE  /\ Lined(d) /\ Reserved(d) /\ d.running[c] = First(d.readyQ[c])
         /\ \A b \in CPU : b # c => d.running[b] = s.running[b]
         /\ ContextSwitchTime = 0 => d.readyQ = s.readyQ
         /\ Takes(s, d, c, First(s.readyQ[c]))
<1> DEFINE X == ActiveUsers(s)
           new == First(s.readyQ[c])
           a == Suspended(s, c, new)
           r == Resumed(a, c, new)
           run == First(r.readyQ[c])
           ru == [r.running EXCEPT ![c] = run]
           st == IF run = None THEN r.state ELSE [r.state EXCEPT ![run] = "RUNNING"]
<1>1. d = LET z == [r EXCEPT !.running[c] = run]
          IN  IF run = None THEN z ELSE [z EXCEPT !.state[run] = "RUNNING"]
  BY Zenon DEF Dispatched
<1>2. FollowsIn(s.readyQ[c], new)
  BY RecordFields, FirstIsFollowed DEF Lined, Placeable
<1>3. ASSUME Marked, new \in UserTask
      PROVE  Protected(s) \subseteq {new}
  <2> SUFFICES ASSUME NEW t \in Protected(s)
               PROVE  t = new
    OBVIOUS
  <2>1. t \in ToSet(s.readyQ[c])
    BY <1>3, MarkedMeansOneCPU DEF Reserved, Protected
  <2> HIDE DEF new
  <2> QED BY <1>3, <2>1, ProtectedIsFirst DEF new
<1> HIDE DEF new, X
<1>4. /\ Lined(a) /\ KeepsUsers(s, a) /\ Sound(a, X, {}) /\ Steady(s, a)
      /\ ContextSwitchTime = 0 => a.readyQ = s.readyQ
      /\ FollowsIn(a.readyQ[c], new)
  BY <1>2, SuspendedFacts, SuspendedLined DEF X
<1> HIDE DEF a
<1>5. Marked => FollowsIn(a.readyQ[c], new) /\ (new \in UserTask => Protected(a) \subseteq {new})
  BY <1>3, <1>4 DEF KeepsUsers, Protected
<1>6. /\ Lined(r) /\ r.readyQ = a.readyQ /\ Takes(a, r, c, new) /\ Steady(a, r)
      /\ \A u \in UserTask : Asleep(r, u) => Asleep(a, u)
  BY <1>4, <1>5, ResumedFacts, ResumedLined
<1> HIDE DEF r
<1>7. r.running = s.running
  BY <1>4, <1>6 DEF Steady
<1>8. /\ r \in RTsysType /\ r.readyQ[c] \in Seq(Task) /\ r.state \in [Task -> State]
      /\ r.running \in [CPU -> Task \cup {None}]
  BY <1>6, RecordFields DEF Lined, Placeable
<1>9. run # None => run \in ToSet(r.readyQ[c]) /\ run \in Task /\ Affinity[run] = c
  BY <1>6, <1>8, FirstFacts DEF Lined, Placeable, Placed
<1>10. run \in UserTask => run = new
  <2> SUFFICES ASSUME run \in UserTask
               PROVE  run = new
    OBVIOUS
  <2>1. r.readyQ[c] # << >>
    BY TasksAssumption DEF First, TasksAssumption, Task
  <2>2. 1 \in 1 .. Len(r.readyQ[c]) /\ run = r.readyQ[c][1]
    BY <1>8, <2>1, EmptySeq, LenProperties DEF First
  <2> HIDE DEF run
  <2>3. \E j \in 1 .. 1 : r.readyQ[c][j] = new
    BY <1>4, <1>6, <2>2 DEF FollowsIn
  <2> QED BY <2>2, <2>3
<1> HIDE DEF run
<1>11. d = [r EXCEPT !.running = ru, !.state = st]
  <2>1. CASE run = None
    BY <1>1, <1>8, <2>1 DEF RTsysType
  <2>2. CASE run # None
    BY <1>1, <1>8, <2>2 DEF RTsysType
  <2> QED BY <2>1, <2>2
<1>12. /\ ru \in [CPU -> Task \cup {None}]
       /\ \A b \in CPU : ru[b] = IF b = c THEN run ELSE r.running[b]
       /\ st \in [Task -> State]
  BY <1>8, <1>9 DEF State
<1> HIDE DEF ru, st
<1>13. /\ d \in RTsysType /\ d.running = ru /\ d.readyQ = r.readyQ /\ d.timeQ = r.timeQ
       /\ d.tempPrio = r.tempPrio /\ d.runningUser = r.runningUser
       /\ d.absDeadline = r.absDeadline
  BY <1>8, <1>11, <1>12 DEF RTsysType
<1>14. Lined(d)
  <2>1. Placed(d, Task)
    BY <1>6, <1>9, <1>12, <1>13 DEF Placed, Lined, Placeable
  <2>2. Ahead(d) = Ahead(r)
    BY <1>13, SameAhead
  <2> QED BY <1>6, <1>13, <2>1, <2>2 DEF Lined, Placeable, Ranked
<1>15. d.running[c] = First(d.readyQ[c])
  BY <1>12, <1>13 DEF run
<1>16. \A b \in CPU : b # c => d.running[b] = s.running[b]
  BY <1>7, <1>12, <1>13
<1>17. ContextSwitchTime = 0 => d.readyQ = s.readyQ
  BY <1>4, <1>6, <1>13
<1>18. Takes(s, d, c, new)
  BY <1>4, <1>6, <1>13 DEF Takes, KeepsUsers
<1>19. Reserved(d)
  <2> SUFFICES ASSUME Marked
               PROVE  /\ d.runningUser[c] \in NonPreemptible => d.runningUser[c] \in ToSet(d.readyQ[c])
                      /\ d.running[c] \in UserTask => d.running[c] = d.runningUser[c]
                      /\ \A u \in UserTask : ~ Asleep(d, u)
    <3>1. Marked => \A b \in CPU : b = c
      BY MarkedMeansOneCPU
    <3> QED BY <3>1 DEF Reserved
  <2>1. \A u \in UserTask : ~ Asleep(d, u)
    BY <1>4, <1>6, <1>13 DEF Reserved, KeepsUsers, Asleep
  <2>2. d.runningUser[c] = IF new \in UserTask THEN new ELSE s.runningUser[c]
    BY <1>18 DEF Takes, Reserved
  <2>3. d.running[c] \in UserTask => d.running[c] = d.runningUser[c]
    BY <1>10, <1>12, <1>13, <2>2
  <2>4. new \in UserTask => new \in ToSet(s.readyQ[c])
    BY RecordFields, FirstFacts, TaskSorts, TasksAssumption
       DEF new, Lined, Placeable, TasksAssumption, Task
  <2>5. d.runningUser[c] \in NonPreemptible => d.runningUser[c] \in ToSet(d.readyQ[c])
    <3> SUFFICES ASSUME d.runningUser[c] \in NonPreemptible
                 PROVE  d.runningUser[c] \in ToSet(d.readyQ[c])
      OBVIOUS
    <3>1. d.runningUser[c] \in ToSet(s.readyQ[c])
      BY <2>2, <2>4 DEF Reserved
    <3>2. d.runningUser[c] \in UserTask
      BY MarkedMeansOneCPU
    <3> QED BY <1>4, <1>6, <1>13, <3>1, <3>2 DEF KeepsUsers
  <2> QED BY <2>1, <2>3, <2>5
<1> QED BY <1>14, <1>15, <1>16, <1>17, <1>18, <1>19 DEF new

-----------------------------------------------------------------------------
(***************************************************************************)
(* The invariant: the ready queues are in order, and a CPU runs the head   *)
(* of its queue from the third loop on until the next kernel run.          *)
(***************************************************************************)
HeadsRun(s, C) == \A c \in C : s.running[c] = First(s.readyQ[c])

Prioritized(s, p, n) ==
  /\ Lined(s) /\ Reserved(s)
  /\ Marked => n \notin UserTask
  /\ p = "dispatch" => HeadsRun(s, {c \in CPU : c < s.currentCPU})
  /\ p = "advance" \/ (p = "idle" /\ s.time < s.nextHit) => HeadsRun(s, CPU)

PInv == KernelInv /\ Prioritized(rtsys, pc, next)

\* Every step but that of the third loop leaves a CPU to its user task or to
\* nobody.
CPUsAreKept == \A c \in CPU : rtsys'.runningUser[c] \in {rtsys.runningUser[c], None}
Proceeds    == Prioritized(rtsys', pc', next') /\ (Marked => CPUsAreKept)

\* in the first two loops the order is all there is to show
LEMMA LinedIsEnough ==
  ASSUME NEW s, Lined(s), Reserved(s), NEW p \in {"count", "segment", "timers", "aborted"},
         NEW n, Marked => n \notin UserTask
  PROVE  Prioritized(s, p, n)
  BY DEF Prioritized

LEMMA PInvFacts ==
  ASSUME PInv
  PROVE  /\ Lined(rtsys) /\ rtsys \in RTsysType /\ Sound(rtsys, ActiveUsers(rtsys), {})
         /\ rtsys.currentCPU \in CPU /\ timeElapsed \in Nat
         /\ Current # None => Current \in Task
         /\ Reserved(rtsys) /\ (Marked => next \notin UserTask)
  BY IInvFacts, CurrentIsActive DEF PInv, KernelInv, Prioritized

\* next is only used in the second loop, and no user task is in the time queue.
LEMMA NoNext ==
  ASSUME IInv', pc' # "timers"
  PROVE  next' \notin UserTask
  BY TasksAssumption DEF IInv, Consistent, TasksAssumption, Task

LEMMA NextIsNoUser ==
  ASSUME NEW s, Reserved(s), s \in RTsysType, NEW n, n = None \/ n \in ToSet(s.timeQ)
  PROVE  Marked => n \notin UserTask
  BY TasksAssumption DEF Reserved, Asleep, TasksAssumption, Task

\* a step that changes fields no order depends on
LEMMA QuietLined ==
  ASSUME PInv, IInv',
         rtsys'.readyQ = rtsys.readyQ, rtsys'.timeQ = rtsys.timeQ,
         rtsys'.running = rtsys.running,
         rtsys'.tempPrio = rtsys.tempPrio /\ rtsys'.runningUser = rtsys.runningUser,
         rtsys'.absDeadline = rtsys.absDeadline
  PROVE  Lined(rtsys') /\ Reserved(rtsys') /\ CPUsAreKept
<1>1. rtsys' \in RTsysType
  BY DEF IInv, Consistent, Sound
<1>2. RanksKept(rtsys, rtsys')
  BY <1>1, PInvFacts, FieldsRanksKept DEF Lined
<1> QED BY <1>2, PInvFacts, RanksKeptLined, ReservedKept DEF CPUsAreKept, KeepsUsers

LEMMA NextCPULined ==
  ASSUME NEW s, Lined(s), Reserved(s), IInv', NextCPU(s),
         \A c \in CPU : s.runningUser[c] \in {rtsys.runningUser[c], None}
  PROVE  Proceeds
<1>1. rtsys' \in RTsysType
  BY DEF IInv, Consistent, Sound
<1>2. /\ rtsys'.readyQ = s.readyQ /\ rtsys'.timeQ = s.timeQ /\ rtsys'.running = s.running
      /\ rtsys'.tempPrio = s.tempPrio /\ rtsys'.runningUser = s.runningUser
      /\ rtsys'.absDeadline = s.absDeadline
      /\ pc' \in {"count", "timers"}
  BY DEF NextCPU, Lined, Placeable, RTsysType
<1>3. RanksKept(s, rtsys')
  BY <1>1, <1>2, FieldsRanksKept DEF Lined
<1>4. Lined(rtsys') /\ Reserved(rtsys')
  BY <1>3, RanksKeptLined, ReservedKept
<1>5. Marked => next' \notin UserTask
  <2>1. CASE pc' # "timers"
    BY <2>1, NoNext
  <2>2. CASE pc' = "timers"
    <3>1. next' = First(s.timeQ)
      BY <2>2 DEF NextCPU
    <3>2. s.timeQ \in Seq(QItem) /\ s \in RTsysType
      BY RecordFields DEF Lined, Placeable
    <3> QED BY <3>1, <3>2, FirstFacts, NextIsNoUser
  <2> QED BY <2>1, <2>2
<1> QED BY <1>2, <1>4, <1>5, LinedIsEnough DEF Proceeds, CPUsAreKept

LEMMA RunKernelPrioritized ==
  ASSUME PInv, IInv', RunKernel
  PROVE  Proceeds
<1>1. /\ rtsys'.readyQ = rtsys.readyQ /\ rtsys'.timeQ = rtsys.timeQ
      /\ rtsys'.running = rtsys.running /\ rtsys'.tempPrio = rtsys.tempPrio
      /\ rtsys'.runningUser = rtsys.runningUser
      /\ rtsys'.absDeadline = rtsys.absDeadline /\ pc' = "count"
  BY PInvFacts DEF RunKernel, RTsysType
<1> QED BY <1>1, QuietLined, NoNext, LinedIsEnough DEF Proceeds

\* An interrupt that finds its handler idle makes a kernel run due.
LEMMA InterruptPrioritized ==
  ASSUME PInv, IInv', NEW h \in External, NEW t \in 0 .. MaxTime, Interrupt(h, t)
  PROVE  Proceeds
<1> DEFINE a == [rtsys EXCEPT !.time = t]
           s == InvokeHandler(a, h)
           r == IF s.nbrInvocations[h] = 1 THEN [s EXCEPT !.nextHit = t] ELSE s
<1>1. /\ rtsys' = r /\ pc = "idle" /\ pc' = pc
      /\ t >= rtsys.time /\ t <= rtsys.nextHit
  BY DEF Interrupt
<1>2. h \in Handler /\ h \in Task /\ t \in Nat
  BY TasksAssumption, BoundsAssumption, TaskSorts DEF TasksAssumption, BoundsAssumption
<1>3. /\ a \in RTsysType /\ a.readyQ = rtsys.readyQ /\ a.timeQ = rtsys.timeQ
      /\ a.running = rtsys.running /\ a.tempPrio = rtsys.tempPrio
      /\ a.runningUser = rtsys.runningUser
      /\ a.absDeadline = rtsys.absDeadline /\ a.time = t /\ a.nextHit = rtsys.nextHit
      /\ a.nbrInvocations = rtsys.nbrInvocations
  BY <1>2, PInvFacts DEF RTsysType
<1> HIDE DEF a
<1>4. RanksKept(rtsys, a) /\ Lined(a) /\ KeepsUsers(rtsys, a)
  BY <1>3, PInvFacts, FieldsRanksKept, RanksKeptLined DEF Lined
<1>5. Lined(s) /\ KeepsUsers(rtsys, s)
  BY <1>2, <1>4, InvokeHandlerLined, KeepsUsersTransitive
<1>6. next' \notin UserTask
  BY <1>1, NoNext
<1>7. CASE s.nbrInvocations[h] = 1
  <2>1. Sound(a, ActiveUsers(a), {})
    <3>1. SameQueues(rtsys, a)
      BY <1>3 DEF SameQueues, Runnable, Waits, a
    <3>2. ActiveUsers(a) = ActiveUsers(rtsys)
      BY <1>3 DEF ActiveUsers
    <3> QED BY <1>3, <3>1, <3>2, PInvFacts, SameQueuesSound
  <2>2. s.time = t
    BY <1>2, <1>3, <2>1, InvokeHandlerFacts DEF Steady
  <2>3. rtsys' = [s EXCEPT !.nextHit = t]
    BY <1>1, <1>7
  <2> HIDE DEF s, r
  <2>4. /\ rtsys'.readyQ = s.readyQ /\ rtsys'.timeQ = s.timeQ /\ rtsys'.running = s.running
        /\ rtsys'.tempPrio = s.tempPrio /\ rtsys'.runningUser = s.runningUser
        /\ rtsys'.absDeadline = s.absDeadline
        /\ rtsys'.time = rtsys'.nextHit /\ rtsys'.time \in Int /\ rtsys' \in RTsysType
    <3>1. s \in RTsysType
      BY <1>5 DEF Lined, Placeable
    <3>2. rtsys' \in RTsysType
      BY DEF IInv, Consistent, Sound
    <3>3. /\ rtsys'.readyQ = s.readyQ /\ rtsys'.timeQ = s.timeQ
          /\ rtsys'.running = s.running
          /\ rtsys'.tempPrio = s.tempPrio /\ rtsys'.runningUser = s.runningUser
          /\ rtsys'.absDeadline = s.absDeadline
      BY <2>3, <3>1 DEF RTsysType
    <3>4. rtsys'.time = s.time /\ rtsys'.nextHit = t
      BY <2>3, <3>1 DEF RTsysType
    <3> QED BY <1>2, <2>2, <3>2, <3>3, <3>4
  <2>5. Lined(rtsys') /\ KeepsUsers(rtsys, rtsys')
    BY <1>5, <2>4, FieldsRanksKept, RanksKeptLined, KeepsUsersTransitive DEF Lined
  <2>6. Reserved(rtsys') /\ CPUsAreKept
    BY <2>5, PInvFacts, ReservedKept DEF CPUsAreKept, KeepsUsers
  <2> QED BY <1>1, <1>6, <2>4, <2>5, <2>6 DEF Prioritized, Proceeds
<1>8. CASE s.nbrInvocations[h] # 1
  <2>1. a.nbrInvocations[h] # 0
    <3> SUFFICES ASSUME a.nbrInvocations[h] = 0
                 PROVE  FALSE
      OBVIOUS
    <3> DEFINE m == MakeReady(a, h)
    <3>1. s = [m EXCEPT !.nbrInvocations[h] = 1]
      BY DEF InvokeHandler
    <3>2. Lined(m)
      BY <1>2, <1>4, MakeReadyLined, ProtectedAreUsers, TaskSorts
    <3> HIDE DEF m, s
    <3>3. s.nbrInvocations[h] = 1
      BY <1>2, <3>1, <3>2, SetCountFacts DEF Lined, Placeable
    <3> QED BY <1>8, <3>3
  <2>2. s = Enqueue(a, h)
    BY <2>1 DEF InvokeHandler
  <2>3. rtsys' = s
    BY <1>1, <1>8
  <2>4. /\ s.readyQ = a.readyQ /\ s.running = a.running
        /\ s.time = a.time /\ s.nextHit = a.nextHit
    BY <1>3, <2>2 DEF Enqueue, RTsysType
  <2> HIDE DEF s
  <2>5. ASSUME rtsys'.time < rtsys'.nextHit
        PROVE  HeadsRun(rtsys', CPU)
    <3>1. rtsys.time < rtsys.nextHit
      BY <1>1, <1>2, <1>3, <2>3, <2>4, <2>5, PInvFacts, RecordFields
    <3>2. HeadsRun(rtsys, CPU)
      BY <1>1, <3>1 DEF PInv, Prioritized
    <3> QED BY <1>3, <2>3, <2>4, <3>2 DEF HeadsRun
  <2>6. Reserved(rtsys') /\ CPUsAreKept
    BY <1>5, <2>3, PInvFacts, ReservedKept DEF CPUsAreKept, KeepsUsers
  <2> QED BY <1>1, <1>5, <1>6, <2>3, <2>5, <2>6 DEF Prioritized, Proceeds
<1> QED BY <1>7, <1>8

LEMMA CountPrioritized ==
  ASSUME PInv, IInv', SkipCPU \/ CountDown \/ StartSegment
  PROVE  Proceeds
<1> DEFINE s == Charge(rtsys, Current)
<1>1. CASE SkipCPU
  <2>1. \A c \in CPU : rtsys.runningUser[c] \in {rtsys.runningUser[c], None}
    OBVIOUS
  <2> QED BY <1>1, <2>1, PInvFacts, NextCPULined DEF SkipCPU
<1>2. CASE CountDown
  <2>1. RanksKept(rtsys, s) /\ NextCPU(s)
    BY <1>2, PInvFacts, ChargeRanks DEF CountDown, Lined
  <2> HIDE DEF s
  <2>2. /\ Lined(s) /\ Reserved(s)
        /\ \A c \in CPU : s.runningUser[c] \in {rtsys.runningUser[c], None}
    BY <2>1, PInvFacts, RanksKeptLined, ReservedKept DEF KeepsUsers
  <2> QED BY <2>1, <2>2, NextCPULined
<1>3. CASE StartSegment
  <2>1. RanksKept(rtsys, s)
    BY <1>3, PInvFacts, ChargeRanks DEF StartSegment, Lined
  <2>2. /\ rtsys' = [s EXCEPT !.segment[Current] = s.nextSegment[Current],
                              !.nextSegment[Current] = s.nextSegment[Current] + 1]
        /\ pc' = "segment"
    BY <1>3 DEF StartSegment
  <2> HIDE DEF s
  <2>3. rtsys' \in RTsysType
    BY DEF IInv, Consistent, Sound
  <2>4. /\ rtsys'.readyQ = s.readyQ /\ rtsys'.timeQ = s.timeQ /\ rtsys'.running = s.running
        /\ rtsys'.tempPrio = s.tempPrio /\ rtsys'.runningUser = s.runningUser
        /\ rtsys'.absDeadline = s.absDeadline
    BY <2>1, <2>2 DEF RanksKept, Placeable, RTsysType
  <2>5. RanksKept(s, rtsys')
    BY <2>1, <2>3, <2>4, FieldsRanksKept DEF RanksKept
  <2>6. RanksKept(rtsys, rtsys')
    BY <2>1, <2>5, RanksKeptTransitive
  <2>7. Lined(rtsys') /\ Reserved(rtsys') /\ CPUsAreKept
    BY <2>6, PInvFacts, RanksKeptLined, ReservedKept DEF KeepsUsers, CPUsAreKept
  <2> QED BY <2>2, <2>7, NoNext, LinedIsEnough DEF Proceeds
<1> QED BY <1>1, <1>2, <1>3

\* a primitive that the code segment calls, or its illegal end
LEMMA CallPrioritized ==
  ASSUME PInv, IInv', SegmentCall \/ FinishBlocked, "ttKillJob" \notin Primitives
  PROVE  Proceeds
<1>1. pc = "segment" /\ Current \in Task
  BY PInvFacts DEF SegmentCall, CreateJob, KillJob, SleepUntil, SetAbsDeadline,
                   SetNextSegment, Calling, FinishBlocked, PInv, KernelInv, IInv, Consistent, Current
<1>2. rtsys' = rtsys /\ pc' \in {"segment", "aborted"} => Proceeds
  BY PInvFacts, NoNext, LinedIsEnough DEF Proceeds, CPUsAreKept
<1>3. Lined(rtsys') /\ KeepsUsers(rtsys, rtsys') /\ pc' = pc => Proceeds
  BY <1>1, PInvFacts, NoNext, LinedIsEnough, ReservedKept
     DEF Proceeds, CPUsAreKept, KeepsUsers
<1>4. Lined(rtsys') /\ ~ Marked /\ pc' = pc => Proceeds
  BY <1>1, LinedIsEnough DEF Proceeds, Reserved
<1>5. CASE FinishBlocked
  BY <1>2, <1>5 DEF FinishBlocked, Abort
<1>6. CASE \E t \in UserTask : CreateJob(t)
  BY <1>3, <1>6, PInvFacts, InvokeUserTaskLined DEF CreateJob
<1>7. CASE \E d \in SleepTimes : SleepUntil(rtsys.time + d)
  <2>1. PICK d \in SleepTimes : SleepUntil(rtsys.time + d)
    BY <1>7
  <2> DEFINE time == rtsys.time + d
             t == Current
  <2>2. CASE t \in Handler
    BY <1>2, <2>1, <2>2 DEF SleepUntil, Abort
  <2>3. CASE t \notin Handler
    <3>1. t \in UserTask /\ time \in Int
      BY <1>1, <2>3, PInvFacts, RecordFields, TaskSorts,
         BoundsAssumption DEF BoundsAssumption
    <3>2. pc' = pc /\ rtsys' = IF time <= rtsys.time THEN rtsys ELSE SleepingTask(rtsys, t, time)
      BY <2>1, <2>3 DEF SleepUntil, SleepingTask
    <3>3. ~ Marked
      BY <2>1 DEF SleepUntil, Calling, Marked, PrioCmpSorts
    <3> HIDE DEF t, time
    <3> QED BY <1>4, <3>1, <3>2, <3>3, PInvFacts, SleepingTaskLined
  <2> QED BY <2>2, <2>3
<1>8. CASE \E t \in UserTask, d \in NewDeadlines : SetAbsDeadline(t, rtsys.time + d)
  <2>1. PICK t \in UserTask, d \in NewDeadlines : SetAbsDeadline(t, rtsys.time + d)
    BY <1>8
  <2> DEFINE time == rtsys.time + d
  <2>2. CASE rtsys.nbrInvocations[t] = 0
    BY <1>1, <1>2, <2>1, <2>2 DEF SetAbsDeadline, Abort
  <2>3. CASE rtsys.nbrInvocations[t] # 0
    <3>1. time \in Int
      BY PInvFacts, RecordFields, BoundsAssumption DEF BoundsAssumption
    <3>2. pc' = pc /\ rtsys' = Rearranged(rtsys, t, time)
      BY <2>1, <2>3 DEF SetAbsDeadline, Rearranged
    <3>3. PrioCmpSorts => NonPreemptible = {}
      BY <2>1 DEF SetAbsDeadline, Calling, PrioCmpSorts
    <3> HIDE DEF time
    <3> QED BY <1>4, <3>1, <3>2, <3>3, PInvFacts, RearrangedLined DEF Marked
  <2> QED BY <2>2, <2>3
<1>9. CASE \E seg \in 0 .. MaxSegment : SetNextSegment(seg)
  <2>1. PICK seg \in 0 .. MaxSegment : SetNextSegment(seg)
    BY <1>9
  <2>2. CASE seg > 0
    <3>1. rtsys' = [rtsys EXCEPT !.nextSegment[Current] = seg] /\ pc' = pc
      BY <2>1, <2>2 DEF SetNextSegment
    <3>2. /\ rtsys'.readyQ = rtsys.readyQ /\ rtsys'.timeQ = rtsys.timeQ
          /\ rtsys'.running = rtsys.running /\ rtsys'.tempPrio = rtsys.tempPrio
          /\ rtsys'.runningUser = rtsys.runningUser
          /\ rtsys'.absDeadline = rtsys.absDeadline
      BY <3>1, PInvFacts DEF RTsysType
    <3>3. Lined(rtsys') /\ Reserved(rtsys') /\ CPUsAreKept
      BY <3>2, QuietLined
    <3> QED BY <1>1, <3>1, <3>3, NoNext, LinedIsEnough DEF Proceeds
  <2>3. CASE ~ (seg > 0)
    BY <1>2, <2>1, <2>3 DEF SetNextSegment, Abort
  <2> QED BY <2>2, <2>3
<1>10. CASE \E t \in UserTask : KillJob(t)
  BY <1>10 DEF KillJob, Calling
<1> QED BY <1>5, <1>6, <1>7, <1>8, <1>9, <1>10 DEF SegmentCall

LEMMA SegmentEndPrioritized ==
  ASSUME PInv, IInv',
         JobFinishes \/ \E e \in ExecTimes \cup {ContextSwitchTime} : SegmentReturns(e)
  PROVE  Proceeds
<1> DEFINE t == Current
<1>1. t \in Task /\ rtsys.running[rtsys.currentCPU] = t
  BY PInvFacts DEF JobFinishes, SegmentReturns, PInv, KernelInv, IInv, Consistent, Current
<1>2. CASE JobFinishes
  <2> DEFINE r == ReleasePending(EndJob(rtsys, t), t)
  <2>1. NextCPU(r)
    BY <1>2 DEF JobFinishes
  <2>2. Lined(r) /\ Reserved(r) /\ Vacates(rtsys, r)
    BY <1>1, PInvFacts, FinishLined
  <2> HIDE DEF r
  <2> QED BY <2>1, <2>2, NextCPULined DEF Vacates
<1>3. CASE \E e \in ExecTimes \cup {ContextSwitchTime} : SegmentReturns(e)
  <2>1. PICK e \in ExecTimes \cup {ContextSwitchTime} : SegmentReturns(e)
    BY <1>3
  <2> DEFINE ex == [rtsys.execTime EXCEPT ![t] = e]
             r == [rtsys EXCEPT !.execTime = ex]
  <2>2. e \in Int
    BY BoundsAssumption, AttributesAssumption DEF BoundsAssumption, AttributesAssumption
  <2>3. [rtsys EXCEPT !.execTime[t] = e] = r /\ ex \in [Task -> Int]
    BY <1>1, <2>2, PInvFacts, RecordFields DEF RTsysType
  <2>4. NextCPU(r)
    BY <2>1, <2>3 DEF SegmentReturns
  <2> HIDE DEF ex
  <2>5. /\ r \in RTsysType /\ r.readyQ = rtsys.readyQ /\ r.timeQ = rtsys.timeQ
        /\ r.running = rtsys.running /\ r.tempPrio = rtsys.tempPrio
        /\ r.runningUser = rtsys.runningUser
        /\ r.absDeadline = rtsys.absDeadline
    BY <2>3, PInvFacts DEF RTsysType
  <2> HIDE DEF r
  <2>6. RanksKept(rtsys, r)
    BY <2>5, PInvFacts, FieldsRanksKept DEF Lined
  <2>7. Lined(r) /\ Reserved(r)
    BY <2>6, PInvFacts, RanksKeptLined, ReservedKept
  <2> QED BY <2>4, <2>5, <2>7, NextCPULined
<1> QED BY <1>2, <1>3

LEMMA NextOfStaysTimer ==
  ASSUME PInv
  PROVE  Marked => NextOf(rtsys.timeQ, next) \notin UserTask
<1>1. rtsys.timeQ \in Seq(QItem) /\ rtsys \in RTsysType /\ Reserved(rtsys)
  BY PInvFacts, RecordFields
<1> QED BY <1>1, NextOfFacts, NextIsNoUser

LEMMA TimerExpiresPrioritized ==
  ASSUME PInv, IInv', TimerExpires
  PROVE  Proceeds
<1> DEFINE x == TimerTask(next)
           s == InvokeTask(rtsys, x)
           pe == [s.expiry EXCEPT ![next] = s.expiry[next] + Period[next[2]]]
           p == [s EXCEPT !.expiry = pe]
<1>1. /\ pc = "timers" /\ pc' = pc /\ next \in Timer
      /\ next' = NextOf(rtsys.timeQ, next)
      /\ rtsys' = IF IsPeriodic(next)
                  THEN MoveToTimeQ([s EXCEPT !.expiry[next] = s.expiry[next] + Period[next[2]]], next)
                  ELSE Unlink(s, next)
  BY Zenon DEF TimerExpires
<1>2. x \in Task /\ next \in QItem
  BY <1>1 DEF PInv, KernelInv, IInv, Consistent, Handled, QItem
<1>3. Lined(s) /\ KeepsUsers(rtsys, s)
  BY <1>2, PInvFacts, InvokeTaskLined
<1> HIDE DEF s
<1>4. Lined(rtsys') /\ KeepsUsers(s, rtsys')
  <2>1. CASE IsPeriodic(next)
    <3>1. s.expiry \in [Timer -> Int] /\ s \in RTsysType
      BY <1>3, RecordFields DEF Lined, Placeable
    <3>2. Period[next[2]] \in Int
      BY <1>1, AttributesAssumption DEF AttributesAssumption, Timer
    <3>3. pe \in [Timer -> Int]
      BY <1>1, <3>1, <3>2
    <3>4. rtsys' = MoveToTimeQ(p, next)
      BY <1>1, <2>1, <3>1 DEF RTsysType
    <3> HIDE DEF pe
    <3>5. /\ p \in RTsysType /\ p.readyQ = s.readyQ /\ p.timeQ = s.timeQ
          /\ p.running = s.running /\ p.tempPrio = s.tempPrio
          /\ p.runningUser = s.runningUser
          /\ p.absDeadline = s.absDeadline
      BY <3>1, <3>3 DEF RTsysType
    <3> HIDE DEF p
    <3>6. Lined(p) /\ KeepsUsers(s, p)
      BY <1>3, <3>5, FieldsRanksKept, RanksKeptLined DEF Lined
    <3>7. Lined(rtsys') /\ KeepsUsers(p, rtsys')
      BY <1>1, <1>2, <3>4, <3>6, MoveToTimeQLined
    <3> QED BY <3>6, <3>7, KeepsUsersTransitive
  <2>2. CASE ~ IsPeriodic(next)
    BY <1>1, <1>3, <2>2, UnlinkTimer, RanksKeptLined DEF Lined
  <2> QED BY <2>1, <2>2
<1>5. KeepsUsers(rtsys, rtsys')
  BY <1>3, <1>4, KeepsUsersTransitive
<1>6. Reserved(rtsys') /\ CPUsAreKept
  BY <1>5, PInvFacts, ReservedKept DEF CPUsAreKept, KeepsUsers
<1>7. Marked => next' \notin UserTask
  BY <1>1, PInvFacts, NextOfStaysTimer
<1> QED BY <1>1, <1>4, <1>6, <1>7, LinedIsEnough DEF Proceeds

LEMMA TaskWakesPrioritized ==
  ASSUME PInv, IInv', TaskWakes
  PROVE  Proceeds
<1>1. pc' = "timers" /\ rtsys' = MakeReady(rtsys, next) /\ next \in Task
      /\ next \in UserTask
  BY TaskSorts DEF TaskWakes
<1>2. ~ Marked
  BY <1>1, PInvFacts
<1>3. PrioCmpSorts => next \notin Protected(rtsys)
  BY <1>2, ProtectedAreUsers DEF Marked
<1>4. Lined(rtsys')
  BY <1>1, <1>3, PInvFacts, MakeReadyLined
<1> QED BY <1>1, <1>2, <1>4, LinedIsEnough DEF Proceeds, Reserved

LEMMA ScanEndsPrioritized ==
  ASSUME PInv, IInv', ScanEnds
  PROVE  Proceeds
<1>1. /\ rtsys'.readyQ = rtsys.readyQ /\ rtsys'.timeQ = rtsys.timeQ
      /\ rtsys'.running = rtsys.running /\ rtsys'.tempPrio = rtsys.tempPrio
      /\ rtsys'.runningUser = rtsys.runningUser
      /\ rtsys'.absDeadline = rtsys.absDeadline /\ rtsys'.currentCPU = 0
      /\ pc' = "dispatch"
  BY PInvFacts DEF ScanEnds, RTsysType
<1>2. \A c \in CPU : ~ (c < 0)
  BY DEF CPU
<1> QED BY <1>1, <1>2, QuietLined, NoNext DEF Proceeds, Prioritized, HeadsRun

\* The hooks of a dispatch leave the queues of the other CPUs alone.
LEMMA DispatchPrioritized ==
  ASSUME PInv, IInv', Dispatch, NbrOfCPUs = 1 \/ ContextSwitchTime = 0
  PROVE  Prioritized(rtsys', pc', next')
<1> DEFINE c == rtsys.currentCPU
           d == Dispatched(rtsys, c)
<1>1. /\ pc = "dispatch"
      /\ IF c < NbrOfCPUs - 1
         THEN rtsys' = [d EXCEPT !.currentCPU = d.currentCPU + 1] /\ pc' = pc
         ELSE rtsys' = d /\ pc' = "advance"
  BY DEF Dispatch
<1>2. /\ Lined(d) /\ Reserved(d) /\ d.running[c] = First(d.readyQ[c])
      /\ \A b \in CPU : b # c => d.running[b] = rtsys.running[b]
      /\ ContextSwitchTime = 0 => d.readyQ = rtsys.readyQ
  BY PInvFacts, DispatchedLined
<1>3. d.currentCPU = c
  BY PInvFacts, DispatchedFacts DEF SameClock
<1> HIDE DEF d
<1>4. c \in Nat /\ c <= NbrOfCPUs - 1 /\ NbrOfCPUs \in Nat
  BY PInvFacts, AttributesAssumption DEF AttributesAssumption, CPU
<1>5. \A b \in CPU : b <= c => d.running[b] = First(d.readyQ[b])
  <2> SUFFICES ASSUME NEW b \in CPU, b <= c
               PROVE  d.running[b] = First(d.readyQ[b])
    OBVIOUS
  <2>1. CASE b = c
    BY <1>2, <2>1
  <2>2. CASE b # c
    <3>1. b \in Int /\ b < c /\ b >= 0
      BY <1>4, <2>2 DEF CPU
    <3>2. ContextSwitchTime = 0
      BY <1>4, <3>1
    <3>3. rtsys.running[b] = First(rtsys.readyQ[b])
      BY <1>1, <3>1 DEF PInv, Prioritized, HeadsRun
    <3> QED BY <1>2, <2>2, <3>2, <3>3
  <2> QED BY <2>1, <2>2
<1>6. CASE c < NbrOfCPUs - 1
  <2>1. /\ rtsys'.readyQ = d.readyQ /\ rtsys'.timeQ = d.timeQ /\ rtsys'.running = d.running
        /\ rtsys'.tempPrio = d.tempPrio /\ rtsys'.runningUser = d.runningUser
        /\ rtsys'.absDeadline = d.absDeadline
        /\ rtsys'.currentCPU = c + 1 /\ pc' = "dispatch"
    BY <1>1, <1>2, <1>3, <1>6 DEF Lined, Placeable, RTsysType
  <2>2. rtsys' \in RTsysType
    BY DEF IInv, Consistent, Sound
  <2>3. Lined(rtsys') /\ Reserved(rtsys')
    BY <1>2, <2>1, <2>2, FieldsRanksKept, RanksKeptLined, ReservedKept DEF Lined
  <2>4. \A b \in CPU : b < rtsys'.currentCPU => b <= c
    BY <1>4, <2>1 DEF CPU
  <2>5. HeadsRun(rtsys', {b \in CPU : b < rtsys'.currentCPU})
    BY <1>5, <2>1, <2>4 DEF HeadsRun
  <2> QED BY <2>1, <2>3, <2>5, NoNext DEF Prioritized
<1>7. CASE ~ (c < NbrOfCPUs - 1)
  <2>1. rtsys' = d /\ pc' = "advance"
    BY <1>1, <1>7
  <2>2. \A b \in CPU : b <= c
    BY <1>4, <1>7 DEF CPU
  <2>3. HeadsRun(rtsys', CPU)
    BY <1>5, <2>1, <2>2 DEF HeadsRun
  <2> QED BY <1>2, <2>1, <2>3, NoNext DEF Prioritized
<1> QED BY <1>6, <1>7

LEMMA AdvancePrioritized ==
  ASSUME PInv, IInv', AnotherPass \/ \E timestep \in Candidates : NextInvocation(timestep)
  PROVE  Proceeds
<1>1. /\ rtsys'.readyQ = rtsys.readyQ /\ rtsys'.timeQ = rtsys.timeQ
      /\ rtsys'.running = rtsys.running /\ rtsys'.tempPrio = rtsys.tempPrio
      /\ rtsys'.runningUser = rtsys.runningUser
      /\ rtsys'.absDeadline = rtsys.absDeadline
      /\ pc = "advance" /\ pc' \in {"idle", "count", "aborted"}
  BY PInvFacts DEF AnotherPass, Abort, NextInvocation, RTsysType
<1>2. Lined(rtsys') /\ Reserved(rtsys') /\ CPUsAreKept
  BY <1>1, QuietLined
<1>3. HeadsRun(rtsys', CPU)
  BY <1>1 DEF PInv, Prioritized, HeadsRun
<1> QED BY <1>1, <1>2, <1>3, NoNext DEF Proceeds, Prioritized

LEMMA InitialPrioritized ==
  ASSUME Init
  PROVE  PInv
<1>1. KernelInv /\ rtsys \in RTsysType /\ Sound(rtsys, ActiveUsers(rtsys), {})
  BY InitialState, IInvFacts DEF KernelInv
<1>2. /\ rtsys.readyQ = [c \in CPU |-> << >>] /\ rtsys.running = [c \in CPU |-> None]
      /\ rtsys.time = 0 /\ rtsys.nextHit = 0 /\ pc = "idle"
  BY DEF Init, InitialRTsys
<1>3. Placed(rtsys, Task)
  BY <1>1, TaskSorts, PlacedMonotone DEF Sound, ActiveUsers, ActiveHandlers
<1>4. Lined(rtsys)
  BY <1>1, <1>2, <1>3 DEF Lined, Placeable, Ranked, OrderedBy
<1>5. Reserved(rtsys) /\ next \notin UserTask
  <2>1. None \notin UserTask /\ None \notin NonPreemptible
    BY TasksAssumption DEF TasksAssumption, Task
  <2>2. PICK q \in InitialTimeQs : rtsys = InitialRTsys(q)
    BY DEF Init
  <2>3. rtsys.runningUser = [c \in CPU |-> None] /\ rtsys.timeQ = q
    BY <2>2 DEF InitialRTsys
  <2>4. ToSet(q) \subseteq Timer
    BY TimerSorts DEF InitialTimeQs, ToSet, Started
  <2>5. \A u \in UserTask : ~ Asleep(rtsys, u)
    BY <2>3, <2>4, TimerSorts DEF Asleep
  <2>6. next = None
    BY DEF Init
  <2> QED BY <1>2, <2>1, <2>3, <2>5, <2>6 DEF Reserved
<1> QED BY <1>1, <1>2, <1>4, <1>5 DEF PInv, Prioritized

LEMMA PrioritizedStep ==
  ASSUME NbrOfCPUs = 1 \/ ContextSwitchTime = 0, "ttKillJob" \notin Primitives,
         PInv, [Next]_vars
  PROVE  PInv' /\ (Marked => CPUsAreKept \/ Dispatch)
<1>1. KernelInv' /\ IInv'
  BY KernelInvStep DEF PInv, KernelInv
<1>2. CASE UNCHANGED vars
  <2>1. rtsys' = rtsys /\ pc' = pc /\ next' = next
    BY <1>2 DEF vars
  <2> QED BY <1>1, <2>1 DEF PInv, Prioritized, CPUsAreKept
<1> USE <1>1 DEF PInv, Proceeds
<1>3. CASE RunKernel
  BY <1>3, RunKernelPrioritized
<1>4. CASE \E h \in External, t \in 0 .. MaxTime : Interrupt(h, t)
  BY <1>4, InterruptPrioritized
<1>5. CASE SkipCPU \/ CountDown \/ StartSegment
  BY <1>5, CountPrioritized
<1>6. CASE SegmentCall \/ FinishBlocked
  BY <1>6, CallPrioritized
<1>7. CASE JobFinishes \/ \E e \in ExecTimes \cup {ContextSwitchTime} : SegmentReturns(e)
  BY <1>7, SegmentEndPrioritized
<1>8. CASE TimerExpires \/ TaskWakes \/ ScanEnds
  BY <1>8, TimerExpiresPrioritized, TaskWakesPrioritized, ScanEndsPrioritized
<1>9. CASE Dispatch
  BY <1>9, DispatchPrioritized
<1>10. CASE AnotherPass \/ \E timestep \in Candidates : NextInvocation(timestep)
  BY <1>10, AdvancePrioritized
<1> QED BY <1>2, <1>3, <1>4, <1>5, <1>6, <1>7, <1>8, <1>9, <1>10
        DEF Next, KernelStep, RunStep

\* Between two kernel runs every CPU runs the task of its ready queue that goes
\* first by handler and priority, under fixed priorities, deadline monotonic
\* and earliest deadline first (prioCmp, the third loop of runKernel), although
\* the deadlines change by hooks and by ttSetAbsDeadline.
THEOREM HighestPriorityTasksRun ==
  ASSUME PrioCmpSorts, NbrOfCPUs = 1 \/ ContextSwitchTime = 0,
         "ttKillJob" \notin Primitives
  PROVE  Spec => []HighestPriorityRuns
<1>1. PInv => HighestPriorityRuns
  <2> SUFFICES ASSUME PInv, Settled, NEW c \in CPU
               PROVE  LET r == rtsys.running[c]
                          ready == ToSet(rtsys.readyQ[c])
                      IN  /\ r = None <=> ready = {}
                          /\ r \in UserTask =>
                               /\ ready \cap Handler = {}
                               /\ r \in NonPreemptible
                                    \/ \A t \in ready : Prio(rtsys, r) <= Prio(rtsys, t)
                          /\ r \in Handler =>
                               r \in NonPreemptible
                                 \/ \A h \in ready \cap Handler : Priority[r] <= Priority[h]
    BY DEF HighestPriorityRuns
  <2> DEFINE r == rtsys.running[c]
             ready == ToSet(rtsys.readyQ[c])
  <2>1. r = First(rtsys.readyQ[c])
    BY DEF PInv, Prioritized, Settled, HeadsRun
  <2>2. /\ r = None <=> ready = {}
        /\ r # None => \A t \in ready : ~ Outranks(rtsys, t, r)
    BY <2>1, HeadIsNotOutranked DEF PInv, Prioritized
  <2>3. ready \subseteq Task
    BY LinedFields, LenProperties DEF PInv, Prioritized, Lined, ToSet
  <2>4. \A t \in UserTask : Prio(rtsys, t) \in Int
    BY PrioTypes DEF PInv, Prioritized, Lined, Placeable
  <2>5. \A t \in Task : Priority[t] \in Int
    BY PrioTypes DEF PInv, Prioritized, Lined, Placeable
  <2> HIDE DEF r, ready
  <2>6. ASSUME r \in UserTask
        PROVE  /\ ready \cap Handler = {}
               /\ r \in NonPreemptible \/ \A t \in ready : Prio(rtsys, r) <= Prio(rtsys, t)
    <3>0. r # None
      BY <2>6, TasksAssumption DEF TasksAssumption, Task
    <3>1. ready \cap Handler = {}
      BY <2>2, <2>6, <3>0, TaskSorts DEF Outranks
    <3>2. ASSUME r \notin NonPreemptible, NEW t \in ready
          PROVE  Prio(rtsys, r) <= Prio(rtsys, t)
      <4>1. t \in UserTask /\ r \notin Protected(rtsys)
        BY <2>3, <3>1, <3>2, TaskSorts DEF Protected
      <4>2. ~ (Prio(rtsys, t) < Prio(rtsys, r))
        BY <2>2, <2>6, <3>0, <4>1 DEF Outranks
      <4> QED BY <2>4, <2>6, <4>1, <4>2
    <3> QED BY <3>1, <3>2
  <2>7. ASSUME r \in Handler
        PROVE  \A h \in ready \cap Handler : Priority[r] <= Priority[h]
    BY <2>2, <2>5, <2>7, TaskSorts DEF Outranks
  <2> QED BY <2>2, <2>6, <2>7 DEF r, ready
<1>2. Spec => []PInv
  BY InitialPrioritized, PrioritizedStep, PTL DEF Spec
<1> QED BY <1>1, <1>2, PTL

\* The third loop gives the CPU of a non-preemptible task that is in the ready
\* queue to no other.
LEMMA DispatchKeepsCPU ==
  ASSUME PInv, Dispatch, Marked, NEW c \in CPU,
         rtsys.runningUser[c] \in NonPreemptible,
         rtsys.runningUser[c] \in ToSet(rtsys.readyQ[c])
  PROVE  rtsys'.runningUser[c] = rtsys.runningUser[c]
<1> DEFINE t == rtsys.runningUser[c]
           new == First(rtsys.readyQ[c])
           d == Dispatched(rtsys, c)
<1>1. rtsys.currentCPU = c
  BY PInvFacts, MarkedMeansOneCPU
<1>2. rtsys' = [d EXCEPT !.currentCPU = d.currentCPU + 1] \/ rtsys' = d
  BY <1>1 DEF Dispatch
<1>3. Lined(d) /\ Takes(rtsys, d, c, new)
  BY PInvFacts, DispatchedLined
<1> HIDE DEF d
<1>4. rtsys'.runningUser = d.runningUser
  BY <1>2, <1>3 DEF Lined, Placeable, RTsysType
<1>5. new \in UserTask => new = t
  <2>1. t \in Protected(rtsys)
    BY DEF Protected
  <2> HIDE DEF t, new
  <2> QED BY <2>1, PInvFacts, ProtectedIsFirst DEF t, new
<1> QED BY <1>3, <1>4, <1>5 DEF Takes

\* A user task marked by ttNonPreemptible gives its CPU to another one only when
\* its job ends (prioCmp, the third loop of runKernel): on one CPU, and where no
\* code segment sleeps, sets an absolute deadline or kills a job.
THEOREM NonPreemptibleTasksKeepCPU ==
  ASSUME PrioCmpSorts, "ttKillJob" \notin Primitives
  PROVE  Spec => NonPreemptibleKeepsCPU
<1> DEFINE Keeps ==
             \A c \in CPU :
               LET t == rtsys.runningUser[c]
                   u == rtsys'.runningUser[c]
               IN  t \in NonPreemptible /\ rtsys.segment[t] > 0 /\ u \notin {t, None} =>
                     t \notin ToSet(rtsys.readyQ[c])
<1>1. CASE NonPreemptible = {}
  <2>1. [Next]_vars => [Keeps]_vars
    BY <1>1
  <2> QED BY <2>1, PTL DEF Spec, NonPreemptibleKeepsCPU
<1>2. CASE NonPreemptible # {}
  <2>1. Marked /\ NbrOfCPUs = 1
    BY <1>2, MarkedMeansOneCPU DEF Marked
  <2>2. PInv /\ [Next]_vars => PInv' /\ (CPUsAreKept \/ Dispatch)
    BY <2>1, PrioritizedStep
  <2>3. PInv /\ [Next]_vars => [Keeps]_vars
    <3> SUFFICES ASSUME PInv, [Next]_vars
                 PROVE  Keeps
      OBVIOUS
    <3>1. CASE CPUsAreKept
      BY <3>1 DEF CPUsAreKept
    <3>2. CASE Dispatch
      BY <2>1, <3>2, DispatchKeepsCPU
    <3> QED BY <2>2, <3>1, <3>2
  <2> HIDE DEF Keeps
  <2>4. Spec => []PInv
    BY <2>2, InitialPrioritized, PTL DEF Spec
  <2> QED BY <2>3, <2>4, PTL DEF Spec, NonPreemptibleKeepsCPU, Keeps
<1> QED BY <1>1, <1>2
=============================================================================
