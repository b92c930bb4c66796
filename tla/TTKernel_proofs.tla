--------------------------- MODULE TTKernel_proofs --------------------------
(***************************************************************************)
(* Theorems about TTKernel, for every set of tasks and handlers, every     *)
(* assignment of their attributes and every number of CPUs, and in the last *)
(* part what the proofs of the blocking primitives share.                  *)
(*                                                                         *)
(* The inductive invariant IInv joins facts that only hold together:       *)
(* nbrInvocations counts the pending list of every task, a task with an    *)
(* active job waits in one queue and one without is in no queue and on no  *)
(* CPU, except while the hooks move it, and the next pointer saved by the  *)
(* time queue scan is null or may be handled.  Each operator of the model  *)
(* has a lemma on what it preserves, then each action, then Next.          *)
(***************************************************************************)
EXTENDS TTSync, QueueLemmas, FiniteSetTheorems, TLAPS

\* Every queue holds each of its entries once and only tasks of X, a ready
\* queue only tasks of its CPU, and CPUs run only tasks of X that are theirs.
Placed(s, X) ==
  /\ \A c \in CPU : /\ NoDuplicates(s.readyQ[c])
                    /\ \A t \in ToSet(s.readyQ[c]) : t \in X /\ Affinity[t] = c
  /\ NoDuplicates(s.timeQ)
  /\ \A n \in ToSet(s.timeQ) : IF n \in Timer THEN TimerTask(n) \in Task ELSE n \in X
  /\ \A c \in CPU : s.running[c] # None => s.running[c] \in X /\ Affinity[s.running[c]] = c

\* The fields that moving a node between lists leaves alone.
SameJobs(s, r) ==
  /\ r.time = s.time /\ r.prevHit = s.prevHit /\ r.nextHit = s.nextHit
  /\ r.currentCPU = s.currentCPU /\ r.running = s.running
  /\ r.runningUser = s.runningUser
  /\ r.segment = s.segment /\ r.nextSegment = s.nextSegment
  /\ r.nbrInvocations = s.nbrInvocations /\ r.pending = s.pending
  /\ r.arrival = s.arrival /\ r.release = s.release

\* Both states hold the same entries other than n in the same queues.
Elsewhere(s, r, n) ==
  \A u : u # n => /\ \A c \in CPU : u \in ToSet(r.readyQ[c]) <=> u \in ToSet(s.readyQ[c])
                  /\ u \in ToSet(r.timeQ) <=> u \in ToSet(s.timeQ)

LEMMA RecordFields ==
  ASSUME NEW s \in RTsysType
  PROVE  /\ s.readyQ \in [CPU -> Seq(Task)] /\ s.timeQ \in Seq(QItem)
         /\ s.state \in [Task -> State] /\ s.expiry \in [Timer -> Int]
         /\ s.running \in [CPU -> Task \cup {None}]
         /\ s.runningUser \in [CPU -> UserTask \cup {None}]
         /\ s.nbrInvocations \in [Task -> Int] /\ s.pending \in [Task -> Seq(Nat)]
         /\ s.segment \in [Task -> Nat] /\ s.nextSegment \in [Task -> Nat]
         /\ s.execTime \in [Task -> Int]
         /\ s.arrival \in [UserTask -> Int] /\ s.release \in [UserTask -> Int]
         /\ s.absDeadline \in [UserTask -> Int] /\ s.budget \in [UserTask -> Int]
         /\ s.time \in Nat /\ s.prevHit \in Nat /\ s.nextHit \in Nat /\ s.currentCPU \in CPU
  BY DEF RTsysType

\* Node::remove
LEMMA UnlinkFacts ==
  ASSUME NEW s \in RTsysType, NEW n \in Task \cup Timer, NEW X, Placed(s, X)
  PROVE  LET r == Unlink(s, n)
         IN  /\ r \in RTsysType /\ SameJobs(s, r)
             /\ Placed(r, X)
             /\ n \notin ToSet(r.timeQ)
             /\ n \in Task => \A c \in CPU : n \notin ToSet(r.readyQ[c])
             /\ r.state = s.state /\ Elsewhere(s, r, n)
<1> DEFINE tq == RemoveFirst(s.timeQ, n)
           rq == IF n \in Timer THEN s.readyQ
                 ELSE [s.readyQ EXCEPT ![Affinity[n]] = RemoveFirst(s.readyQ[Affinity[n]], n)]
           r  == Unlink(s, n)
<1>1. n \notin Timer => n \in Task /\ Affinity[n] \in CPU
  BY AttributesAssumption DEF AttributesAssumption
<1>2. /\ tq \in Seq(QItem) /\ NoDuplicates(tq) /\ ToSet(tq) = ToSet(s.timeQ) \ {n}
  BY RecordFields, RemoveFirstFacts DEF Placed
<1>3. \A c \in CPU : LET q == RemoveFirst(s.readyQ[c], n)
                     IN  q \in Seq(Task) /\ NoDuplicates(q) /\ ToSet(q) = ToSet(s.readyQ[c]) \ {n}
  BY RecordFields, RemoveFirstFacts DEF Placed
<1>4. /\ rq \in [CPU -> Seq(Task)]
      /\ \A c \in CPU : /\ NoDuplicates(rq[c]) /\ ToSet(rq[c]) \subseteq ToSet(s.readyQ[c])
                      /\ \A u : u # n => (u \in ToSet(rq[c]) <=> u \in ToSet(s.readyQ[c]))
      /\ n \in Task => \A c \in CPU : n \notin ToSet(rq[c])
  <2>1. CASE n \in Timer
    <3>1. n \notin Task
      BY <2>1, TasksAssumption DEF TasksAssumption
    <3> QED BY <2>1, <3>1, RecordFields DEF Placed
  <2>2. CASE n \notin Timer
    <3>1. \A c \in CPU : rq[c] = IF c = Affinity[n] THEN RemoveFirst(s.readyQ[c], n) ELSE s.readyQ[c]
      BY <2>2, <1>1, RecordFields
    <3>2. rq \in [CPU -> Seq(Task)]
      BY <2>2, <1>1, <1>3, RecordFields
    <3>3. ASSUME NEW c \in CPU, c # Affinity[n] PROVE n \notin ToSet(s.readyQ[c])
      BY <3>3 DEF Placed
    <3> HIDE DEF rq
    <3> QED BY <3>1, <3>2, <3>3, <1>3 DEF Placed
  <2> QED BY <2>1, <2>2
<1>5. r = [s EXCEPT !.readyQ = rq, !.timeQ = tq, !.state = s.state, !.expiry = s.expiry]
  <2>1. CASE n \in Timer
    BY <2>1 DEF RTsysType, Unlink
  <2>2. CASE n \notin Timer
    BY <2>2 DEF RTsysType, Unlink
  <2> QED BY <2>1, <2>2
<1> HIDE DEF tq, rq, r
<1>6. /\ r \in RTsysType /\ SameJobs(s, r)
      /\ r.readyQ = rq /\ r.timeQ = tq /\ r.state = s.state
  <2>1. s.state \in [Task -> State] /\ s.expiry \in [Timer -> Int]
    BY RecordFields
  <2>2. rq \in [CPU -> Seq(Task)] /\ tq \in Seq(QItem)
    BY <1>2, <1>4
  <2> QED BY <1>5, <2>1, <2>2 DEF RTsysType, SameJobs
<1>7. Placed(r, X)
  BY <1>2, <1>4, <1>6 DEF Placed, SameJobs
<1>8. Elsewhere(s, r, n)
  BY <1>2, <1>4, <1>6 DEF Elsewhere
<1> QED BY <1>2, <1>4, <1>6, <1>7, <1>8 DEF r

LEMMA TimerSorts ==
  /\ Task \cap Timer = {} /\ UserTask \subseteq Task /\ QItem \subseteq Task \cup Timer
  /\ \A t \in UserTask : /\ Activation(t) \in Timer /\ DLTimer(t) \in Timer
                         /\ WCETTimer(t) \in Timer
                         /\ TimerTask(Activation(t)) = t
                         /\ TimerTask(DLTimer(t)) = DLHandler[t]
                         /\ TimerTask(WCETTimer(t)) = WCETHandler[t]
  BY TasksAssumption DEF TasksAssumption, Task, QItem, Timer, TimerTask,
                         Activation, DLTimer, WCETTimer

LEMMA PlacedMonotone ==
  ASSUME NEW s, NEW X, NEW Y, X \subseteq Y, Placed(s, X)
  PROVE  Placed(s, Y)
  BY DEF Placed

\* moveToList(readyQs[affinity]) of a task
LEMMA MoveToReadyQFacts ==
  ASSUME NEW s \in RTsysType, NEW t \in Task, NEW X, Placed(s, X)
  PROVE  LET r == MoveToReadyQ(s, t)
         IN  /\ r \in RTsysType /\ SameJobs(s, r)
             /\ Placed(r, X \cup {t})
             /\ r.state = s.state /\ Elsewhere(s, r, t)
             /\ t \in ToSet(r.readyQ[Affinity[t]]) /\ t \notin ToSet(r.timeQ)
<1> DEFINE d == Unlink(s, t)
           a == Affinity[t]
           Stays == {i \in 1 .. Len(d.readyQ[a]) : ~ PrioCmp(d, t, d.readyQ[a][i])}
           k == 1 + Max({0} \cup Stays)
           q == InsertAt(d.readyQ[a], k, t)
           r == MoveToReadyQ(s, t)
<1>1. /\ d \in RTsysType /\ SameJobs(s, d) /\ Placed(d, X)
      /\ \A c \in CPU : t \notin ToSet(d.readyQ[c])
      /\ t \notin ToSet(d.timeQ) /\ d.state = s.state /\ Elsewhere(s, d, t)
  BY UnlinkFacts
<1>2. a \in CPU
  BY AttributesAssumption DEF AttributesAssumption
<1>3. r = [d EXCEPT !.readyQ = [d.readyQ EXCEPT ![a] = q]]
  <2>1. r = [d EXCEPT !.readyQ[a] = q]
    BY DEF MoveToReadyQ, InsertSorted
  <2> HIDE DEF r, q, d
  <2> QED BY <2>1, <1>1 DEF RTsysType
<1>4. q \in Seq(Task) /\ NoDuplicates(q) /\ ToSet(q) = ToSet(d.readyQ[a]) \cup {t}
  <2>1. d.readyQ[a] \in Seq(Task) /\ NoDuplicates(d.readyQ[a]) /\ t \notin ToSet(d.readyQ[a])
    <3> HIDE DEF d
    <3> QED BY <1>1, <1>2, RecordFields DEF Placed
  <2>2. Stays \in SUBSET (1 .. Len(d.readyQ[a]))
    OBVIOUS
  <2>3. k \in 1 .. Len(d.readyQ[a]) + 1
    <3> HIDE DEF Stays, d
    <3> QED BY <2>1, <2>2, InsertPosition
  <2> HIDE DEF k, d
  <2> QED BY <2>1, <2>3, InsertAtSet
<1> HIDE DEF q, d, r
<1>5. [d.readyQ EXCEPT ![a] = q] \in [CPU -> Seq(Task)]
  BY <1>1, <1>4, RecordFields
<1>6. /\ r \in RTsysType /\ SameJobs(d, r) /\ r.timeQ = d.timeQ
      /\ r.readyQ = [d.readyQ EXCEPT ![a] = q] /\ r.state = d.state
  BY <1>1, <1>3, <1>5 DEF RTsysType, SameJobs
<1>7. \A c \in CPU : r.readyQ[c] = IF c = a THEN q ELSE d.readyQ[c]
  BY <1>1, <1>6, RecordFields
<1>8. r.running = d.running
  BY <1>6 DEF SameJobs
<1>9. Placed(r, X \cup {t})
  BY <1>1, <1>2, <1>4, <1>6, <1>7, <1>8 DEF Placed
<1>10. Elsewhere(s, r, t)
  BY <1>1, <1>4, <1>6, <1>7 DEF Elsewhere
<1>11. t \in ToSet(r.readyQ[a]) /\ t \notin ToSet(r.timeQ)
  BY <1>1, <1>2, <1>4, <1>6, <1>7
<1> QED BY <1>1, <1>6, <1>9, <1>10, <1>11 DEF SameJobs, r

LEMMA MakeReadyFacts ==
  ASSUME NEW s \in RTsysType, NEW t \in Task, NEW X, Placed(s, X)
  PROVE  LET r == MakeReady(s, t)
         IN  /\ r \in RTsysType /\ SameJobs(s, r)
             /\ Placed(r, X \cup {t})
             /\ Elsewhere(s, r, t) /\ r.state = [s.state EXCEPT ![t] = "READY"]
             /\ t \in ToSet(r.readyQ[Affinity[t]]) /\ t \notin ToSet(r.timeQ)
<1> DEFINE m == MoveToReadyQ(s, t)
           r == MakeReady(s, t)
<1>1. /\ m \in RTsysType /\ SameJobs(s, m) /\ Placed(m, X \cup {t})
      /\ m.state = s.state /\ Elsewhere(s, m, t)
      /\ t \in ToSet(m.readyQ[Affinity[t]]) /\ t \notin ToSet(m.timeQ)
  BY MoveToReadyQFacts
<1>2. r = [m EXCEPT !.state[t] = "READY"]
  BY DEF MakeReady
<1> HIDE DEF m, r
<1>3. r = [m EXCEPT !.state = [m.state EXCEPT ![t] = "READY"]]
  BY <1>1, <1>2 DEF RTsysType
<1>4. [m.state EXCEPT ![t] = "READY"] \in [Task -> State]
  BY <1>1, RecordFields DEF State
<1>5. /\ r \in RTsysType /\ SameJobs(m, r) /\ r.timeQ = m.timeQ /\ r.readyQ = m.readyQ
      /\ r.state = [s.state EXCEPT ![t] = "READY"]
  BY <1>1, <1>3, <1>4 DEF RTsysType, SameJobs
<1>6. Placed(r, X \cup {t})
  BY <1>1, <1>5 DEF Placed, SameJobs
<1>7. Elsewhere(s, r, t)
  BY <1>1, <1>5 DEF Elsewhere
<1> QED BY <1>1, <1>5, <1>6, <1>7 DEF SameJobs, r

\* moveToList(timeQ) of a timer or of a user task
LEMMA MoveToTimeQFacts ==
  ASSUME NEW s \in RTsysType, NEW n \in QItem, NEW X, Placed(s, X),
         n \in Timer => TimerTask(n) \in Task
  PROVE  LET r == MoveToTimeQ(s, n)
         IN  /\ r \in RTsysType /\ SameJobs(s, r)
             /\ Placed(r, X \cup ({n} \ Timer))
             /\ r.state = s.state /\ Elsewhere(s, r, n) /\ n \in ToSet(r.timeQ)
             /\ n \in Task => \A c \in CPU : n \notin ToSet(r.readyQ[c])
<1> DEFINE d == Unlink(s, n)
           Stays == {i \in 1 .. Len(d.timeQ) : ~ (Wakeup(d, n) < Wakeup(d, d.timeQ[i]))}
           k == 1 + Max({0} \cup Stays)
           q == InsertAt(d.timeQ, k, n)
           r == MoveToTimeQ(s, n)
<1>1. /\ d \in RTsysType /\ SameJobs(s, d) /\ Placed(d, X) /\ n \notin ToSet(d.timeQ)
      /\ d.state = s.state /\ Elsewhere(s, d, n)
      /\ n \in Task => \A c \in CPU : n \notin ToSet(d.readyQ[c])
  BY UnlinkFacts, TimerSorts
<1>2. r = [d EXCEPT !.timeQ = q]
  BY DEF MoveToTimeQ, InsertSorted
<1>3. q \in Seq(QItem) /\ NoDuplicates(q) /\ ToSet(q) = ToSet(d.timeQ) \cup {n}
  <2>1. d.timeQ \in Seq(QItem) /\ NoDuplicates(d.timeQ)
    <3> HIDE DEF d
    <3> QED BY <1>1, RecordFields DEF Placed
  <2>2. Stays \in SUBSET (1 .. Len(d.timeQ))
    OBVIOUS
  <2>3. k \in 1 .. Len(d.timeQ) + 1
    <3> HIDE DEF Stays, d
    <3> QED BY <2>1, <2>2, InsertPosition
  <2> HIDE DEF k, d
  <2> QED BY <2>1, <2>3, <1>1, InsertAtSet
<1> HIDE DEF q, d, r
<1>4. /\ r \in RTsysType /\ SameJobs(d, r) /\ r.timeQ = q /\ r.readyQ = d.readyQ
      /\ r.state = d.state
  BY <1>1, <1>2, <1>3 DEF RTsysType, SameJobs
<1>5. Placed(r, X \cup ({n} \ Timer))
  BY <1>1, <1>3, <1>4 DEF Placed, SameJobs
<1>6. Elsewhere(s, r, n)
  BY <1>1, <1>3, <1>4 DEF Elsewhere
<1> QED BY <1>1, <1>3, <1>4, <1>5, <1>6 DEF SameJobs, r

LEMMA ArmFacts ==
  ASSUME NEW s \in RTsysType, NEW tm \in Timer, NEW time \in Int, NEW X, Placed(s, X),
         TimerTask(tm) \in Task
  PROVE  LET r == Arm(s, tm, time)
         IN  /\ r \in RTsysType /\ SameJobs(s, r) /\ Placed(r, X)
             /\ r.state = s.state /\ Elsewhere(s, r, tm)
<1> DEFINE e == [s EXCEPT !.expiry[tm] = time]
<1>1. e = [s EXCEPT !.expiry = [s.expiry EXCEPT ![tm] = time]]
  BY DEF RTsysType
<1>2. [s.expiry EXCEPT ![tm] = time] \in [Timer -> Int]
  BY RecordFields
<1> HIDE DEF e
<1>3. /\ e \in RTsysType /\ SameJobs(s, e) /\ e.timeQ = s.timeQ /\ e.readyQ = s.readyQ
      /\ e.state = s.state
  BY <1>1, <1>2 DEF RTsysType, SameJobs
<1>4. Placed(e, X)
  BY <1>3 DEF Placed, SameJobs
<1> DEFINE r == MoveToTimeQ(e, tm)
<1>5. /\ r \in RTsysType /\ SameJobs(e, r) /\ Placed(r, X \cup ({tm} \ Timer))
      /\ r.state = e.state /\ Elsewhere(e, r, tm)
  BY <1>3, <1>4, MoveToTimeQFacts DEF QItem
<1>6. X \cup ({tm} \ Timer) = X
  OBVIOUS
<1>7. Arm(s, tm, time) = r
  BY DEF Arm, e
<1> HIDE DEF r
<1>8. Elsewhere(s, r, tm)
  BY <1>3, <1>5 DEF Elsewhere
<1> QED BY <1>3, <1>5, <1>6, <1>7, <1>8 DEF SameJobs

-----------------------------------------------------------------------------
(***************************************************************************)
(* invoke_task and the hooks.  While a job ends or is released, its task   *)
(* is in transit: U holds the tasks whose job count is being updated, X    *)
(* the user tasks that may be queued.                                      *)
(***************************************************************************)
Counted(s, t) ==
  /\ s.nbrInvocations[t] >= 0
  /\ Len(s.pending[t]) = IF s.nbrInvocations[t] = 0 THEN 0 ELSE s.nbrInvocations[t] - 1

Ready(s, t)    == t \in ToSet(s.readyQ[Affinity[t]])
Asleep(s, t)   == t \in ToSet(s.timeQ)
Runnable(s, t) == s.state[t] \in {"READY", "RUNNING"}

\* A blocked task, in no ready queue until a primitive releases it.  (No task
\* blocks where jobs are killed.)
Waits(s, t)  == "ttKillJob" \notin Primitives /\ s.state[t] = "WAITING"
Parked(s, t) == Waits(s, t) /\ ~ Ready(s, t)

\* An active job waits in one queue or is blocked, and the state of its task
\* tells which.  (ttKillJob makes a task ready without setting its state.)
HasPlace(s, t) ==
  /\ s.nbrInvocations[t] > 0 => Ready(s, t) \/ Asleep(s, t) \/ Waits(s, t)
  /\ ~ (Ready(s, t) /\ Asleep(s, t))
  /\ Waits(s, t) => t \in UserTask /\ s.nbrInvocations[t] > 0 /\ ~ Asleep(s, t)
  /\ "ttKillJob" \notin Primitives =>
       /\ Runnable(s, t) => Ready(s, t)
       /\ Ready(s, t) => Runnable(s, t) \/ Waits(s, t)

SameView(s, r, t) ==
  /\ Ready(r, t) <=> Ready(s, t)
  /\ Asleep(r, t) <=> Asleep(s, t)
  /\ Runnable(r, t) <=> Runnable(s, t)
  /\ Waits(r, t) <=> Waits(s, t)

\* No task begins to wait, and the blocked tasks remain the same.
WaitKept(s, r, t) ==
  /\ Waits(r, t) => Waits(s, t)
  /\ Parked(r, t) <=> Parked(s, t)
WaitersKept(s, r) == \A t \in UserTask : WaitKept(s, r, t)

ActiveHandlers(s) == {h \in Handler : s.nbrInvocations[h] > 0}
ActiveUsers(s)    == {t \in UserTask : s.nbrInvocations[t] > 0}

Sound(s, X, U) ==
  /\ s \in RTsysType
  /\ Placed(s, X \cup ActiveHandlers(s))
  /\ \A t \in Task \ U : Counted(s, t) /\ HasPlace(s, t)

\* What hooks leave alone: the clock, the CPUs, and the jobs and the queues of
\* user tasks.
Steady(s, r) ==
  /\ r.time = s.time /\ r.prevHit = s.prevHit /\ r.nextHit = s.nextHit
  /\ r.currentCPU = s.currentCPU /\ r.running = s.running
  /\ r.arrival = s.arrival
  /\ \A t \in UserTask : /\ r.nbrInvocations[t] = s.nbrInvocations[t]
                         /\ r.pending[t] = s.pending[t]
                         /\ SameView(s, r, t)

LEMMA SteadyTransitive ==
  ASSUME NEW s, NEW r, NEW q, Steady(s, r), Steady(r, q)
  PROVE  Steady(s, q)
  BY DEF Steady, SameView

LEMMA SteadyWaiters ==
  ASSUME NEW s, NEW r, Steady(s, r)
  PROVE  WaitersKept(s, r)
BY DEF Steady, SameView, WaitersKept, WaitKept, Parked

LEMMA WaitersReflexive ==
  ASSUME NEW s
  PROVE  WaitersKept(s, s)
BY DEF WaitersKept, WaitKept

LEMMA WaitersTransitive ==
  ASSUME NEW s, NEW r, NEW q, WaitersKept(s, r), WaitersKept(r, q)
  PROVE  WaitersKept(s, q)
BY DEF WaitersKept, WaitKept

LEMMA TaskSorts ==
  /\ UserTask \cap Handler = {} /\ UserTask \subseteq Task /\ Handler \subseteq Task
  /\ Task = UserTask \cup Handler
  /\ None \notin Task /\ None \notin Timer
  BY TasksAssumption DEF TasksAssumption, Task

LEMMA SteadyReflexive ==
  ASSUME NEW s
  PROVE  Steady(s, s)
  BY DEF Steady, SameView

\* moving n leaves all other tasks where they are
OthersRest(s, r, n) ==
  /\ Elsewhere(s, r, n)
  /\ \A u \in Task : u # n => r.state[u] = s.state[u]

LEMMA OthersStay ==
  ASSUME NEW s, NEW r, NEW n, OthersRest(s, r, n), NEW u \in Task, u # n
  PROVE  SameView(s, r, u)
<1>1. Affinity[u] \in CPU
  BY AttributesAssumption DEF AttributesAssumption
<1>2. Ready(r, u) <=> Ready(s, u)
  BY <1>1 DEF OthersRest, Elsewhere, Ready
<1>3. Asleep(r, u) <=> Asleep(s, u)
  BY DEF OthersRest, Elsewhere, Asleep
<1> QED BY <1>2, <1>3 DEF OthersRest, SameView, Runnable, Waits

LEMMA SameJobsSound ==
  ASSUME NEW s, NEW r, NEW X, NEW U, Sound(s, X, U), SameJobs(s, r), r \in RTsysType,
         Placed(r, X \cup ActiveHandlers(s)), \A t \in Task : SameView(s, r, t)
  PROVE  Sound(r, X, U) /\ Steady(s, r)
<1>1. r.nbrInvocations = s.nbrInvocations /\ r.pending = s.pending
  BY DEF SameJobs
<1>2. ActiveHandlers(r) = ActiveHandlers(s)
  BY <1>1 DEF ActiveHandlers
<1>3. \A t \in Task \ U : Counted(r, t) /\ HasPlace(r, t)
  BY <1>1 DEF Counted, HasPlace, SameView, Sound
<1> QED BY <1>2, <1>3, TaskSorts DEF Sound, Steady, SameJobs

\* an invocation is queued behind the active job of t
LEMMA EnqueueFacts ==
  ASSUME NEW s \in RTsysType, NEW t \in Task, Counted(s, t), s.nbrInvocations[t] # 0
  PROVE  LET r == Enqueue(s, t)
         IN  /\ r \in RTsysType /\ Counted(r, t)
             /\ r.readyQ = s.readyQ /\ r.timeQ = s.timeQ /\ r.running = s.running
             /\ r.time = s.time /\ r.prevHit = s.prevHit /\ r.nextHit = s.nextHit
             /\ r.currentCPU = s.currentCPU /\ r.arrival = s.arrival /\ r.state = s.state
             /\ r.nbrInvocations = [s.nbrInvocations EXCEPT ![t] = @ + 1]
             /\ r.pending = [s.pending EXCEPT ![t] = Append(@, s.time)]
             /\ \A u \in Task : SameView(s, r, u)
             /\ \A u \in Task : HasPlace(s, u) => HasPlace(r, u)
<1> DEFINE ni == [s.nbrInvocations EXCEPT ![t] = @ + 1]
           pe == [s.pending EXCEPT ![t] = Append(@, s.time)]
           r  == Enqueue(s, t)
<1>1. r = [s EXCEPT !.pending = pe, !.nbrInvocations = ni]
  BY DEF Enqueue, RTsysType
<1>2. ni \in [Task -> Int] /\ ni[t] = s.nbrInvocations[t] + 1 /\ s.nbrInvocations[t] \in Int
  BY RecordFields
<1>3. /\ pe \in [Task -> Seq(Nat)]
      /\ pe[t] = Append(s.pending[t], s.time) /\ Len(pe[t]) = Len(s.pending[t]) + 1
  <2>1. /\ s.pending \in [Task -> Seq(Nat)] /\ s.pending[t] \in Seq(Nat)
        /\ s.time \in Nat
    BY RecordFields
  <2>2. /\ Append(s.pending[t], s.time) \in Seq(Nat)
        /\ Len(Append(s.pending[t], s.time)) = Len(s.pending[t]) + 1
    BY <2>1, AppendProperties
  <2> QED BY <2>1, <2>2
<1> HIDE DEF ni, pe, r
<1>4. /\ r \in RTsysType /\ r.nbrInvocations = ni /\ r.pending = pe
      /\ r.readyQ = s.readyQ /\ r.timeQ = s.timeQ /\ r.running = s.running
      /\ r.time = s.time /\ r.prevHit = s.prevHit /\ r.nextHit = s.nextHit
      /\ r.currentCPU = s.currentCPU /\ r.arrival = s.arrival /\ r.state = s.state
  BY <1>1, <1>2, <1>3 DEF RTsysType
<1>5. Counted(r, t)
  BY <1>2, <1>3, <1>4 DEF Counted
<1>6. \A u \in Task : SameView(s, r, u)
  BY <1>4 DEF SameView, Ready, Asleep, Runnable, Waits
<1>7. \A u \in Task : s.nbrInvocations[u] > 0 <=> r.nbrInvocations[u] > 0
  <2>1. \A u \in Task : u # t => r.nbrInvocations[u] = s.nbrInvocations[u]
    BY <1>4, RecordFields DEF ni
  <2> QED BY <1>2, <1>4, <2>1 DEF Counted
<1>8. \A u \in Task : HasPlace(s, u) => HasPlace(r, u)
  BY <1>6, <1>7 DEF HasPlace, SameView
<1> QED BY <1>4, <1>5, <1>6, <1>8 DEF ni, pe, r

LEMMA InvokeHandlerFacts ==
  ASSUME NEW s, NEW h \in Handler, NEW X, NEW U, Sound(s, X, U), h \notin U
  PROVE  Sound(InvokeHandler(s, h), X, U) /\ Steady(s, InvokeHandler(s, h))
<1> DEFINE r == InvokeHandler(s, h)
<1>1. s \in RTsysType /\ h \in Task /\ h \notin UserTask /\ Counted(s, h) /\ HasPlace(s, h)
  BY TaskSorts DEF Sound
<1>2. CASE s.nbrInvocations[h] = 0
  <2> DEFINE m == MakeReady(s, h)
             ni == [m.nbrInvocations EXCEPT ![h] = 1]
  <2>1. /\ m \in RTsysType /\ SameJobs(s, m)
        /\ Placed(m, (X \cup ActiveHandlers(s)) \cup {h})
        /\ Elsewhere(s, m, h) /\ m.state = [s.state EXCEPT ![h] = "READY"]
        /\ h \in ToSet(m.readyQ[Affinity[h]]) /\ h \notin ToSet(m.timeQ)
    BY <1>1, MakeReadyFacts DEF Sound
  <2>2. r = [m EXCEPT !.nbrInvocations[h] = 1]
    BY <1>2 DEF InvokeHandler
  <2> HIDE DEF m, r
  <2>3. r = [m EXCEPT !.nbrInvocations = ni]
    BY <2>1, <2>2 DEF RTsysType
  <2>4. m.nbrInvocations \in [Task -> Int] /\ m.nbrInvocations = s.nbrInvocations
    BY <2>1, RecordFields DEF SameJobs
  <2>5. /\ ni \in [Task -> Int]
        /\ \A t \in Task : ni[t] = IF t = h THEN 1 ELSE s.nbrInvocations[t]
    BY <1>1, <2>4
  <2> HIDE DEF ni
  <2>6. /\ r \in RTsysType /\ r.nbrInvocations = ni /\ r.pending = s.pending
        /\ r.readyQ = m.readyQ /\ r.timeQ = m.timeQ /\ r.running = m.running
        /\ r.time = s.time /\ r.prevHit = s.prevHit /\ r.nextHit = s.nextHit
        /\ r.currentCPU = s.currentCPU /\ r.arrival = s.arrival
        /\ r.running = s.running /\ r.state = m.state
    BY <2>1, <2>3, <2>5 DEF RTsysType, SameJobs
  <2>7. ActiveHandlers(r) = ActiveHandlers(s) \cup {h}
    BY <2>5, <2>6, <1>1, <1>2, TaskSorts DEF ActiveHandlers
  <2>8. Placed(r, X \cup ActiveHandlers(r))
    <3>1. (X \cup ActiveHandlers(s)) \cup {h} = X \cup ActiveHandlers(r)
      BY <2>7
    <3> QED BY <2>1, <2>6, <3>1 DEF Placed
  <2>9. \A t \in Task \ U : Counted(r, t)
    BY <2>5, <2>6, <1>1, <1>2 DEF Counted, Sound
  <2>10. \A t \in Task : t # h => SameView(s, r, t)
    <3>1. OthersRest(s, m, h)
      BY <1>1, <2>1, RecordFields DEF OthersRest
    <3>2. \A t \in Task : t # h => SameView(s, m, t)
      BY <3>1, OthersStay
    <3> QED BY <2>6, <3>2 DEF SameView, Ready, Asleep, Runnable, Waits
  <2>11. HasPlace(r, h)
    <3>1. r.state[h] = "READY"
      BY <1>1, <2>1, <2>6, RecordFields
    <3> QED BY <2>1, <2>6, <3>1 DEF HasPlace, Ready, Asleep, Runnable, Waits
  <2>12. \A t \in Task \ U : HasPlace(r, t)
    BY <2>5, <2>6, <2>10, <2>11 DEF HasPlace, SameView, Sound
  <2>13. Steady(s, r)
    BY <2>5, <2>6, <2>10, <1>1, TaskSorts DEF Steady
  <2> QED BY <2>6, <2>8, <2>9, <2>12, <2>13 DEF Sound, r
<1>3. CASE s.nbrInvocations[h] # 0
  <2>1. r = Enqueue(s, h)
    BY <1>3 DEF InvokeHandler
  <2> HIDE DEF r
  <2>2. /\ r \in RTsysType /\ Counted(r, h)
        /\ r.readyQ = s.readyQ /\ r.timeQ = s.timeQ /\ r.running = s.running
        /\ r.time = s.time /\ r.prevHit = s.prevHit /\ r.nextHit = s.nextHit
        /\ r.currentCPU = s.currentCPU /\ r.arrival = s.arrival
        /\ r.nbrInvocations = [s.nbrInvocations EXCEPT ![h] = @ + 1]
        /\ r.pending = [s.pending EXCEPT ![h] = Append(@, s.time)]
        /\ \A t \in Task : SameView(s, r, t)
        /\ \A t \in Task : HasPlace(s, t) => HasPlace(r, t)
    BY <1>1, <1>3, <2>1, EnqueueFacts
  <2>3. \A t \in Task : t # h => /\ r.nbrInvocations[t] = s.nbrInvocations[t]
                                 /\ r.pending[t] = s.pending[t]
    BY <2>2, <1>1, RecordFields
  <2>4. r.nbrInvocations[h] > 0 /\ s.nbrInvocations[h] > 0
    BY <2>2, <1>1, <1>3, RecordFields DEF Counted
  <2>5. ActiveHandlers(r) = ActiveHandlers(s)
    BY <2>3, <2>4, TaskSorts DEF ActiveHandlers
  <2>6. Placed(r, X \cup ActiveHandlers(r))
    BY <2>2, <2>5 DEF Placed, Sound
  <2>7. \A t \in Task \ U : Counted(r, t) /\ HasPlace(r, t)
    BY <2>2, <2>3 DEF Counted, Sound
  <2>8. Steady(s, r)
    BY <2>2, <2>3, <1>1, TaskSorts DEF Steady
  <2> QED BY <2>2, <2>6, <2>7, <2>8 DEF Sound, r
<1> QED BY <1>2, <1>3

LEMMA SoundMonotone ==
  ASSUME NEW s, NEW X, NEW Y, NEW U, NEW V, Sound(s, X, U), X \subseteq Y, U \subseteq V
  PROVE  Sound(s, Y, V)
<1>1. X \cup ActiveHandlers(s) \subseteq Y \cup ActiveHandlers(s)
  OBVIOUS
<1>2. Placed(s, Y \cup ActiveHandlers(s))
  BY <1>1, PlacedMonotone DEF Sound
<1> QED BY <1>2 DEF Sound

\* Sound and Steady look only at the queues, the CPUs, the job counts and at
\* which tasks are runnable.
SameQueues(s, r) ==
  /\ r.readyQ = s.readyQ /\ r.timeQ = s.timeQ /\ r.running = s.running
  /\ r.nbrInvocations = s.nbrInvocations /\ r.pending = s.pending
  /\ \A t \in Task : /\ Runnable(r, t) <=> Runnable(s, t)
                     /\ Waits(r, t) <=> Waits(s, t)

LEMMA SameQueuesSound ==
  ASSUME NEW s, NEW r \in RTsysType, NEW X, NEW U, Sound(s, X, U), SameQueues(s, r)
  PROVE  Sound(r, X, U)
<1>1. ActiveHandlers(r) = ActiveHandlers(s)
  BY DEF SameQueues, ActiveHandlers
<1>2. Placed(r, X \cup ActiveHandlers(r))
  BY <1>1 DEF SameQueues, Placed, Sound
<1>3. \A t \in Task \ U : Counted(r, t) /\ HasPlace(r, t)
  BY DEF SameQueues, Counted, HasPlace, Ready, Asleep, Sound
<1> QED BY <1>2, <1>3 DEF Sound

LEMMA UnlinkSound ==
  ASSUME NEW s, NEW n \in Timer, NEW X, NEW U, Sound(s, X, U)
  PROVE  Sound(Unlink(s, n), X, U) /\ Steady(s, Unlink(s, n))
<1> DEFINE r == Unlink(s, n)
<1>1. /\ r \in RTsysType /\ SameJobs(s, r) /\ Placed(r, X \cup ActiveHandlers(s))
      /\ r.state = s.state /\ Elsewhere(s, r, n)
  BY UnlinkFacts DEF Sound
<1> HIDE DEF r
<1>2. Sound(r, X, U) /\ Steady(s, r)
  <2>1. \A u \in Task : SameView(s, r, u)
    BY <1>1, OthersStay, TimerSorts DEF OthersRest
  <2> QED BY <1>1, <2>1, SameJobsSound
<1> QED BY <1>2 DEF r

LEMMA ArmSound ==
  ASSUME NEW s, NEW tm \in Timer, NEW time \in Int, NEW X, NEW U, Sound(s, X, U),
         TimerTask(tm) \in Task
  PROVE  Sound(Arm(s, tm, time), X, U) /\ Steady(s, Arm(s, tm, time))
<1> DEFINE r == Arm(s, tm, time)
<1>1. /\ r \in RTsysType /\ SameJobs(s, r) /\ Placed(r, X \cup ActiveHandlers(s))
      /\ r.state = s.state /\ Elsewhere(s, r, tm)
  BY ArmFacts DEF Sound
<1> HIDE DEF r
<1>2. Sound(r, X, U) /\ Steady(s, r)
  <2>1. \A u \in Task : SameView(s, r, u)
    BY <1>1, OthersStay, TimerSorts DEF OthersRest
  <2> QED BY <1>1, <2>1, SameJobsSound
<1> QED BY <1>2 DEF r

LEMMA ContextSwitchFacts ==
  ASSUME NEW s, NEW X, NEW U \in SUBSET UserTask, Sound(s, X, U)
  PROVE  Sound(ContextSwitch(s), X, U) /\ Steady(s, ContextSwitch(s))
<1>1. CASE ContextSwitchTime > 0
  <2>1. KernelHandler \in Handler /\ KernelHandler \notin U
    BY <1>1, TaskSorts, TasksAssumption, AttributesAssumption
       DEF TasksAssumption, AttributesAssumption
  <2>2. ContextSwitch(s) = InvokeHandler(s, KernelHandler)
    BY <1>1 DEF ContextSwitch
  <2> QED BY <2>1, <2>2, InvokeHandlerFacts
<1>2. CASE ~ (ContextSwitchTime > 0)
  <2>1. ContextSwitch(s) = s
    BY <1>2 DEF ContextSwitch
  <2> QED BY <2>1, SteadyReflexive
<1> QED BY <1>1, <1>2

LEMMA ReleaseHookFacts ==
  ASSUME NEW s, NEW t \in UserTask, NEW X, NEW U \in SUBSET UserTask, Sound(s, X, U)
  PROVE  Sound(ReleaseHook(s, t), X, U) /\ Steady(s, ReleaseHook(s, t))
<1> DEFINE ad == [s.absDeadline EXCEPT ![t] = s.arrival[t] + Deadline[t]]
           bu == [s.budget EXCEPT ![t] = WCET[t]]
           a  == [s EXCEPT !.absDeadline = ad, !.budget = bu]
           b  == ContextSwitch(a)
           r  == ReleaseHook(s, t)
<1>1. r = IF DLHandler[t] = None THEN b ELSE Arm(b, DLTimer(t), b.absDeadline[t])
  <2>1. s \in RTsysType
    BY DEF Sound
  <2>2. [s EXCEPT !.absDeadline[t] = s.arrival[t] + Deadline[t], !.budget[t] = WCET[t]] = a
    BY <2>1 DEF RTsysType
  <2> HIDE DEF a
  <2> QED BY <2>2 DEF ReleaseHook
<1>2. /\ ad \in [UserTask -> Int]
      /\ bu \in [UserTask -> Int]
  BY RecordFields, AttributesAssumption DEF AttributesAssumption, Sound
<1> HIDE DEF ad, bu, r, b
<1>3. a \in RTsysType /\ SameQueues(s, a) /\ Steady(s, a)
  BY <1>2 DEF Sound, RTsysType, SameQueues, Steady, SameView, Ready, Asleep, Runnable, Waits
<1> HIDE DEF a
<1>4. Sound(a, X, U)
  BY <1>3, SameQueuesSound
<1>5. Sound(b, X, U) /\ Steady(s, b)
  BY <1>3, <1>4, ContextSwitchFacts, SteadyTransitive DEF b
<1>6. CASE DLHandler[t] = None
  BY <1>1, <1>5, <1>6 DEF r
<1>7. CASE DLHandler[t] # None
  <2>1. r = Arm(b, DLTimer(t), b.absDeadline[t])
    BY <1>1, <1>7
  <2>2. DLTimer(t) \in Timer /\ TimerTask(DLTimer(t)) \in Task
    BY <1>7, TimerSorts, TaskSorts, AttributesAssumption DEF AttributesAssumption
  <2>3. b.absDeadline[t] \in Int
    BY <1>5, RecordFields DEF Sound
  <2>4. Sound(r, X, U) /\ Steady(b, r)
    BY <2>1, <2>2, <2>3, <1>5, ArmSound
  <2> QED BY <2>4, <1>5, SteadyTransitive DEF r
<1> QED BY <1>6, <1>7

LEMMA ArmBudgetFacts ==
  ASSUME NEW s, NEW t \in UserTask, NEW X, NEW U, Sound(s, X, U)
  PROVE  Sound(ArmBudget(s, t), X, U) /\ Steady(s, ArmBudget(s, t))
<1>1. CASE WCETHandler[t] # None /\ s.budget[t] > 0
  <2>1. ArmBudget(s, t) = Arm(s, WCETTimer(t), s.time + s.budget[t])
    BY <1>1 DEF ArmBudget
  <2>2. WCETTimer(t) \in Timer /\ TimerTask(WCETTimer(t)) \in Task
    BY <1>1, TimerSorts, TaskSorts, AttributesAssumption DEF AttributesAssumption
  <2>3. s.time + s.budget[t] \in Int
    BY RecordFields DEF Sound
  <2> QED BY <2>1, <2>2, <2>3, ArmSound
<1>2. CASE ~ (WCETHandler[t] # None /\ s.budget[t] > 0)
  <2>1. ArmBudget(s, t) = s
    BY <1>2 DEF ArmBudget
  <2> QED BY <2>1, SteadyReflexive
<1> QED BY <1>1, <1>2

LEMMA SuspendHookFacts ==
  ASSUME NEW s, NEW t \in UserTask, NEW X, NEW U \in SUBSET UserTask, Sound(s, X, U)
  PROVE  Sound(SuspendHook(s, t), X, U) /\ Steady(s, SuspendHook(s, t))
<1> DEFINE u == Unlink(s, WCETTimer(t))
<1>1. Sound(u, X, U) /\ Steady(s, u)
  BY UnlinkSound, TimerSorts
<1> HIDE DEF u
<1>2. Sound(ContextSwitch(u), X, U) /\ Steady(u, ContextSwitch(u))
  BY <1>1, ContextSwitchFacts
<1>3. Steady(s, ContextSwitch(u))
  BY <1>1, <1>2, SteadyTransitive
<1> QED BY <1>2, <1>3 DEF SuspendHook, u

LEMMA FinishHookFacts ==
  ASSUME NEW s, NEW t \in UserTask, NEW X, NEW U \in SUBSET UserTask, Sound(s, X, U)
  PROVE  Sound(FinishHook(s, t), X, U) /\ Steady(s, FinishHook(s, t))
<1> DEFINE d == Unlink(s, DLTimer(t))
           u == Unlink(d, WCETTimer(t))
<1>1. Sound(d, X, U) /\ Steady(s, d)
  BY UnlinkSound, TimerSorts
<1> HIDE DEF d
<1>2. Sound(u, X, U) /\ Steady(d, u)
  BY <1>1, UnlinkSound, TimerSorts
<1> HIDE DEF u
<1>3. Sound(ContextSwitch(u), X, U) /\ Steady(u, ContextSwitch(u))
  BY <1>2, ContextSwitchFacts
<1>4. Steady(s, ContextSwitch(u))
  BY <1>1, <1>2, <1>3, SteadyTransitive
<1> QED BY <1>3, <1>4 DEF FinishHook, u, d

\* The fields that changing the job counts leaves alone.
SameQueuing(s, r) ==
  /\ r.readyQ = s.readyQ /\ r.timeQ = s.timeQ /\ r.running = s.running
  /\ r.time = s.time /\ r.prevHit = s.prevHit /\ r.nextHit = s.nextHit
  /\ r.currentCPU = s.currentCPU /\ r.arrival = s.arrival /\ r.state = s.state

LEMMA SetCountFacts ==
  ASSUME NEW s \in RTsysType, NEW t \in Task, NEW v \in Int,
         NEW r, r = [s EXCEPT !.nbrInvocations[t] = v]
  PROVE  /\ r \in RTsysType /\ SameQueuing(s, r) /\ r.pending = s.pending
         /\ r.nbrInvocations[t] = v
         /\ \A u \in Task : u # t => r.nbrInvocations[u] = s.nbrInvocations[u]
<1> DEFINE ni == [s.nbrInvocations EXCEPT ![t] = v]
<1>1. r = [s EXCEPT !.nbrInvocations = ni]
  BY DEF RTsysType
<1>2. /\ ni \in [Task -> Int]
      /\ \A u \in Task : ni[u] = IF u = t THEN v ELSE s.nbrInvocations[u]
  BY RecordFields
<1> HIDE DEF ni
<1>3. /\ r \in RTsysType /\ SameQueuing(s, r) /\ r.pending = s.pending
      /\ r.nbrInvocations = ni
  BY <1>1, <1>2 DEF RTsysType, SameQueuing
<1> QED BY <1>2, <1>3

SetCount(s, t, v) == [s EXCEPT !.nbrInvocations[t] = v]
SetPending(s, t, p) == [s EXCEPT !.pending[t] = p]

CountedOut(s, r, t) ==
  /\ SameQueuing(s, r) /\ r.pending = s.pending
  /\ r.nbrInvocations[t] = s.nbrInvocations[t] - 1
  /\ Len(r.pending[t]) = r.nbrInvocations[t] /\ r.nbrInvocations[t] >= 0
  /\ \A u \in Task : u # t => r.nbrInvocations[u] = s.nbrInvocations[u]

\* the last job of t, which is in no queue and on no CPU, is counted out
LEMMA DecrementFacts ==
  ASSUME NEW s, NEW t \in Task, NEW X, NEW Y, NEW Z, NEW U,
         s \in RTsysType, Placed(s, Z), Z = (X \cup ActiveHandlers(s)) \ {t},
         Y = X \ {t}, U = {t},
         \A u \in Task : Counted(s, u) /\ (u # t => HasPlace(s, u)), s.nbrInvocations[t] > 0,
         NEW v \in Int, v = s.nbrInvocations[t] - 1, NEW r, r = SetCount(s, t, v)
  PROVE  Sound(r, Y, U) /\ CountedOut(s, r, t)
<1>1. s.nbrInvocations[t] \in Int
  BY RecordFields
<1>2. /\ r \in RTsysType /\ SameQueuing(s, r) /\ r.pending = s.pending
      /\ r.nbrInvocations[t] = s.nbrInvocations[t] - 1
      /\ \A u \in Task : u # t => r.nbrInvocations[u] = s.nbrInvocations[u]
  <2>1. s.nbrInvocations[t] - 1 \in Int
    BY <1>1
  <2> QED BY <2>1, SetCountFacts DEF SetCount
<1>3. Z \subseteq Y \cup ActiveHandlers(r)
  BY <1>2, TaskSorts DEF ActiveHandlers
<1>4. Placed(s, Y \cup ActiveHandlers(r))
  BY <1>3, PlacedMonotone
<1>5. Placed(r, Y \cup ActiveHandlers(r))
  BY <1>2, <1>4 DEF Placed, SameQueuing
<1>6. \A u \in Task \ U : Counted(r, u) /\ HasPlace(r, u)
  BY <1>2 DEF Counted, HasPlace, Ready, Asleep, Runnable, Waits, SameQueuing
<1>7. Len(r.pending[t]) = r.nbrInvocations[t] /\ r.nbrInvocations[t] >= 0
  BY <1>1, <1>2 DEF Counted
<1> QED BY <1>2, <1>5, <1>6, <1>7 DEF Sound, CountedOut

Admitted(s, r, t) ==
  /\ SameQueuing(s, r) /\ r.nbrInvocations = s.nbrInvocations
  /\ r.pending[t] = Tail(s.pending[t])
  /\ \A u \in Task : u # t => r.pending[u] = s.pending[u]

\* the first pending invocation of t becomes the active job
LEMMA TailFacts ==
  ASSUME NEW s, NEW t \in Task, NEW X, NEW U, Sound(s, X, U), U = {t}, HasPlace(s, t),
         Len(s.pending[t]) = s.nbrInvocations[t], s.nbrInvocations[t] > 0,
         NEW r, r = SetPending(s, t, Tail(s.pending[t]))
  PROVE  Sound(r, X, {}) /\ Admitted(s, r, t)
<1> DEFINE pe == [s.pending EXCEPT ![t] = Tail(s.pending[t])]
<1>1. s \in RTsysType
  BY DEF Sound
<1>2. r = [s EXCEPT !.pending = pe]
  BY <1>1 DEF RTsysType, SetPending
<1>3. s.pending \in [Task -> Seq(Nat)] /\ s.pending[t] \in Seq(Nat) /\ s.pending[t] # << >>
  BY <1>1, RecordFields
<1>4. /\ Tail(s.pending[t]) \in Seq(Nat)
      /\ Len(Tail(s.pending[t])) = Len(s.pending[t]) - 1
  BY <1>3, HeadTailProperties
<1>5. /\ pe \in [Task -> Seq(Nat)]
      /\ \A u \in Task : pe[u] = IF u = t THEN Tail(s.pending[t]) ELSE s.pending[u]
  BY <1>3, <1>4
<1> HIDE DEF pe
<1>6. /\ r \in RTsysType /\ SameQueuing(s, r) /\ r.nbrInvocations = s.nbrInvocations
      /\ r.pending = pe
  BY <1>1, <1>2, <1>5 DEF RTsysType, SameQueuing
<1>7. ActiveHandlers(r) = ActiveHandlers(s)
  BY <1>6 DEF ActiveHandlers
<1>8. Placed(r, X \cup ActiveHandlers(r))
  BY <1>6, <1>7 DEF Placed, Sound, SameQueuing
<1>9. \A u \in Task : Counted(r, u)
  <2> TAKE u \in Task
  <2>1. CASE u # t
    <3>1. Counted(s, u)
      BY <2>1 DEF Sound
    <3> QED BY <2>1, <3>1, <1>5, <1>6 DEF Counted
  <2>2. CASE u = t
    <3>1. s.nbrInvocations[t] \in Int
      BY <1>1, RecordFields
    <3>2. Len(r.pending[t]) = r.nbrInvocations[t] - 1 /\ r.nbrInvocations[t] > 0
      BY <1>4, <1>5, <1>6
    <3> QED BY <2>2, <3>1, <3>2, <1>6 DEF Counted
  <2> QED BY <2>1, <2>2
<1>10. \A u \in Task : HasPlace(r, u)
  BY <1>6 DEF Sound, HasPlace, Ready, Asleep, Runnable, Waits, SameQueuing
<1> QED BY <1>5, <1>6, <1>8, <1>9, <1>10 DEF Sound, Admitted

LEMMA MakeReadySound ==
  ASSUME NEW s, NEW t \in Task, NEW X, NEW U, Sound(s, X, U), NEW Y, X \subseteq Y,
         t \in Y \cup ActiveHandlers(s)
  PROVE  LET r == MakeReady(s, t)
         IN  /\ Sound(r, Y, U) /\ SameJobs(s, r) /\ HasPlace(r, t)
             /\ Ready(r, t) /\ ~ Waits(r, t)
             /\ \A u \in Task : u # t => SameView(s, r, u)
<1> DEFINE r == MakeReady(s, t)
<1>1. /\ r \in RTsysType /\ SameJobs(s, r)
      /\ Placed(r, (X \cup ActiveHandlers(s)) \cup {t})
      /\ Elsewhere(s, r, t) /\ r.state = [s.state EXCEPT ![t] = "READY"]
      /\ t \in ToSet(r.readyQ[Affinity[t]]) /\ t \notin ToSet(r.timeQ)
  BY MakeReadyFacts DEF Sound
<1> HIDE DEF r
<1>2. (X \cup ActiveHandlers(s)) \cup {t} \subseteq Y \cup ActiveHandlers(s)
  OBVIOUS
<1>3. Placed(r, Y \cup ActiveHandlers(s))
  BY <1>1, <1>2, PlacedMonotone
<1>4. r.nbrInvocations = s.nbrInvocations /\ r.pending = s.pending
  BY <1>1 DEF SameJobs
<1>5. ActiveHandlers(r) = ActiveHandlers(s)
  BY <1>4 DEF ActiveHandlers
<1>6. r.state[t] = "READY" /\ \A u \in Task : u # t => r.state[u] = s.state[u]
  BY <1>1, RecordFields DEF Sound
<1>7. HasPlace(r, t)
  BY <1>1, <1>6 DEF HasPlace, Ready, Asleep, Runnable, Waits
<1>8. \A u \in Task : u # t => SameView(s, r, u)
  <2>1. OthersRest(s, r, t)
    BY <1>1, <1>6 DEF OthersRest
  <2> QED BY <2>1, OthersStay
<1>9. \A u \in Task \ U : Counted(r, u) /\ HasPlace(r, u)
  BY <1>4, <1>7, <1>8 DEF Sound, Counted, HasPlace, SameView
<1>10. Ready(r, t) /\ ~ Waits(r, t)
  BY <1>1, <1>6 DEF Ready, Waits
<1> QED BY <1>1, <1>3, <1>5, <1>7, <1>8, <1>9, <1>10 DEF Sound, r

LEMMA InvokeUserTaskFacts ==
  ASSUME NEW s, NEW t \in UserTask, Sound(s, ActiveUsers(s), {}),
         NEW r, r = InvokeUserTask(s, t)
  PROVE  /\ Sound(r, ActiveUsers(r), {})
         /\ r.time = s.time /\ r.prevHit = s.prevHit /\ r.nextHit = s.nextHit
         /\ r.currentCPU = s.currentCPU /\ r.running = s.running
         /\ \A u \in UserTask : u # t => /\ r.nbrInvocations[u] = s.nbrInvocations[u]
                                         /\ r.pending[u] = s.pending[u]
                                         /\ r.arrival[u] = s.arrival[u]
         /\ r.nbrInvocations[t] = s.nbrInvocations[t] + 1 /\ s.nbrInvocations[t] >= 0
         /\ IF s.nbrInvocations[t] = 0
            THEN r.pending[t] = << >> /\ r.arrival[t] = s.time
            ELSE /\ r.pending[t] = Append(s.pending[t], s.time)
                 /\ r.arrival[t] = s.arrival[t]
         /\ WaitersKept(s, r)
<1>1. s \in RTsysType /\ t \in Task /\ Counted(s, t)
  BY TaskSorts DEF Sound
<1>2. s.nbrInvocations[t] \in Int /\ s.nbrInvocations[t] >= 0 /\ s.time \in Nat
  BY <1>1, RecordFields DEF Counted
<1>3. CASE s.nbrInvocations[t] = 0
  <2> DEFINE ar == [s.arrival EXCEPT ![t] = s.time]
             re == [s.release EXCEPT ![t] = s.time]
             a == [s EXCEPT !.arrival = ar, !.release = re]
             b == ReleaseHook(a, t)
             m == MakeReady(b, t)
  <2>1. /\ ar \in [UserTask -> Int] /\ re \in [UserTask -> Int]
        /\ \A u \in UserTask : ar[u] = IF u = t THEN s.time ELSE s.arrival[u]
    BY <1>1, <1>2, RecordFields
  <2>2. r = [m EXCEPT !.nbrInvocations[t] = m.nbrInvocations[t] + 1]
    <3>1. [s EXCEPT !.arrival[t] = s.time, !.release[t] = s.time] = a
      BY <1>1 DEF RTsysType
    <3> HIDE DEF a
    <3> QED BY <1>3, <3>1 DEF InvokeUserTask
  <2> HIDE DEF ar, re
  <2>3. a \in RTsysType /\ SameQueues(s, a) /\ a.arrival = ar
        /\ a.time = s.time /\ a.prevHit = s.prevHit /\ a.nextHit = s.nextHit
        /\ a.currentCPU = s.currentCPU
    BY <1>1, <2>1 DEF RTsysType, SameQueues, Runnable, Waits
  <2> HIDE DEF a, b, m
  <2>4. Sound(a, ActiveUsers(s), {})
    BY <2>3, SameQueuesSound
  <2>5. Sound(b, ActiveUsers(s), {}) /\ Steady(a, b)
    BY <2>4, ReleaseHookFacts DEF b
  <2>6. /\ m \in RTsysType /\ SameJobs(b, m)
        /\ Placed(m, (ActiveUsers(s) \cup ActiveHandlers(b)) \cup {t})
        /\ Elsewhere(b, m, t) /\ m.state = [b.state EXCEPT ![t] = "READY"]
        /\ t \in ToSet(m.readyQ[Affinity[t]]) /\ t \notin ToSet(m.timeQ)
    BY <1>1, <2>5, MakeReadyFacts DEF m, Sound
  <2>7. m.nbrInvocations[t] = 0
    BY <1>3, <2>3, <2>5, <2>6 DEF SameJobs, SameQueues, Steady
  <2>8. /\ r \in RTsysType /\ SameQueuing(m, r) /\ r.pending = m.pending
        /\ r.nbrInvocations[t] = 1
        /\ \A u \in Task : u # t => r.nbrInvocations[u] = m.nbrInvocations[u]
    <3>1. m \in RTsysType /\ r = [m EXCEPT !.nbrInvocations[t] = 1]
      BY <2>2, <2>6, <2>7
    <3> QED BY <1>1, <3>1, SetCountFacts
  <2>9. \A u \in UserTask : /\ u # t => r.nbrInvocations[u] = s.nbrInvocations[u]
                            /\ r.pending[u] = s.pending[u]
                            /\ r.arrival[u] = ar[u]
    BY <2>3, <2>5, <2>6, <2>8, TaskSorts DEF SameJobs, SameQueues, SameQueuing, Steady
  <2>10. ActiveUsers(s) \cup {t} = ActiveUsers(r) /\ ActiveHandlers(r) = ActiveHandlers(b)
    BY <1>1, <1>3, <2>6, <2>8, <2>9, TaskSorts DEF ActiveUsers, ActiveHandlers, SameJobs
  <2>11. Placed(r, ActiveUsers(r) \cup ActiveHandlers(r))
    <3>1. (ActiveUsers(s) \cup ActiveHandlers(b)) \cup {t} = ActiveUsers(r) \cup ActiveHandlers(r)
      BY <2>10
    <3> QED BY <2>6, <2>8, <3>1 DEF Placed, SameQueuing
  <2>12. \A u \in Task : Counted(r, u)
    <3> TAKE u \in Task
    <3>1. CASE u # t
      <4>1. Counted(b, u)
        BY <2>5 DEF Sound
      <4> QED BY <3>1, <4>1, <2>6, <2>8 DEF Counted, SameJobs
    <3>2. CASE u = t
      BY <3>2, <1>1, <1>3, <2>8, <2>9 DEF Counted
    <3> QED BY <3>1, <3>2
  <2>15. \A u \in Task : HasPlace(r, u)
    <3>1. m.state[t] = "READY" /\ \A u \in Task : u # t => m.state[u] = b.state[u]
      BY <1>1, <2>5, <2>6, RecordFields DEF Sound
    <3>2. \A u \in Task : u # t => SameView(b, m, u)
      <4>1. OthersRest(b, m, t)
        BY <2>6, <3>1 DEF OthersRest
      <4> QED BY <4>1, OthersStay
    <3>3. \A u \in Task : SameView(m, r, u)
      BY <2>8 DEF SameQueuing, SameView, Ready, Asleep, Runnable, Waits
    <3>4. \A u \in Task : u # t => HasPlace(b, u) /\ r.nbrInvocations[u] = b.nbrInvocations[u]
      BY <2>5, <2>6, <2>8 DEF Sound, SameJobs
    <3>5. \A u \in Task : u # t => HasPlace(r, u)
      BY <3>2, <3>3, <3>4 DEF HasPlace, SameView
    <3>6. HasPlace(r, t)
      BY <2>6, <2>8, <3>1 DEF HasPlace, SameQueuing, Ready, Asleep, Runnable, Waits
    <3> QED BY <3>5, <3>6
  <2>16. WaitersKept(s, r)
    <3>1. m.state[t] = "READY" /\ \A u \in Task : u # t => m.state[u] = b.state[u]
      BY <1>1, <2>5, <2>6, RecordFields DEF Sound
    <3>2. \A u \in Task : u # t => SameView(b, m, u)
      <4>1. OthersRest(b, m, t)
        BY <2>6, <3>1 DEF OthersRest
      <4> QED BY <4>1, OthersStay
    <3>3. \A u \in UserTask : u # t => WaitKept(b, r, u)
      <4>1. \A u \in Task : SameView(m, r, u)
        BY <2>8 DEF SameQueuing, SameView, Ready, Asleep, Runnable, Waits
      <4> QED BY <3>2, <4>1, TaskSorts DEF WaitKept, Parked, SameView
    <3>4. WaitersKept(s, a)
      BY <2>3, TaskSorts DEF SameQueues, WaitersKept, WaitKept, Parked, Ready
    <3>5. WaitersKept(a, b)
      BY <2>5, SteadyWaiters
    <3>6. ~ Waits(s, t) /\ ~ Waits(r, t)
      BY <1>1, <1>3, <2>8, <3>1 DEF Sound, HasPlace, SameQueuing, Waits
    <3> QED BY <3>3, <3>4, <3>5, <3>6 DEF WaitersKept, WaitKept, Parked
  <2>13. r.time = s.time /\ r.prevHit = s.prevHit /\ r.nextHit = s.nextHit
         /\ r.currentCPU = s.currentCPU /\ r.running = s.running
    BY <2>3, <2>5, <2>6, <2>8 DEF SameJobs, SameQueues, SameQueuing, Steady
  <2>14. s.pending[t] = << >>
    BY <1>1, <1>3, RecordFields, EmptySeq DEF Counted
  <2> QED BY <1>2, <1>3, <2>1, <2>8, <2>9, <2>11, <2>12, <2>13, <2>14, <2>15, <2>16 DEF Sound
<1>4. CASE s.nbrInvocations[t] # 0
  <2>1. r = Enqueue(s, t)
    BY <1>4 DEF InvokeUserTask
  <2>2. /\ r \in RTsysType /\ Counted(r, t)
        /\ r.readyQ = s.readyQ /\ r.timeQ = s.timeQ /\ r.running = s.running
        /\ r.time = s.time /\ r.prevHit = s.prevHit /\ r.nextHit = s.nextHit
        /\ r.currentCPU = s.currentCPU /\ r.arrival = s.arrival
        /\ r.nbrInvocations = [s.nbrInvocations EXCEPT ![t] = @ + 1]
        /\ r.pending = [s.pending EXCEPT ![t] = Append(@, s.time)]
        /\ \A u \in Task : HasPlace(s, u) => HasPlace(r, u)
    BY <1>1, <1>4, <2>1, EnqueueFacts
  <2>8. \A u \in Task : SameView(s, r, u)
    <3>1. r.state = s.state
      BY <1>1, <2>1 DEF Enqueue, RTsysType
    <3> QED BY <2>2, <3>1 DEF SameView, Ready, Asleep, Runnable, Waits
  <2>7. WaitersKept(s, r)
    BY <2>8, TaskSorts DEF SameView, WaitersKept, WaitKept, Parked
  <2>3. /\ \A u \in Task : u # t => /\ r.nbrInvocations[u] = s.nbrInvocations[u]
                                    /\ r.pending[u] = s.pending[u]
        /\ r.nbrInvocations[t] = s.nbrInvocations[t] + 1
        /\ r.pending[t] = Append(s.pending[t], s.time)
    <3>1. s.nbrInvocations \in [Task -> Int] /\ s.pending \in [Task -> Seq(Nat)]
      BY <1>1, RecordFields
    <3>2. \A u \in Task : u # t => /\ r.nbrInvocations[u] = s.nbrInvocations[u]
                                   /\ r.pending[u] = s.pending[u]
      BY <1>1, <2>2, <3>1
    <3>3. r.nbrInvocations[t] = s.nbrInvocations[t] + 1
      BY <1>1, <2>2, <3>1
    <3>4. r.pending[t] = Append(s.pending[t], s.time)
      BY <1>1, <2>2, <3>1
    <3> QED BY <3>2, <3>3, <3>4
  <2>4. ActiveUsers(r) = ActiveUsers(s) /\ ActiveHandlers(r) = ActiveHandlers(s)
    BY <2>3, <1>2, <1>4, TaskSorts DEF ActiveUsers, ActiveHandlers
  <2>5. Placed(r, ActiveUsers(r) \cup ActiveHandlers(r))
    BY <2>2, <2>4 DEF Placed, Sound
  <2>6. \A u \in Task : Counted(r, u) /\ HasPlace(r, u)
    BY <2>2, <2>3 DEF Counted, Sound
  <2> QED BY <1>2, <1>4, <2>2, <2>3, <2>5, <2>6, <2>7, TaskSorts DEF Sound
<1> QED BY <1>3, <1>4

-----------------------------------------------------------------------------
(***************************************************************************)
(* The jobs of user tasks, as TTJobs sees them.                            *)
(***************************************************************************)
JobsOf(s) == [t \in UserTask |-> IF s.nbrInvocations[t] = 0 THEN << >>
                                 ELSE <<s.arrival[t]>> \o s.pending[t]]

SameClock(s, r) == /\ r.time = s.time /\ r.prevHit = s.prevHit /\ r.nextHit = s.nextHit
                   /\ r.currentCPU = s.currentCPU

LEMMA SteadyJobs ==
  ASSUME NEW s, NEW r, Steady(s, r)
  PROVE  JobsOf(r) = JobsOf(s) /\ ActiveUsers(r) = ActiveUsers(s)
<1>1. \A t \in UserTask : /\ r.nbrInvocations[t] = s.nbrInvocations[t]
                          /\ r.pending[t] = s.pending[t] /\ r.arrival[t] = s.arrival[t]
  BY DEF Steady
<1>2. \A t \in UserTask : JobsOf(r)[t] = JobsOf(s)[t]
  BY <1>1 DEF JobsOf
<1>3. JobsOf(r) = JobsOf(s)
  BY <1>2 DEF JobsOf
<1> QED BY <1>1, <1>3 DEF ActiveUsers

LEMMA InvokeUserTaskJobs ==
  ASSUME NEW s, NEW t \in UserTask, Sound(s, ActiveUsers(s), {}),
         NEW r, r = InvokeUserTask(s, t)
  PROVE  /\ JobsOf(r) = [JobsOf(s) EXCEPT ![t] = Append(@, s.time)]
         /\ ActiveUsers(s) \subseteq ActiveUsers(r)
<1>1. /\ \A u \in UserTask : u # t => /\ r.nbrInvocations[u] = s.nbrInvocations[u]
                                      /\ r.pending[u] = s.pending[u]
                                      /\ r.arrival[u] = s.arrival[u]
      /\ r.nbrInvocations[t] = s.nbrInvocations[t] + 1 /\ s.nbrInvocations[t] >= 0
      /\ IF s.nbrInvocations[t] = 0
         THEN r.pending[t] = << >> /\ r.arrival[t] = s.time
         ELSE /\ r.pending[t] = Append(s.pending[t], s.time)
              /\ r.arrival[t] = s.arrival[t]
  BY InvokeUserTaskFacts
<1>2. /\ s.pending[t] \in Seq(Nat) /\ s.time \in Nat /\ s.nbrInvocations[t] \in Int
      /\ s.arrival[t] \in Int
  BY RecordFields, TaskSorts DEF Sound
<1>3. \A u \in UserTask : u # t => JobsOf(r)[u] = JobsOf(s)[u]
  BY <1>1 DEF JobsOf
<1>4. JobsOf(r)[t] = Append(JobsOf(s)[t], s.time)
  <2>1. CASE s.nbrInvocations[t] = 0
    <3>1. JobsOf(s)[t] = << >>
      BY <2>1 DEF JobsOf
    <3>2. r.nbrInvocations[t] # 0 /\ r.pending[t] = << >> /\ r.arrival[t] = s.time
      BY <1>1, <2>1
    <3>3. JobsOf(r)[t] = <<s.time>> \o << >>
      BY <3>2, Zenon DEF JobsOf
    <3> QED BY <3>1, <3>3, <1>2
  <2>2. CASE s.nbrInvocations[t] # 0
    <3>1. JobsOf(s)[t] = <<s.arrival[t]>> \o s.pending[t]
      BY <2>2 DEF JobsOf
    <3>2. JobsOf(r)[t] = <<s.arrival[t]>> \o Append(s.pending[t], s.time)
      <4>1. /\ r.nbrInvocations[t] # 0 /\ r.arrival[t] = s.arrival[t]
            /\ r.pending[t] = Append(s.pending[t], s.time)
        BY <1>1, <1>2, <2>2
      <4> QED BY <4>1, Zenon DEF JobsOf
    <3>3. \A a \in Int, p \in Seq(Nat), x \in Nat :
            <<a>> \o Append(p, x) = Append(<<a>> \o p, x)
      OBVIOUS
    <3> QED BY <3>1, <3>2, <3>3, <1>2
  <2> QED BY <2>1, <2>2
<1>5. JobsOf(r) = [JobsOf(s) EXCEPT ![t] = Append(@, s.time)]
  <2>1. \A u \in UserTask : JobsOf(r)[u] = [JobsOf(s) EXCEPT ![t] = Append(@, s.time)][u]
    BY <1>3, <1>4 DEF JobsOf
  <2> QED BY <2>1 DEF JobsOf
<1>6. ActiveUsers(s) \subseteq ActiveUsers(r)
  BY <1>1, <1>2 DEF ActiveUsers
<1> QED BY <1>5, <1>6

\* what invoking a task or a handler preserves, and what it does to the jobs
LEMMA InvokeTaskFacts ==
  ASSUME NEW s, NEW t \in Task, Sound(s, ActiveUsers(s), {}),
         NEW r, r = InvokeTask(s, t)
  PROVE  /\ Sound(r, ActiveUsers(r), {})
         /\ SameClock(s, r) /\ r.running = s.running
         /\ ActiveUsers(s) \subseteq ActiveUsers(r) /\ WaitersKept(s, r)
         /\ \/ JobsOf(r) = JobsOf(s)
            \/ \E u \in UserTask : JobsOf(r) = [JobsOf(s) EXCEPT ![u] = Append(@, s.time)]
<1>1. CASE t \in UserTask
  <2>1. r = InvokeUserTask(s, t)
    BY <1>1 DEF InvokeTask
  <2>2. Sound(r, ActiveUsers(r), {}) /\ SameClock(s, r) /\ r.running = s.running
        /\ WaitersKept(s, r)
    BY <1>1, <2>1, InvokeUserTaskFacts DEF SameClock
  <2>3. /\ JobsOf(r) = [JobsOf(s) EXCEPT ![t] = Append(@, s.time)]
        /\ ActiveUsers(s) \subseteq ActiveUsers(r)
    BY <1>1, <2>1, InvokeUserTaskJobs
  <2> QED BY <1>1, <2>2, <2>3
<1>2. CASE t \notin UserTask
  <2>1. r = InvokeHandler(s, t) /\ t \in Handler
    BY <1>2, TaskSorts DEF InvokeTask
  <2>2. Sound(r, ActiveUsers(s), {}) /\ Steady(s, r)
    BY <2>1, InvokeHandlerFacts
  <2>3. JobsOf(r) = JobsOf(s) /\ ActiveUsers(r) = ActiveUsers(s)
    BY <2>2, SteadyJobs
  <2> QED BY <2>2, <2>3, SteadyWaiters DEF Steady, SameClock
<1> QED BY <1>1, <1>2

Dequeued(s, t) ==
  ~ Ready(s, t) /\ ~ Asleep(s, t) /\ ~ Runnable(s, t) /\ ~ Waits(s, t)

Ended(s, r, t) ==
  /\ Dequeued(r, t)
  /\ SameClock(s, r) /\ r.arrival = s.arrival
  /\ r.nbrInvocations[t] = s.nbrInvocations[t] - 1 /\ r.nbrInvocations[t] >= 0
  /\ r.pending[t] = s.pending[t] /\ Len(r.pending[t]) = r.nbrInvocations[t]
  /\ \A u \in UserTask : u # t => /\ r.nbrInvocations[u] = s.nbrInvocations[u]
                                  /\ r.pending[u] = s.pending[u]
                                  /\ WaitKept(s, r, u)

\* the active job of t ends: t leaves its CPU and the queues
LEMMA EndJobFacts ==
  ASSUME NEW s, NEW t \in Task, NEW X, Sound(s, X, {}), s.running[s.currentCPU] = t,
         s.nbrInvocations[t] > 0,
         NEW r, r = EndJob(s, t), NEW Y, Y = X \ {t}, NEW U, U = {t}
  PROVE  Sound(r, Y, U) /\ Ended(s, r, t)
<1> DEFINE c == s.currentCPU
           d == Unlink(s, t)
           ex == [d.execTime EXCEPT ![t] = 0]
           sg == [d.segment EXCEPT ![t] = 0]
           ns == [d.nextSegment EXCEPT ![t] = 1]
           st == [d.state EXCEPT ![t] = "SLEEPING"]
           ru == [d.running EXCEPT ![c] = None]
           e == [d EXCEPT !.execTime = ex, !.segment = sg, !.nextSegment = ns,
                          !.state = st, !.running = ru]
           f == IF t \in UserTask
                THEN [FinishHook(e, t) EXCEPT !.runningUser[c] = None] ELSE e
           raw == [d EXCEPT !.execTime[t] = 0, !.segment[t] = 0,
                            !.nextSegment[t] = 1, !.state[t] = "SLEEPING",
                            !.running[c] = None]
<1>1. s \in RTsysType /\ c \in CPU /\ Placed(s, X \cup ActiveHandlers(s))
  BY RecordFields DEF Sound
<1>2. /\ d \in RTsysType /\ SameJobs(s, d) /\ Placed(d, X \cup ActiveHandlers(s))
      /\ t \notin ToSet(d.timeQ) /\ \A b \in CPU : t \notin ToSet(d.readyQ[b])
      /\ d.state = s.state /\ Elsewhere(s, d, t)
  BY <1>1, UnlinkFacts
<1>3. \A u \in Task : Counted(d, u) /\ (u # t => HasPlace(d, u))
  <2> HIDE DEF d
  <2>1. \A u \in Task : Counted(d, u) /\ d.nbrInvocations[u] = s.nbrInvocations[u]
    BY <1>2 DEF Sound, Counted, SameJobs
  <2>2. \A u \in Task : u # t => SameView(s, d, u)
    <3>1. OthersRest(s, d, t)
      BY <1>2 DEF OthersRest
    <3> QED BY <3>1, OthersStay
  <2> QED BY <2>1, <2>2 DEF Sound, HasPlace, SameView
<1>w. \A u \in UserTask : u # t => WaitKept(s, d, u)
  <2> HIDE DEF d
  <2>1. OthersRest(s, d, t)
    BY <1>2 DEF OthersRest
  <2>2. \A u \in Task : u # t => SameView(s, d, u)
    BY <2>1, OthersStay
  <2> QED BY <2>2, TaskSorts DEF SameView, WaitKept, Parked
<1>4. raw = e
  <2> HIDE DEF d
  <2> QED BY <1>2 DEF RTsysType
<1>5. r = SetCount(f, t, f.nbrInvocations[t] - 1)
  <2>1. r = LET g == IF t \in UserTask
                     THEN [FinishHook(raw, t) EXCEPT !.runningUser[c] = None] ELSE raw
            IN  SetCount(g, t, g.nbrInvocations[t] - 1)
    BY Zenon DEF EndJob, SetCount
  <2> HIDE DEF raw, e
  <2> QED BY <2>1, <1>4, Zenon
<1> HIDE DEF d, raw
<1>6. /\ ex \in [Task -> Int] /\ sg \in [Task -> Nat] /\ ns \in [Task -> Nat]
      /\ st \in [Task -> State] /\ ru \in [CPU -> Task \cup {None}]
      /\ \A b \in CPU : ru[b] = IF b = c THEN None ELSE s.running[b]
      /\ \A u \in Task : st[u] = IF u = t THEN "SLEEPING" ELSE d.state[u]
  BY <1>1, <1>2, RecordFields DEF State, SameJobs
<1> HIDE DEF ex, sg, ns, st, ru
<1>7. /\ e \in RTsysType /\ e.running = ru
      /\ e.readyQ = d.readyQ /\ e.timeQ = d.timeQ
      /\ e.nbrInvocations = d.nbrInvocations /\ e.pending = d.pending
      /\ e.arrival = d.arrival /\ SameClock(d, e) /\ e.state = st
  BY <1>2, <1>6 DEF RTsysType, SameClock
<1> HIDE DEF e
<1>8. ActiveHandlers(e) = ActiveHandlers(s)
  BY <1>2, <1>7 DEF SameJobs, ActiveHandlers
<1>9. Placed(e, (X \cup ActiveHandlers(e)) \ {t})
  <2>1. \A b \in CPU : b # c => s.running[b] # t
    BY <1>1, TaskSorts DEF Placed
  <2>2. t \notin Timer
    BY TasksAssumption DEF TasksAssumption
  <2>3. \A b \in CPU : /\ NoDuplicates(e.readyQ[b])
                        /\ \A u \in ToSet(e.readyQ[b]) :
                             u \in (X \cup ActiveHandlers(e)) \ {t} /\ Affinity[u] = b
    BY <1>2, <1>7, <1>8 DEF Placed
  <2>4. /\ NoDuplicates(e.timeQ)
        /\ \A n \in ToSet(e.timeQ) : IF n \in Timer THEN TimerTask(n) \in Task
                                     ELSE n \in (X \cup ActiveHandlers(e)) \ {t}
    BY <1>2, <1>7, <1>8 DEF Placed
  <2>5. \A b \in CPU : e.running[b] # None =>
          e.running[b] \in (X \cup ActiveHandlers(e)) \ {t} /\ Affinity[e.running[b]] = b
    BY <2>1, <1>1, <1>6, <1>7, <1>8 DEF Placed
  <2> QED BY <2>3, <2>4, <2>5 DEF Placed
<1>10. /\ \A u \in Task : Counted(e, u) /\ (u # t => HasPlace(e, u))
       /\ Dequeued(e, t)
  <2>1. \A u \in Task : Counted(e, u) /\ (u # t => HasPlace(e, u))
    <3> TAKE u \in Task
    <3>1. Counted(e, u)
      BY <1>3, <1>7 DEF Counted
    <3>2. ASSUME u # t PROVE HasPlace(e, u)
      <4>1. SameView(d, e, u)
        BY <3>2, <1>6, <1>7 DEF SameView, Ready, Asleep, Runnable, Waits
      <4> QED BY <3>2, <4>1, <1>3, <1>7 DEF HasPlace, SameView
    <3> QED BY <3>1, <3>2
  <2>2. Affinity[t] \in CPU
    BY AttributesAssumption DEF AttributesAssumption
  <2> QED BY <2>1, <2>2, <1>2, <1>6, <1>7 DEF Dequeued, Ready, Asleep, Runnable, Waits
<1>11. /\ f \in RTsysType /\ Placed(f, (X \cup ActiveHandlers(f)) \ {t})
       /\ \A u \in Task : Counted(f, u) /\ (u # t => HasPlace(f, u))
       /\ Dequeued(f, t)
       /\ SameClock(e, f) /\ f.arrival = e.arrival
       /\ f.nbrInvocations[t] = e.nbrInvocations[t] /\ f.pending[t] = e.pending[t]
       /\ \A u \in UserTask : /\ f.nbrInvocations[u] = e.nbrInvocations[u]
                              /\ f.pending[u] = e.pending[u]
       /\ WaitersKept(e, f)
  <2>1. CASE t \notin UserTask
    <3>1. f = e
      BY <2>1
    <3>2. WaitersKept(e, e)
      BY DEF WaitersKept, WaitKept
    <3> QED BY <3>1, <3>2, <1>7, <1>9, <1>10 DEF SameClock
  <2>2. CASE t \in UserTask
    <3> DEFINE h == FinishHook(e, t)
               rs == [h.runningUser EXCEPT ![c] = None]
    <3>1. \A z : (X \cup ActiveHandlers(z)) \ {t} = (X \ {t}) \cup ActiveHandlers(z)
      BY <2>2, TaskSorts DEF ActiveHandlers
    <3>2. Sound(e, X \ {t}, U) /\ U \in SUBSET UserTask
      BY <2>2, <3>1, <1>7, <1>9, <1>10 DEF Sound
    <3>3. Sound(h, X \ {t}, U) /\ Steady(e, h)
      BY <2>2, <3>2, FinishHookFacts
    <3>4. f = [h EXCEPT !.runningUser[c] = None]
      BY <2>2
    <3> HIDE DEF h, f
    <3>5. f = [h EXCEPT !.runningUser = rs]
      BY <3>3, <3>4 DEF RTsysType, Sound
    <3>6. rs \in [CPU -> UserTask \cup {None}]
      BY <3>3, RecordFields DEF Sound
    <3> HIDE DEF rs
    <3>7. f \in RTsysType /\ SameQueues(h, f) /\ SameClock(h, f) /\ f.arrival = h.arrival
      BY <3>3, <3>5, <3>6 DEF RTsysType, Sound, SameQueues, SameClock, Runnable, Waits
    <3>8. Sound(f, X \ {t}, U)
      BY <3>3, <3>7, SameQueuesSound
    <3>9. /\ Placed(f, (X \cup ActiveHandlers(f)) \ {t})
          /\ \A u \in Task : u # t => Counted(f, u) /\ HasPlace(f, u)
      BY <3>1, <3>8 DEF Sound
    <3>10. Counted(f, t)
      BY <2>2, <3>3, <3>7, <1>10 DEF Steady, SameQueues, Counted
    <3>11. Dequeued(f, t)
      <4>1. Dequeued(h, t)
        BY <2>2, <3>3, <1>10 DEF Steady, SameView, Dequeued
      <4> QED BY <4>1, <3>7 DEF SameQueues, Dequeued, Ready, Asleep
    <3>12. WaitersKept(e, f)
      <4>1. WaitersKept(e, h)
        BY <3>3, SteadyWaiters
      <4>2. WaitersKept(h, f)
        BY <3>7, TaskSorts DEF SameQueues, WaitersKept, WaitKept, Parked, Ready
      <4> QED BY <4>1, <4>2, WaitersTransitive
    <3> QED BY <2>2, <3>3, <3>7, <3>9, <3>10, <3>11, <3>12 DEF SameQueues, SameClock, Steady
  <2> QED BY <2>1, <2>2
<1> HIDE DEF f
<1>12. f.nbrInvocations[t] = s.nbrInvocations[t] /\ f.nbrInvocations[t] > 0
  BY <1>2, <1>7, <1>11 DEF SameJobs
<1>13. /\ Sound(r, X \ {t}, {t}) /\ SameQueuing(f, r) /\ r.pending = f.pending
       /\ r.nbrInvocations[t] = f.nbrInvocations[t] - 1
       /\ Len(r.pending[t]) = r.nbrInvocations[t] /\ r.nbrInvocations[t] >= 0
       /\ \A u \in Task : u # t => r.nbrInvocations[u] = f.nbrInvocations[u]
  <2> DEFINE Z == (X \cup ActiveHandlers(f)) \ {t}
  <2>1. /\ f \in RTsysType /\ Placed(f, Z) /\ Y = X \ {t} /\ U = {t}
        /\ Z = (X \cup ActiveHandlers(f)) \ {t}
        /\ \A u \in Task : Counted(f, u) /\ (u # t => HasPlace(f, u))
    BY <1>11
  <2> DEFINE v == f.nbrInvocations[t] - 1
  <2>3. v \in Int /\ v = f.nbrInvocations[t] - 1 /\ r = SetCount(f, t, v)
    BY <2>1, <1>5, RecordFields
  <2> HIDE DEF Z, v
  <2>2. Sound(r, Y, U) /\ CountedOut(f, r, t)
    BY <2>1, <2>3, <1>12, DecrementFacts
  <2> QED BY <2>2 DEF CountedOut
<1>14. SameClock(s, r) /\ r.arrival = s.arrival
  BY <1>2, <1>7, <1>11, <1>13 DEF SameJobs, SameClock, SameQueuing
<1>15. /\ r.pending[t] = s.pending[t]
       /\ \A u \in UserTask : u # t => /\ r.nbrInvocations[u] = s.nbrInvocations[u]
                                       /\ r.pending[u] = s.pending[u]
  BY <1>2, <1>7, <1>11, <1>13, TaskSorts DEF SameJobs
<1>16. Dequeued(r, t)
  BY <1>11, <1>13 DEF SameQueuing, Dequeued, Ready, Asleep, Runnable, Waits
<1>17. \A u \in UserTask : u # t => WaitKept(s, r, u)
  <2>1. \A u \in UserTask : u # t => WaitKept(d, e, u)
    BY <1>6, <1>7, TaskSorts DEF WaitKept, Parked, Ready, Waits
  <2>2. WaitersKept(f, r)
    BY <1>13, TaskSorts DEF SameQueuing, WaitersKept, WaitKept, Parked, Ready, Waits
  <2> QED BY <1>w, <1>11, <2>1, <2>2 DEF WaitersKept, WaitKept
<1> QED BY <1>12, <1>13, <1>14, <1>15, <1>16, <1>17 DEF Ended

PreRelease(s, t) == [s EXCEPT !.arrival[t] = Head(s.pending[t]), !.release[t] = s.time]

PreReleased(s, a, t) ==
  /\ SameQueues(s, a) /\ SameClock(s, a)
  /\ \A u \in UserTask : a.arrival[u] = IF u = t THEN Head(s.pending[t]) ELSE s.arrival[u]

\* what the release of the first pending job does with user task t in transit
LEMMA PreReleaseFacts ==
  ASSUME NEW s, NEW t \in UserTask, NEW X, NEW U \in SUBSET UserTask, Sound(s, X, U),
         s.pending[t] # << >>,
         NEW a, a = PreRelease(s, t)
  PROVE  Sound(a, X, U) /\ PreReleased(s, a, t)
<1> DEFINE ar == [s.arrival EXCEPT ![t] = Head(s.pending[t])]
           re == [s.release EXCEPT ![t] = s.time]
<1>1. s \in RTsysType /\ t \in Task
  BY TaskSorts DEF Sound
<1>2. s.pending[t] \in Seq(Nat) /\ s.time \in Nat /\ s.arrival \in [UserTask -> Int]
      /\ s.release \in [UserTask -> Int]
  BY <1>1, RecordFields
<1>3. Head(s.pending[t]) \in Nat
  BY <1>2, HeadTailProperties
<1>4. a = [s EXCEPT !.arrival = ar, !.release = re]
  BY <1>1 DEF RTsysType, PreRelease
<1>5. /\ ar \in [UserTask -> Int] /\ re \in [UserTask -> Int]
      /\ \A u \in UserTask : ar[u] = IF u = t THEN Head(s.pending[t]) ELSE s.arrival[u]
  BY <1>2, <1>3
<1> HIDE DEF ar, re
<1>6. a \in RTsysType /\ SameQueues(s, a) /\ SameClock(s, a) /\ a.arrival = ar
  BY <1>1, <1>4, <1>5 DEF RTsysType, SameQueues, SameClock, Runnable, Waits
<1>7. Sound(a, X, U)
  BY <1>6, SameQueuesSound
<1> QED BY <1>5, <1>6, <1>7 DEF PreReleased

\* The jobs of the tasks other than t are those of before.
OthersKept(s, r, t) ==
  \A u \in UserTask : u # t => /\ r.nbrInvocations[u] = s.nbrInvocations[u]
                               /\ r.pending[u] = s.pending[u]
                               /\ r.arrival[u] = s.arrival[u]
                               /\ WaitKept(s, r, u)

\* The active job of t is gone and the first pending one, if any, takes over.
Succeeded(s, r, t) ==
  /\ SameClock(s, r) /\ OthersKept(s, r, t)
  /\ r.nbrInvocations[t] = s.nbrInvocations[t] - 1
  /\ IF r.nbrInvocations[t] = 0
     THEN s.pending[t] = << >> /\ r.pending[t] = << >>
     ELSE /\ s.pending[t] # << >> /\ r.pending[t] = Tail(s.pending[t])
          /\ t \in UserTask => r.arrival[t] = Head(s.pending[t])
  /\ ~ Waits(r, t)

LEMMA FinishFacts ==
  ASSUME NEW s, NEW t \in Task, Sound(s, ActiveUsers(s), {}), s.running[s.currentCPU] = t,
         NEW r, r = ReleasePending(EndJob(s, t), t)
  PROVE  Sound(r, ActiveUsers(r), {}) /\ Succeeded(s, r, t)
<1> DEFINE e == EndJob(s, t)
           X == ActiveUsers(s)
           Y == X \ {t}
           U == {t}
<1>1. s \in RTsysType /\ s.currentCPU \in CPU /\ t # None
  BY RecordFields, TaskSorts DEF Sound
<1>2. t \in X \cup ActiveHandlers(s) /\ s.nbrInvocations[t] > 0
  <2>1. t \in X \cup ActiveHandlers(s)
    BY <1>1 DEF Sound, Placed
  <2> QED BY <2>1 DEF ActiveUsers, ActiveHandlers
<1>3. /\ Sound(e, Y, U) /\ SameClock(s, e) /\ e.arrival = s.arrival
      /\ e.nbrInvocations[t] = s.nbrInvocations[t] - 1 /\ e.nbrInvocations[t] >= 0
      /\ e.pending[t] = s.pending[t] /\ Len(e.pending[t]) = e.nbrInvocations[t]
      /\ Dequeued(e, t)
      /\ \A u \in UserTask : u # t => /\ e.nbrInvocations[u] = s.nbrInvocations[u]
                                      /\ e.pending[u] = s.pending[u]
                                      /\ WaitKept(s, e, u)
  <2>1. Y = X \ {t} /\ U = {t} /\ Sound(s, X, {}) /\ e = EndJob(s, t)
    OBVIOUS
  <2> HIDE DEF e, X, Y, U
  <2>2. Sound(e, Y, U) /\ Ended(s, e, t)
    BY <2>1, <1>2, EndJobFacts
  <2> QED BY <2>2 DEF Ended
<1> HIDE DEF e, X, Y, U
<1>4. e \in RTsysType /\ e.nbrInvocations[t] \in Int /\ e.pending[t] \in Seq(Nat)
      /\ s.nbrInvocations[t] \in Int
  <2>1. e \in RTsysType
    BY <1>3 DEF Sound
  <2> QED BY <1>1, <2>1, RecordFields
<1>5. OthersKept(s, e, t)
  BY <1>3 DEF OthersKept
<1>6. CASE e.nbrInvocations[t] = 0
  <2>1. r = e
    BY <1>6 DEF ReleasePending, e
  <2>2. s.pending[t] = << >> /\ e.pending[t] = << >>
    BY <1>3, <1>4, <1>6, EmptySeq
  <2>3. Counted(e, t) /\ HasPlace(e, t)
    BY <1>3, <1>4, <1>6 DEF Counted, HasPlace, Dequeued
  <2>4. ActiveUsers(e) = Y
    BY <1>3, <1>6, TaskSorts DEF ActiveUsers, X, Y
  <2>5. Sound(e, Y, {})
    BY <1>3, <2>3 DEF Sound, U
  <2>6. Succeeded(s, r, t)
    BY <2>1, <2>2, <1>3, <1>5, <1>6 DEF Succeeded, Dequeued
  <2> QED BY <2>1, <2>4, <2>5, <2>6
<1>7. CASE e.nbrInvocations[t] # 0
  <2> DEFINE a == PreRelease(e, t)
             b == IF t \in UserTask THEN ReleaseHook(a, t) ELSE e
             m == MakeReady(b, t)
  <2>1. r = SetPending(m, t, Tail(m.pending[t])) /\ e.nbrInvocations[t] > 0
    <3>1. e.nbrInvocations[t] > 0
      BY <1>3, <1>4, <1>7
    <3>2. ReleasePending(e, t) = SetPending(m, t, Tail(m.pending[t]))
      BY <3>1, Zenon DEF ReleasePending, SetPending, PreRelease
    <3> HIDE DEF m
    <3> QED BY <3>1, <3>2 DEF e
  <2>2. e.pending[t] # << >> /\ s.pending[t] # << >>
    <3>1. Len(e.pending[t]) # 0
      BY <1>3, <1>7
    <3> QED BY <3>1, <1>3, <1>4, EmptySeq
  <2> HIDE DEF a
  <2>3. /\ Sound(b, Y, U) /\ SameClock(e, b)
        /\ b.nbrInvocations[t] = e.nbrInvocations[t] /\ b.pending[t] = e.pending[t]
        /\ OthersKept(e, b, t)
        /\ t \in UserTask => b.arrival[t] = Head(e.pending[t])
    <3>1. CASE t \notin UserTask
      BY <3>1, <1>3 DEF SameClock, OthersKept, WaitKept
    <3>2. CASE t \in UserTask
      <4>1. U \in SUBSET UserTask
        BY <3>2 DEF U
      <4>2. /\ Sound(a, Y, U) /\ SameQueues(e, a) /\ SameClock(e, a)
            /\ \A u \in UserTask :
                 a.arrival[u] = IF u = t THEN Head(e.pending[t]) ELSE e.arrival[u]
        BY <4>1, <3>2, <1>3, <2>2, PreReleaseFacts DEF a, PreReleased
      <4>3. b = ReleaseHook(a, t)
        BY <3>2
      <4> HIDE DEF b
      <4>4. Sound(b, Y, U) /\ Steady(a, b)
        BY <4>1, <4>2, <4>3, <3>2, ReleaseHookFacts
      <4>5. SameClock(e, b)
        BY <4>2, <4>4 DEF SameClock, Steady
      <4>6. /\ b.nbrInvocations[t] = e.nbrInvocations[t] /\ b.pending[t] = e.pending[t]
            /\ b.arrival[t] = Head(e.pending[t])
        BY <3>2, <4>2, <4>4 DEF SameQueues, Steady
      <4>7. OthersKept(e, b, t)
        <5>1. WaitersKept(a, b)
          BY <4>4, SteadyWaiters
        <5>2. WaitersKept(e, a)
          BY <4>2, TaskSorts DEF SameQueues, WaitersKept, WaitKept, Parked, Ready
        <5>3. WaitersKept(e, b)
          BY <5>1, <5>2, WaitersTransitive
        <5> QED BY <4>2, <4>4, <5>3 DEF SameQueues, Steady, OthersKept, WaitersKept
      <4> QED BY <4>4, <4>5, <4>6, <4>7
    <3> QED BY <3>1, <3>2
  <2> HIDE DEF b
  <2>4. t \in X \cup ActiveHandlers(b) /\ Y \subseteq X
    BY <1>2, <2>1, <2>3, TaskSorts DEF ActiveHandlers, ActiveUsers, X, Y
  <2>5. /\ Sound(m, X, U) /\ SameJobs(b, m) /\ HasPlace(m, t) /\ ~ Waits(m, t)
        /\ \A u \in Task : u # t => SameView(b, m, u)
    BY <2>3, <2>4, MakeReadySound
  <2> HIDE DEF m
  <2>6. Len(m.pending[t]) = m.nbrInvocations[t] /\ m.nbrInvocations[t] > 0
    BY <1>3, <2>1, <2>3, <2>5 DEF SameJobs
  <2>7. Sound(r, X, {}) /\ Admitted(m, r, t)
    BY <2>1, <2>5, <2>6, TailFacts DEF U
  <2>8. /\ r.nbrInvocations[t] = e.nbrInvocations[t]
        /\ r.pending[t] = Tail(e.pending[t])
        /\ t \in UserTask => r.arrival[t] = Head(e.pending[t])
        /\ SameClock(s, r)
    BY <1>3, <2>3, <2>5, <2>7 DEF Admitted, SameJobs, SameClock, SameQueuing
  <2>9. OthersKept(s, r, t)
    <3>1. \A u \in UserTask : u # t => WaitKept(b, r, u)
      BY <2>5, <2>7, TaskSorts DEF Admitted, SameQueuing, SameView, WaitKept, Parked, Ready, Waits
    <3>2. OthersKept(e, r, t)
      BY <2>3, <2>5, <2>7, <3>1, TaskSorts
         DEF OthersKept, Admitted, SameJobs, SameQueuing, WaitKept
    <3> QED BY <1>5, <3>2 DEF OthersKept, WaitKept
  <2>12. ~ Waits(r, t)
    BY <2>5, <2>7 DEF Admitted, SameQueuing, Waits
  <2>10. Succeeded(s, r, t)
    BY <1>3, <1>7, <2>2, <2>8, <2>9, <2>12 DEF Succeeded
  <2>11. ActiveUsers(r) = X
    <3>1. \A u \in UserTask : r.nbrInvocations[u] > 0 <=> s.nbrInvocations[u] > 0
      BY <1>2, <2>1, <2>8, <2>9 DEF OthersKept
    <3> QED BY <3>1 DEF ActiveUsers, X
  <2> QED BY <2>7, <2>10, <2>11
<1> QED BY <1>6, <1>7

\* a killed user task that runs on no CPU (killjob.cpp)
LEMMA KilledJobFacts ==
  ASSUME NEW s, NEW t \in UserTask, Sound(s, ActiveUsers(s), {}), s.nbrInvocations[t] > 0,
         \A c \in CPU : s.running[c] # t, "ttKillJob" \in Primitives,
         NEW r, r = KilledJob(s, t)
  PROVE  Sound(r, ActiveUsers(r), {}) /\ SameClock(s, r) /\ r.running = s.running
<1> DEFINE X == ActiveUsers(s)
           Y == X \ {t}
           U == {t}
           ex == [s.execTime EXCEPT ![t] = 0]
           sg == [s.segment EXCEPT ![t] = 0]
           k == [s EXCEPT !.execTime = ex, !.segment = sg]
           d == Unlink(k, t)
           h == FinishHook(d, t)
           v == h.nbrInvocations[t] - 1
           e == SetCount(h, t, v)
           q == MoveToReadyQ(e, t)
           re == [q.release EXCEPT ![t] = Head(e.pending[t])]
           m == [q EXCEPT !.release = re]
           b == ReleaseHook(m, t)
<1>1. s \in RTsysType /\ t \in Task /\ t \notin Handler /\ t \notin Timer
  BY TaskSorts, TimerSorts DEF Sound
<1>2. [s EXCEPT !.execTime[t] = 0, !.segment[t] = 0] = k
  BY <1>1 DEF RTsysType
<1>3. ex \in [Task -> Int] /\ sg \in [Task -> Nat]
  BY <1>1, RecordFields
<1>4. r = LET kk == [s EXCEPT !.execTime[t] = 0, !.segment[t] = 0]
              hh == FinishHook(Unlink(kk, t), t)
              ee == SetCount(hh, t, hh.nbrInvocations[t] - 1)
              mm == [MoveToReadyQ(ee, t) EXCEPT !.release[t] = Head(ee.pending[t])]
              bb == ReleaseHook(mm, t)
          IN  IF ee.nbrInvocations[t] > 0
              THEN SetPending(bb, t, Tail(bb.pending[t])) ELSE ee
  BY Zenon DEF KilledJob, SetCount, SetPending
<1> HIDE DEF k
<1>5. r = LET mm == [q EXCEPT !.release[t] = Head(e.pending[t])]
              bb == ReleaseHook(mm, t)
          IN  IF e.nbrInvocations[t] > 0
              THEN SetPending(bb, t, Tail(bb.pending[t])) ELSE e
  BY <1>2, <1>4, Zenon
<1> HIDE DEF ex, sg, X, Y, U, d
<1>6. k \in RTsysType /\ SameQueues(s, k) /\ SameClock(s, k)
  BY <1>1, <1>3 DEF k, RTsysType, SameQueues, SameClock, Runnable, Waits
<1>7. Sound(k, X, {})
  BY <1>6, SameQueuesSound DEF X
<1>8. /\ d \in RTsysType /\ SameJobs(k, d) /\ Placed(d, X \cup ActiveHandlers(k))
      /\ t \notin ToSet(d.timeQ) /\ \A c \in CPU : t \notin ToSet(d.readyQ[c])
      /\ d.state = k.state /\ Elsewhere(k, d, t)
  BY <1>1, <1>6, <1>7, UnlinkFacts DEF d, Sound
<1>9. \A u \in Task : Counted(d, u) /\ (u # t => HasPlace(d, u))
  <2>1. \A u \in Task : Counted(d, u) /\ d.nbrInvocations[u] = k.nbrInvocations[u]
    BY <1>7, <1>8 DEF Sound, Counted, SameJobs
  <2>2. \A u \in Task : u # t => SameView(k, d, u)
    <3>1. OthersRest(k, d, t)
      BY <1>8 DEF OthersRest
    <3> QED BY <3>1, OthersStay
  <2> QED BY <1>7, <2>1, <2>2 DEF Sound, HasPlace, SameView
<1>10. Sound(d, Y, U) /\ U \in SUBSET UserTask
  <2>1. \A c \in CPU : d.running[c] # t
    BY <1>6, <1>8 DEF SameJobs, SameQueues
  <2>2. ActiveHandlers(d) = ActiveHandlers(k)
    BY <1>8 DEF SameJobs, ActiveHandlers
  <2>3. Placed(d, Y \cup ActiveHandlers(d))
    BY <2>1, <2>2, <1>1, <1>8 DEF Placed, Y
  <2> QED BY <2>3, <1>8, <1>9 DEF Sound, U
<1> HIDE DEF h
<1>11. Sound(h, Y, U) /\ Steady(d, h)
  BY <1>10, FinishHookFacts DEF h
<1>12. h \in RTsysType /\ h.nbrInvocations[t] \in Int /\ h.nbrInvocations[t] > 0
  <2>1. h \in RTsysType
    BY <1>11 DEF Sound
  <2>2. h.nbrInvocations[t] = s.nbrInvocations[t]
    BY <1>6, <1>8, <1>11 DEF Steady, SameJobs, SameQueues
  <2> QED BY <1>1, <2>1, <2>2, RecordFields
<1> HIDE DEF e
<1>13. Sound(e, Y, U) /\ CountedOut(h, e, t)
  <2> DEFINE Z == (X \cup ActiveHandlers(h)) \ {t}
  <2>1. Z = Y \cup ActiveHandlers(h)
    BY <1>1, TaskSorts DEF ActiveHandlers, Y
  <2>2. /\ Placed(h, Z) /\ Z = (X \cup ActiveHandlers(h)) \ {t} /\ Y = X \ {t} /\ U = {t}
        /\ \A u \in Task : Counted(h, u) /\ (u # t => HasPlace(h, u))
    <3>1. Counted(h, t)
      BY <1>1, <1>9, <1>11 DEF Steady, Counted
    <3> QED BY <2>1, <3>1, <1>11 DEF Sound, Y, U
  <2>3. v \in Int /\ v = h.nbrInvocations[t] - 1 /\ e = SetCount(h, t, v)
    BY <1>12 DEF e
  <2> HIDE DEF Z, v
  <2> QED BY <2>2, <2>3, <1>1, <1>12, DecrementFacts
<1>14. SameClock(s, e) /\ e.running = s.running
  BY <1>6, <1>8, <1>11, <1>13
     DEF SameClock, SameQueues, SameJobs, Steady, CountedOut, SameQueuing
<1>15. \A u \in UserTask : u # t => e.nbrInvocations[u] = s.nbrInvocations[u]
  BY <1>1, <1>6, <1>8, <1>11, <1>13, TaskSorts DEF SameQueues, SameJobs, Steady, CountedOut
<1>16. e \in RTsysType /\ e.nbrInvocations[t] \in Int /\ e.pending[t] \in Seq(Nat)
       /\ Len(e.pending[t]) = e.nbrInvocations[t]
  <2>1. e \in RTsysType
    BY <1>13 DEF Sound
  <2> QED BY <2>1, <1>1, <1>13, RecordFields DEF CountedOut
<1>17. CASE ~ (e.nbrInvocations[t] > 0)
  <2>1. r = e
    BY <1>5, <1>17
  <2>2. e.nbrInvocations[t] = 0
    BY <1>16, <1>17, LenProperties
  <2>3. Sound(e, Y, {})
    <3>1. ~ Ready(d, t) /\ ~ Asleep(d, t)
      BY <1>1, <1>8, AttributesAssumption DEF AttributesAssumption, Ready, Asleep
    <3>2. ~ Ready(h, t) /\ ~ Asleep(h, t)
      BY <3>1, <1>11 DEF Steady, SameView
    <3>3. HasPlace(e, t)
      BY <3>2, <2>2, <1>13 DEF CountedOut, SameQueuing, HasPlace, Ready, Asleep, Waits
    <3>4. Counted(e, t)
      BY <1>16, <2>2 DEF Counted
    <3> QED BY <1>13, <3>3, <3>4 DEF Sound, U
  <2>4. ActiveUsers(e) = Y
    BY <1>1, <1>15, <2>2 DEF ActiveUsers, X, Y
  <2> QED BY <2>1, <2>3, <2>4, <1>14
<1>18. CASE e.nbrInvocations[t] > 0
  <2>1. r = SetPending(b, t, Tail(b.pending[t]))
    <3> HIDE DEF q
    <3>1. q \in RTsysType
      BY <1>1, <1>13, MoveToReadyQFacts DEF q, Sound
    <3>2. [q EXCEPT !.release[t] = Head(e.pending[t])] = m
      BY <3>1 DEF RTsysType
    <3> HIDE DEF m
    <3> QED BY <1>5, <1>18, <3>2
  <2>2. /\ q \in RTsysType /\ SameJobs(e, q)
        /\ Placed(q, (Y \cup ActiveHandlers(e)) \cup {t})
        /\ q.state = e.state /\ Elsewhere(e, q, t)
        /\ t \in ToSet(q.readyQ[Affinity[t]]) /\ t \notin ToSet(q.timeQ)
    BY <1>1, <1>13, MoveToReadyQFacts DEF Sound
  <2> HIDE DEF q
  <2>3. Head(e.pending[t]) \in Nat
    BY <1>16, <1>18, EmptySeq, HeadTailProperties
  <2>4. re \in [UserTask -> Int]
    BY <2>2, <2>3, RecordFields
  <2> HIDE DEF re
  <2>5. m \in RTsysType /\ SameQueues(q, m) /\ SameClock(q, m)
    BY <2>2, <2>4 DEF RTsysType, SameQueues, SameClock, Runnable, Waits
  <2>6. t \in X
    BY DEF X, ActiveUsers
  <2>7. Placed(q, X \cup ActiveHandlers(e))
    <3>1. (Y \cup ActiveHandlers(e)) \cup {t} \subseteq X \cup ActiveHandlers(e)
      BY <2>6 DEF Y
    <3> QED BY <2>2, <3>1, PlacedMonotone
  <2>9. ActiveHandlers(q) = ActiveHandlers(e)
    BY <2>2 DEF SameJobs, ActiveHandlers
  <2>8. HasPlace(q, t)
    BY <2>2 DEF HasPlace, Ready, Asleep, Waits
  <2>10. \A u \in Task \ U : Counted(q, u) /\ HasPlace(q, u)
    <3>1. \A u \in Task : u # t => SameView(e, q, u)
      <4>1. OthersRest(e, q, t)
        BY <2>2 DEF OthersRest
      <4> QED BY <4>1, OthersStay
    <3>2. q.nbrInvocations = e.nbrInvocations /\ q.pending = e.pending
      BY <2>2 DEF SameJobs
    <3> QED BY <1>13, <3>1, <3>2 DEF Sound, Counted, HasPlace, SameView, U
  <2>11. Sound(q, X, U)
    BY <2>2, <2>7, <2>9, <2>10 DEF Sound
  <2>12. Sound(m, X, U)
    BY <2>5, <2>11, SameQueuesSound
  <2> HIDE DEF m, b
  <2>13. Sound(b, X, U) /\ Steady(m, b)
    <3>1. U \in SUBSET UserTask
      BY DEF U
    <3> QED BY <2>12, <3>1, ReleaseHookFacts DEF b
  <2>14. Len(b.pending[t]) = b.nbrInvocations[t] /\ b.nbrInvocations[t] > 0
    BY <1>16, <1>18, <2>2, <2>5, <2>13 DEF SameJobs, SameQueues, Steady
  <2>15. Sound(r, X, {}) /\ Admitted(b, r, t)
    <3>1. HasPlace(m, t)
      BY <2>5, <2>8 DEF SameQueues, HasPlace, Ready, Asleep, Waits
    <3>2. HasPlace(b, t)
      BY <2>13, <3>1 DEF Steady, HasPlace, SameView
    <3> QED BY <1>1, <2>1, <2>13, <2>14, <3>2, TailFacts DEF U
  <2>16. SameClock(s, r) /\ r.running = s.running
    BY <1>14, <2>2, <2>5, <2>13, <2>15
       DEF SameClock, SameQueues, SameJobs, Steady, Admitted, SameQueuing
  <2>17. ActiveUsers(r) = X
    <3>1. \A u \in UserTask : r.nbrInvocations[u] = e.nbrInvocations[u]
      BY <2>2, <2>5, <2>13, <2>15 DEF SameJobs, SameQueues, Steady, Admitted
    <3> QED BY <3>1, <1>15, <1>18 DEF ActiveUsers, X
  <2> QED BY <2>15, <2>16, <2>17
<1> QED BY <1>17, <1>18

-----------------------------------------------------------------------------
(***************************************************************************)
(* Sleeping and dispatching.                                               *)
(***************************************************************************)
SleepingTask(s, t, time) ==
  LET q == MoveToTimeQ([s EXCEPT !.release[t] = time], t)
  IN  SuspendHook([q EXCEPT !.state[t] = "SLEEPING"], t)

LEMMA SleepFacts ==
  ASSUME NEW s, NEW t \in UserTask, NEW time \in Int, NEW X, t \in X, Sound(s, X, {}),
         ~ Waits(s, t),
         NEW r, r = SleepingTask(s, t, time)
  PROVE  /\ Sound(r, X, {}) /\ SameClock(s, r) /\ r.running = s.running
         /\ JobsOf(r) = JobsOf(s) /\ ActiveUsers(r) = ActiveUsers(s)
         /\ WaitersKept(s, r)
<1> DEFINE re == [s.release EXCEPT ![t] = time]
           a == [s EXCEPT !.release = re]
           q == MoveToTimeQ(a, t)
           st == [q.state EXCEPT ![t] = "SLEEPING"]
           z == [q EXCEPT !.state = st]
<1>1. s \in RTsysType /\ t \in Task /\ t \notin Timer /\ t \in QItem
  BY TaskSorts, TimerSorts DEF Sound, QItem
<1>2. [s EXCEPT !.release[t] = time] = a /\ re \in [UserTask -> Int]
  BY <1>1, RecordFields DEF RTsysType
<1> HIDE DEF re
<1>3. a \in RTsysType /\ SameQueues(s, a) /\ SameClock(s, a) /\ a.arrival = s.arrival
  BY <1>1, <1>2 DEF RTsysType, SameQueues, SameClock, Runnable, Waits
<1> HIDE DEF a
<1>4. Sound(a, X, {})
  BY <1>3, SameQueuesSound
<1>5. /\ q \in RTsysType /\ SameJobs(a, q)
      /\ Placed(q, (X \cup ActiveHandlers(a)) \cup ({t} \ Timer))
      /\ q.state = a.state /\ Elsewhere(a, q, t) /\ t \in ToSet(q.timeQ)
      /\ \A c \in CPU : t \notin ToSet(q.readyQ[c])
  BY <1>1, <1>3, <1>4, MoveToTimeQFacts DEF Sound
<1> HIDE DEF q
<1>6. (X \cup ActiveHandlers(a)) \cup ({t} \ Timer) = X \cup ActiveHandlers(a)
  BY <1>1
<1>7. st \in [Task -> State] /\ [q EXCEPT !.state[t] = "SLEEPING"] = z
      /\ \A u \in Task : st[u] = IF u = t THEN "SLEEPING" ELSE q.state[u]
  BY <1>1, <1>5, RecordFields DEF RTsysType, State
<1> HIDE DEF st
<1>8. /\ z \in RTsysType /\ z.state = st /\ z.readyQ = q.readyQ /\ z.timeQ = q.timeQ
      /\ z.nbrInvocations = q.nbrInvocations /\ z.pending = q.pending
      /\ z.running = q.running /\ z.arrival = q.arrival /\ SameClock(q, z)
  BY <1>5, <1>7 DEF RTsysType, SameClock
<1> HIDE DEF z
<1>9. \A u \in Task : Counted(z, u) /\ HasPlace(z, u)
  <2>1. OthersRest(a, z, t)
    BY <1>5, <1>7, <1>8 DEF OthersRest, Elsewhere
  <2>2. \A u \in Task : u # t => SameView(a, z, u)
    BY <2>1, OthersStay
  <2>3. z.nbrInvocations = a.nbrInvocations /\ z.pending = a.pending
    BY <1>5, <1>8 DEF SameJobs
  <2>4. HasPlace(z, t)
    <3>1. Affinity[t] \in CPU
      BY <1>1, AttributesAssumption DEF AttributesAssumption
    <3>2. z.state[t] = "SLEEPING"
      BY <1>1, <1>7, <1>8
    <3> QED BY <3>1, <3>2, <1>5, <1>8 DEF HasPlace, Ready, Asleep, Runnable, Waits
  <2> QED BY <1>4, <2>2, <2>3, <2>4 DEF Sound, Counted, HasPlace, SameView
<1>10. Sound(z, X, {})
  <2>1. ActiveHandlers(z) = ActiveHandlers(a)
    BY <1>5, <1>8 DEF SameJobs, ActiveHandlers
  <2>2. Placed(z, X \cup ActiveHandlers(z))
    BY <1>5, <1>6, <1>8, <2>1 DEF Placed
  <2> QED BY <1>8, <1>9, <2>2 DEF Sound
<1>11. r = SuspendHook(z, t)
  BY <1>2, <1>7 DEF SleepingTask, q
<1>12. Sound(r, X, {}) /\ Steady(z, r)
  BY <1>10, <1>11, SuspendHookFacts
<1>13. /\ z.nbrInvocations = s.nbrInvocations /\ z.pending = s.pending
       /\ z.arrival = s.arrival /\ z.running = s.running /\ SameClock(s, z)
  BY <1>3, <1>5, <1>8 DEF SameQueues, SameJobs, SameClock
<1>14. JobsOf(z) = JobsOf(s) /\ ActiveUsers(z) = ActiveUsers(s)
  BY <1>13 DEF JobsOf, ActiveUsers
<1>15. JobsOf(r) = JobsOf(z) /\ ActiveUsers(r) = ActiveUsers(z)
  BY <1>12, SteadyJobs
<1>16. SameClock(s, r) /\ r.running = s.running
  BY <1>12, <1>13 DEF SameClock, Steady
<1>17. WaitersKept(a, z)
  <2>1. OthersRest(a, z, t)
    BY <1>5, <1>7, <1>8 DEF OthersRest, Elsewhere
  <2>2. \A u \in Task : u # t => SameView(a, z, u)
    BY <2>1, OthersStay
  <2>3. ~ Waits(a, t) /\ ~ Waits(z, t)
    BY <1>1, <1>3, <1>7, <1>8 DEF SameQueues, Waits
  <2> QED BY <2>2, <2>3, TaskSorts DEF SameView, WaitersKept, WaitKept, Parked
<1>18. WaitersKept(s, a)
  BY <1>3, TaskSorts DEF SameQueues, WaitersKept, WaitKept, Parked, Ready
<1>19. WaitersKept(s, r)
  BY <1>12, <1>17, <1>18, SteadyWaiters, WaitersTransitive
<1> QED BY <1>12, <1>14, <1>15, <1>16, <1>19

LEMMA SuspendedFacts ==
  ASSUME NEW s, NEW c \in CPU, NEW new, NEW X, Sound(s, X, {})
  PROVE  Sound(Suspended(s, c, new), X, {}) /\ Steady(s, Suspended(s, c, new))
<1>1. CASE s.running[c] \in UserTask /\ s.running[c] # new
  <2>1. Suspended(s, c, new) = SuspendHook(s, s.running[c])
    BY <1>1 DEF Suspended
  <2>2. /\ Sound(SuspendHook(s, s.running[c]), X, {})
        /\ Steady(s, SuspendHook(s, s.running[c]))
    BY <1>1, SuspendHookFacts
  <2> QED BY <2>1, <2>2
<1>2. CASE ~ (s.running[c] \in UserTask /\ s.running[c] # new)
  <2>1. Suspended(s, c, new) = s
    BY <1>2 DEF Suspended
  <2> QED BY <2>1, SteadyReflexive
<1> QED BY <1>1, <1>2

LEMMA ResumedFacts ==
  ASSUME NEW s, NEW c \in CPU, NEW new, NEW X, Sound(s, X, {}),
         NEW r, r = Resumed(s, c, new)
  PROVE  Sound(r, X, {}) /\ Steady(s, r)
<1>1. CASE new \notin UserTask \/ new = s.running[c]
  <2>1. r = s
    BY <1>1 DEF Resumed
  <2> QED BY <2>1, SteadyReflexive
<1>2. CASE ~ (new \notin UserTask \/ new = s.running[c])
  <2> DEFINE sg == [s.segment EXCEPT ![new] = 1]
             a == [s EXCEPT !.segment = sg]
             b == IF s.segment[new] = 0 THEN StartHook(a, new) ELSE ResumeHook(s, new)
             ru == [b.runningUser EXCEPT ![c] = new]
  <2>1. s \in RTsysType /\ new \in UserTask /\ new \in Task
    BY <1>2, TaskSorts DEF Sound
  <2>2. sg \in [Task -> Nat] /\ [s EXCEPT !.segment[new] = 1] = a
    BY <2>1, RecordFields DEF RTsysType
  <2> HIDE DEF sg
  <2>3. a \in RTsysType /\ SameQueues(s, a) /\ Steady(s, a)
    BY <2>1, <2>2 DEF RTsysType, SameQueues, Steady, SameView, Ready, Asleep, Runnable, Waits
  <2> HIDE DEF a
  <2>4. Sound(a, X, {})
    BY <2>3, SameQueuesSound
  <2>5. r = [b EXCEPT !.runningUser[c] = new]
    BY <1>2, <2>2 DEF Resumed
  <2>6. Sound(b, X, {}) /\ Steady(s, b)
    <3>1. CASE s.segment[new] = 0
      <4>1. Sound(StartHook(a, new), X, {}) /\ Steady(a, StartHook(a, new))
        BY <2>1, <2>4, ArmBudgetFacts DEF StartHook
      <4>2. Steady(s, StartHook(a, new))
        BY <2>3, <4>1, SteadyTransitive
      <4> QED BY <3>1, <4>1, <4>2
    <3>2. CASE s.segment[new] # 0
      <4>1. Sound(ResumeHook(s, new), X, {}) /\ Steady(s, ResumeHook(s, new))
        BY <2>1, ArmBudgetFacts DEF ResumeHook
      <4> QED BY <3>2, <4>1
    <3> QED BY <3>1, <3>2
  <2> HIDE DEF b
  <2>7. r = [b EXCEPT !.runningUser = ru] /\ ru \in [CPU -> UserTask \cup {None}]
    BY <2>1, <2>5, <2>6, RecordFields DEF Sound, RTsysType
  <2> HIDE DEF ru
  <2>8. r \in RTsysType /\ SameQueues(b, r) /\ Steady(b, r)
    <3>1. /\ r \in RTsysType /\ r.readyQ = b.readyQ /\ r.timeQ = b.timeQ
          /\ r.running = b.running /\ r.nbrInvocations = b.nbrInvocations
          /\ r.pending = b.pending /\ r.arrival = b.arrival /\ SameClock(b, r)
          /\ r.state = b.state
      BY <2>6, <2>7 DEF Sound, RTsysType, SameClock
    <3>2. \A u \in Task : SameView(b, r, u)
      BY <3>1 DEF SameView, Ready, Asleep, Runnable, Waits
    <3> QED BY <3>1, <3>2, TaskSorts DEF SameQueues, Steady, SameView, SameClock
  <2>9. Sound(r, X, {})
    BY <2>6, <2>8, SameQueuesSound
  <2>10. Steady(s, r)
    BY <2>6, <2>8, SteadyTransitive
  <2> QED BY <2>9, <2>10
<1> QED BY <1>1, <1>2

\* The first task of a queue is None or an entry of the queue.
LEMMA FirstFacts ==
  ASSUME NEW S, NEW q \in Seq(S)
  PROVE  First(q) # None => First(q) \in ToSet(q) /\ First(q) \in S
<1>1. CASE q = << >>
  BY <1>1 DEF First
<1>2. CASE q # << >>
  <2>1. First(q) = q[1]
    BY <1>2 DEF First
  <2>2. 1 \in DOMAIN q /\ q[1] \in S
    BY <1>2, EmptySeq, LenProperties
  <2> QED BY <2>1, <2>2 DEF ToSet
<1> QED BY <1>1, <1>2

LEMMA DispatchedFacts ==
  ASSUME NEW s, NEW c \in CPU, Sound(s, ActiveUsers(s), {}),
         NEW d, d = Dispatched(s, c)
  PROVE  /\ Sound(d, ActiveUsers(d), {}) /\ SameClock(s, d)
         /\ JobsOf(d) = JobsOf(s) /\ ActiveUsers(d) = ActiveUsers(s)
         /\ WaitersKept(s, d)
<1> DEFINE X == ActiveUsers(s)
           new == First(s.readyQ[c])
           a == Suspended(s, c, new)
           r == Resumed(a, c, new)
           run == First(r.readyQ[c])
           ru == [r.running EXCEPT ![c] = run]
           st == IF run = None THEN r.state ELSE [r.state EXCEPT ![run] = "RUNNING"]
<1>1. d = LET z == [r EXCEPT !.running[c] = run]
          IN  IF run = None THEN z ELSE [z EXCEPT !.state[run] = "RUNNING"]
  BY Zenon DEF Dispatched
<1> HIDE DEF new, X
<1>2. Sound(a, X, {}) /\ Steady(s, a)
  BY SuspendedFacts DEF X
<1> HIDE DEF a
<1>3. Sound(r, X, {}) /\ Steady(a, r)
  BY <1>2, ResumedFacts
<1> HIDE DEF r
<1>4. Steady(s, r)
  BY <1>2, <1>3, SteadyTransitive
<1>5. /\ r \in RTsysType /\ r.readyQ[c] \in Seq(Task) /\ r.state \in [Task -> State]
      /\ r.running \in [CPU -> Task \cup {None}]
  BY <1>3, RecordFields DEF Sound
<1>6. run # None => /\ run \in ToSet(r.readyQ[c]) /\ run \in Task
                    /\ run \in X \cup ActiveHandlers(r) /\ Affinity[run] = c
  BY <1>3, <1>5, FirstFacts DEF Sound, Placed
<1> HIDE DEF run
<1>7. d = [r EXCEPT !.running = ru, !.state = st]
  <2>1. CASE run = None
    BY <1>1, <1>5, <2>1 DEF RTsysType
  <2>2. CASE run # None
    BY <1>1, <1>5, <2>2 DEF RTsysType
  <2> QED BY <2>1, <2>2
<1>8. /\ ru \in [CPU -> Task \cup {None}]
      /\ \A b \in CPU : ru[b] = IF b = c THEN run ELSE r.running[b]
      /\ st \in [Task -> State]
      /\ \A t \in Task : st[t] = IF t = run THEN "RUNNING" ELSE r.state[t]
  BY <1>5, <1>6, TaskSorts DEF State
<1> HIDE DEF ru, st
<1>9. /\ d \in RTsysType /\ d.running = ru
      /\ d.readyQ = r.readyQ /\ d.timeQ = r.timeQ
      /\ d.nbrInvocations = r.nbrInvocations /\ d.pending = r.pending
      /\ d.arrival = r.arrival /\ SameClock(r, d) /\ d.state = st
  BY <1>5, <1>7, <1>8 DEF RTsysType, SameClock
<1>10. ActiveHandlers(d) = ActiveHandlers(r)
  BY <1>9 DEF ActiveHandlers
<1>11. Placed(d, X \cup ActiveHandlers(d))
  <2>1. \A b \in CPU : d.running[b] # None =>
          d.running[b] \in X \cup ActiveHandlers(d) /\ Affinity[d.running[b]] = b
    BY <1>3, <1>6, <1>8, <1>9, <1>10 DEF Sound, Placed
  <2> QED BY <2>1, <1>3, <1>9, <1>10 DEF Sound, Placed
<1>12. \A t \in Task : Counted(d, t) /\ HasPlace(d, t)
  <2>1. \A t \in Task : Counted(d, t)
    BY <1>3, <1>9 DEF Sound, Counted
  <2>2. \A t \in Task : (Ready(d, t) <=> Ready(r, t)) /\ (Asleep(d, t) <=> Asleep(r, t))
    BY <1>9 DEF Ready, Asleep
  <2>3. \A t \in Task : t # run => /\ Runnable(d, t) <=> Runnable(r, t)
                                   /\ Waits(d, t) <=> Waits(r, t)
    BY <1>8, <1>9 DEF Runnable, Waits
  <2>4. run \in Task => Runnable(d, run) /\ Ready(d, run) /\ ~ Waits(d, run)
    <3>1. run \in Task => Runnable(d, run) /\ ~ Waits(d, run)
      BY <1>8, <1>9 DEF Runnable, Waits
    <3>2. run \in Task => Ready(d, run)
      BY <1>6, <1>9, TaskSorts DEF Ready
    <3> QED BY <3>1, <3>2
  <2>5. \A t \in Task : HasPlace(r, t) /\ d.nbrInvocations[t] = r.nbrInvocations[t]
    BY <1>3, <1>9 DEF Sound
  <2>6. \A t \in Task : t # run => HasPlace(d, t)
    <3> TAKE t \in Task
    <3> HAVE t # run
    <3>1. SameView(r, d, t)
      BY <2>2, <2>3 DEF SameView
    <3> QED BY <2>5, <3>1 DEF HasPlace, SameView
  <2>7. run \in Task => HasPlace(d, run)
    BY <2>2, <2>4, <2>5 DEF HasPlace
  <2> QED BY <2>1, <2>6, <2>7
<1>13. JobsOf(d) = JobsOf(r) /\ ActiveUsers(d) = ActiveUsers(r)
  BY <1>9 DEF JobsOf, ActiveUsers
<1>14. JobsOf(r) = JobsOf(s) /\ ActiveUsers(r) = X
  BY <1>4, SteadyJobs DEF X
<1>15. SameClock(s, d)
  BY <1>4, <1>9 DEF SameClock, Steady
<1>16. WaitersKept(r, d)
  <2>1. \A t \in Task : Ready(d, t) <=> Ready(r, t)
    BY <1>9 DEF Ready
  <2>2. \A t \in Task : t # run => (Waits(d, t) <=> Waits(r, t))
    BY <1>8, <1>9 DEF Waits
  <2>3. run \in Task => Ready(r, run) /\ ~ Waits(d, run)
    BY <1>6, <1>8, <1>9, TaskSorts DEF Ready, Waits
  <2> QED BY <2>1, <2>2, <2>3, TaskSorts DEF WaitersKept, WaitKept, Parked
<1>17. WaitersKept(s, d)
  BY <1>4, <1>16, SteadyWaiters, WaitersTransitive
<1> QED BY <1>9, <1>11, <1>12, <1>13, <1>14, <1>15, <1>17 DEF Sound, X

-----------------------------------------------------------------------------
(***************************************************************************)
(* The inductive invariant.                                                *)
(***************************************************************************)
PCs == {"idle", "count", "segment", "timers", "dispatch", "advance", "aborted"}

\* The saved next pointer is null or an entry that the scan may handle.
Handled(s, n) ==
  /\ n \in QItem \cup {None}
  /\ n \in Timer => TimerTask(n) \in Task
  /\ n \in UserTask => n \in ActiveUsers(s) /\ ~ Parked(s, n)

Consistent(s, p, elapsed, iter, n, called) ==
  /\ Sound(s, ActiveUsers(s), {})
  /\ p \in PCs /\ elapsed \in Nat /\ iter \in Nat /\ called \in Nat
  /\ Handled(s, n)
  /\ p # "timers" => n = None
  /\ p = "segment" => s.running[s.currentCPU] # None
  /\ s.prevHit <= s.time
  /\ p = "idle" => s.time <= s.nextHit

IInv == Consistent(rtsys, pc, timeElapsed, niter, next, calls)

\* Without blocking primitives, moreover, nobody waits.
NobodyWaits == \A t \in Task : ~ Waits(rtsys, t)
KernelInv   == IInv /\ NobodyWaits

\* what a step of the kernel does to the clock and to the jobs of user tasks
JobStep(s, r) ==
  \/ r.time \in Nat /\ r.time >= s.time /\ JobsOf(r) = JobsOf(s)
  \/ r.time = s.time /\ \E t \in UserTask :
       JobsOf(r) = [JobsOf(s) EXCEPT ![t] = Append(@, s.time)]
  \/ r.time = s.time /\ \E t \in UserTask :
       JobsOf(s)[t] # << >> /\ JobsOf(r) = [JobsOf(s) EXCEPT ![t] = Tail(@)]

LEMMA NextOfFacts ==
  ASSUME NEW S, NEW q \in Seq(S), NEW n
  PROVE  NextOf(q, n) # None => NextOf(q, n) \in ToSet(q) /\ NextOf(q, n) \in S
<1> DEFINE I == {i \in 1 .. Len(q) : q[i] = n}
           i == IF I # {} THEN Min(I) ELSE 0
<1>1. NextOf(q, n) = IF i < Len(q) THEN q[i + 1] ELSE None
  BY DEF NextOf, SelectInSeq
<1>2. Len(q) \in Nat /\ DOMAIN q = 1 .. Len(q)
  BY LenProperties
<1>3. i \in Nat
  <2>1. CASE I = {}
    BY <2>1
  <2>2. CASE I # {}
    <3>1. I \in SUBSET Nat
      BY <1>2
    <3> HIDE DEF I
    <3>2. Min(I) \in I
      BY <2>2, <3>1, MinInSet
    <3> QED BY <2>2, <3>1, <3>2
  <2> QED BY <2>1, <2>2
<1> HIDE DEF i
<1>4. CASE i < Len(q)
  <2>1. i + 1 \in 1 .. Len(q)
    BY <1>2, <1>3, <1>4
  <2>2. q[i + 1] \in S /\ q[i + 1] \in ToSet(q)
    BY <2>1, <1>2, ElementOfSeq DEF ToSet
  <2> QED BY <1>1, <1>4, <2>2
<1>5. CASE ~ (i < Len(q))
  BY <1>1, <1>5
<1> QED BY <1>4, <1>5

\* entries of the time queue may be handled
LEMMA QueuedIsHandled ==
  ASSUME NEW s, Sound(s, ActiveUsers(s), {}), NEW n,
         n # None => n \in ToSet(s.timeQ) /\ n \in QItem
  PROVE  Handled(s, n)
<1>1. n # None => IF n \in Timer THEN TimerTask(n) \in Task
                  ELSE n \in ActiveUsers(s) \cup ActiveHandlers(s)
  BY DEF Sound, Placed
<1>2. n \in UserTask => n \notin Timer /\ n \notin ActiveHandlers(s)
  BY TaskSorts, TimerSorts DEF ActiveHandlers
<1>3. n \in UserTask => ~ Parked(s, n)
  BY TaskSorts DEF Sound, HasPlace, Asleep, Parked
<1> QED BY <1>1, <1>2, <1>3, TaskSorts DEF Handled

LEMMA KeepFacts ==
  ASSUME NEW s, NEW r \in RTsysType, Sound(s, ActiveUsers(s), {}),
         SameQueues(s, r), r.arrival = s.arrival
  PROVE  /\ Sound(r, ActiveUsers(r), {})
         /\ JobsOf(r) = JobsOf(s) /\ ActiveUsers(r) = ActiveUsers(s)
         /\ WaitersKept(s, r)
<1>1. JobsOf(r) = JobsOf(s) /\ ActiveUsers(r) = ActiveUsers(s)
  BY DEF SameQueues, JobsOf, ActiveUsers
<1>2. WaitersKept(s, r)
  BY TaskSorts DEF SameQueues, WaitersKept, WaitKept, Parked, Ready
<1> QED BY <1>1, <1>2, SameQueuesSound

\* to the next CPU, or to the scan of the time queue
LEMMA NextCPUFacts ==
  ASSUME NEW s, Sound(s, ActiveUsers(s), {}), s.prevHit <= s.time,
         timeElapsed \in Nat, niter \in Nat, calls \in Nat, next = None,
         NextCPU(s), UNCHANGED <<timeElapsed, niter>>, calls' \in Nat
  PROVE  /\ Consistent(rtsys', pc', timeElapsed', niter', next', calls')
         /\ JobsOf(rtsys') = JobsOf(s) /\ rtsys'.time = s.time
         /\ WaitersKept(s, rtsys')
<1>1. s \in RTsysType /\ s.currentCPU \in CPU /\ s.timeQ \in Seq(QItem)
  BY RecordFields DEF Sound
<1>2. CASE s.currentCPU < NbrOfCPUs - 1
  <2> DEFINE r == [s EXCEPT !.currentCPU = s.currentCPU + 1]
  <2>1. rtsys' = r /\ pc' = "count" /\ next' = None
    BY <1>2 DEF NextCPU
  <2>2. s.currentCPU + 1 \in CPU
    BY <1>1, <1>2, AttributesAssumption DEF AttributesAssumption, CPU
  <2>3. /\ r \in RTsysType /\ SameQueues(s, r) /\ r.arrival = s.arrival
        /\ r.time = s.time /\ r.prevHit = s.prevHit
    BY <1>1, <2>2 DEF RTsysType, SameQueues, Runnable, Waits
  <2> HIDE DEF r
  <2>4. Sound(r, ActiveUsers(r), {}) /\ JobsOf(r) = JobsOf(s) /\ WaitersKept(s, r)
    BY <2>3, KeepFacts
  <2>5. Handled(r, None)
    BY TaskSorts DEF Handled
  <2> QED BY <2>1, <2>3, <2>4, <2>5 DEF Consistent, PCs
<1>3. CASE ~ (s.currentCPU < NbrOfCPUs - 1)
  <2>1. rtsys' = s /\ pc' = "timers" /\ next' = First(s.timeQ)
    BY <1>3 DEF NextCPU
  <2>2. Handled(s, First(s.timeQ))
    BY <1>1, FirstFacts, QueuedIsHandled
  <2> QED BY <2>1, <2>2, WaitersReflexive DEF Consistent, PCs
<1> QED BY <1>2, <1>3

\* charging the elapsed time to the running task
LEMMA ChargeFacts ==
  ASSUME NEW s, NEW t \in Task, Sound(s, ActiveUsers(s), {}), timeElapsed \in Nat,
         NEW r, r = Charge(s, t)
  PROVE  /\ Sound(r, ActiveUsers(r), {})
         /\ JobsOf(r) = JobsOf(s) /\ SameClock(s, r) /\ r.running = s.running
         /\ WaitersKept(s, r)
<1> DEFINE st == [s.state EXCEPT ![t] = IF s.state[t] = "RUNNING" THEN "READY" ELSE s.state[t]]
           ex == [s.execTime EXCEPT ![t] = s.execTime[t] - timeElapsed]
           bu == IF t \in UserTask THEN [s.budget EXCEPT ![t] = s.budget[t] - timeElapsed]
                 ELSE s.budget
<1>1. s \in RTsysType
  BY DEF Sound
<1>2. r = [s EXCEPT !.state = st, !.execTime = ex, !.budget = bu]
  <2>1. CASE t \in UserTask
    BY <1>1, <2>1 DEF Charge, RTsysType
  <2>2. CASE t \notin UserTask
    BY <1>1, <2>2 DEF Charge, RTsysType
  <2> QED BY <2>1, <2>2
<1>3. st \in [Task -> State] /\ ex \in [Task -> Int] /\ bu \in [UserTask -> Int]
  <2>1. s.state \in [Task -> State] /\ s.execTime \in [Task -> Int] /\ s.budget \in [UserTask -> Int]
    BY <1>1, RecordFields
  <2>2. st \in [Task -> State]
    BY <2>1 DEF State
  <2>3. ex \in [Task -> Int]
    BY <2>1
  <2>4. bu \in [UserTask -> Int]
    BY <2>1
  <2> QED BY <2>2, <2>3, <2>4
<1> HIDE DEF st, ex, bu
<1>4. r \in RTsysType /\ SameQueues(s, r) /\ r.arrival = s.arrival /\ SameClock(s, r)
  <2>1. /\ r \in RTsysType /\ r.readyQ = s.readyQ /\ r.timeQ = s.timeQ
        /\ r.running = s.running /\ r.nbrInvocations = s.nbrInvocations
        /\ r.pending = s.pending /\ r.arrival = s.arrival /\ SameClock(s, r)
        /\ r.state = st
    BY <1>1, <1>2, <1>3 DEF RTsysType, SameClock
  <2>2. \A u \in Task : /\ Runnable(r, u) <=> Runnable(s, u)
                        /\ Waits(r, u) <=> Waits(s, u)
    BY <2>1, <1>1, RecordFields DEF st, Runnable, Waits
  <2> QED BY <2>1, <2>2 DEF SameQueues
<1> QED BY <1>4, KeepFacts DEF SameQueues

-----------------------------------------------------------------------------
(***************************************************************************)
(* One lemma per action.                                                   *)
(***************************************************************************)
Preserved ==
  /\ Consistent(rtsys', pc', timeElapsed', niter', next', calls')
  /\ JobStep(rtsys, rtsys')
  /\ WaitersKept(rtsys, rtsys')

LEMMA IInvFacts ==
  ASSUME IInv
  PROVE  /\ rtsys \in RTsysType /\ Sound(rtsys, ActiveUsers(rtsys), {})
         /\ rtsys.time \in Nat /\ rtsys.prevHit \in Nat /\ rtsys.nextHit \in Nat
         /\ rtsys.currentCPU \in CPU /\ rtsys.prevHit <= rtsys.time
         /\ timeElapsed \in Nat /\ niter \in Nat /\ calls \in Nat
         /\ pc # "timers" => next = None
         /\ \A s : Handled(s, None)
<1>1. rtsys \in RTsysType
  BY DEF IInv, Consistent, Sound
<1>2. \A s : Handled(s, None)
  BY TaskSorts DEF Handled
<1> QED BY <1>1, <1>2, RecordFields DEF IInv, Consistent

LEMMA CurrentIsActive ==
  ASSUME IInv, Current # None
  PROVE  /\ Current \in Task
         /\ Current \in UserTask => Current \in ActiveUsers(rtsys)
<1>1. Current \in ActiveUsers(rtsys) \cup ActiveHandlers(rtsys)
  BY IInvFacts DEF Current, Sound, Placed
<1> QED BY <1>1, TaskSorts DEF ActiveUsers, ActiveHandlers

LEMMA StutterStep ==
  ASSUME IInv, UNCHANGED vars
  PROVE  Preserved
<1>1. JobStep(rtsys, rtsys')
  BY IInvFacts DEF JobStep, vars
<1>2. Consistent(rtsys', pc', timeElapsed', niter', next', calls')
  <2>1. /\ rtsys' = rtsys /\ pc' = pc /\ timeElapsed' = timeElapsed
        /\ niter' = niter /\ next' = next /\ calls' = calls
    BY DEF vars
  <2> QED BY <2>1 DEF IInv
<1>3. WaitersKept(rtsys, rtsys')
  BY WaitersReflexive DEF vars
<1> QED BY <1>1, <1>2, <1>3 DEF Preserved

LEMMA RunKernelStep ==
  ASSUME IInv, RunKernel
  PROVE  Preserved
<1> DEFINE r == [rtsys EXCEPT !.time = rtsys.nextHit, !.prevHit = rtsys.nextHit,
                              !.currentCPU = 0]
<1>1. rtsys' = r /\ timeElapsed' = rtsys.nextHit - rtsys.prevHit
      /\ niter' = 1 /\ pc' = "count" /\ next' = next /\ calls' = calls
      /\ pc = "idle"
  BY DEF RunKernel
<1>2. 0 \in CPU
  BY AttributesAssumption DEF AttributesAssumption, CPU
<1>3. /\ r \in RTsysType /\ SameQueues(rtsys, r) /\ r.arrival = rtsys.arrival
      /\ r.time = rtsys.nextHit /\ r.prevHit = rtsys.nextHit
  BY <1>2, IInvFacts DEF RTsysType, SameQueues, Runnable, Waits
<1> HIDE DEF r
<1>4. Sound(r, ActiveUsers(r), {}) /\ JobsOf(r) = JobsOf(rtsys) /\ WaitersKept(rtsys, r)
  BY <1>3, IInvFacts, KeepFacts
<1>5. rtsys.time <= rtsys.nextHit
  BY <1>1 DEF IInv, Consistent
<1>6. timeElapsed' \in Nat
  BY <1>1, <1>5, IInvFacts
<1>7. JobStep(rtsys, rtsys')
  BY <1>1, <1>3, <1>4, <1>5, IInvFacts DEF JobStep
<1>8. Consistent(rtsys', pc', timeElapsed', niter', next', calls')
  BY <1>1, <1>3, <1>4, <1>6, IInvFacts DEF Consistent, PCs
<1> QED BY <1>1, <1>4, <1>7, <1>8 DEF Preserved

LEMMA InterruptStep ==
  ASSUME IInv, NEW h \in External, NEW t \in 0 .. MaxTime, Interrupt(h, t)
  PROVE  Preserved
<1> DEFINE a == [rtsys EXCEPT !.time = t]
           s == InvokeHandler(a, h)
           r == IF s.nbrInvocations[h] = 1 THEN [s EXCEPT !.nextHit = t] ELSE s
<1>1. /\ rtsys' = r /\ pc = "idle" /\ pc' = pc /\ timeElapsed' = timeElapsed
      /\ niter' = niter /\ next' = next /\ calls' = calls
      /\ t >= rtsys.time /\ t <= rtsys.nextHit
  BY DEF Interrupt
<1>2. h \in Handler /\ t \in Nat
  BY TasksAssumption, BoundsAssumption DEF TasksAssumption, BoundsAssumption
<1>3. /\ a \in RTsysType /\ SameQueues(rtsys, a) /\ a.arrival = rtsys.arrival
      /\ a.time = t /\ a.prevHit = rtsys.prevHit /\ a.nextHit = rtsys.nextHit
  BY <1>2, IInvFacts DEF RTsysType, SameQueues, Runnable, Waits
<1> HIDE DEF a
<1>4. /\ Sound(a, ActiveUsers(a), {}) /\ JobsOf(a) = JobsOf(rtsys)
      /\ WaitersKept(rtsys, a)
  BY <1>3, IInvFacts, KeepFacts
<1>5. Sound(s, ActiveUsers(a), {}) /\ Steady(a, s)
  BY <1>2, <1>4, InvokeHandlerFacts
<1> HIDE DEF s
<1>6. Sound(s, ActiveUsers(s), {}) /\ JobsOf(s) = JobsOf(a)
  BY <1>5, SteadyJobs
<1>7. /\ s.time = t /\ s.prevHit = rtsys.prevHit /\ s.nextHit = rtsys.nextHit
      /\ s \in RTsysType
  BY <1>3, <1>5 DEF Steady, Sound
<1>8. /\ r \in RTsysType /\ SameQueues(s, r) /\ r.arrival = s.arrival
      /\ r.time = t /\ r.prevHit = rtsys.prevHit /\ r.nextHit >= t
  <2>1. CASE s.nbrInvocations[h] = 1
    <3>1. r = [s EXCEPT !.nextHit = t]
      BY <2>1
    <3> HIDE DEF r
    <3>2. /\ r \in RTsysType /\ SameQueues(s, r) /\ r.arrival = s.arrival
          /\ r.time = s.time /\ r.prevHit = s.prevHit /\ r.nextHit = t
      BY <3>1, <1>2, <1>7 DEF RTsysType, SameQueues, Runnable, Waits
    <3> QED BY <3>2, <1>2, <1>7
  <2>2. CASE s.nbrInvocations[h] # 1
    BY <2>2, <1>1, <1>2, <1>7, IInvFacts DEF SameQueues
  <2> QED BY <2>1, <2>2
<1> HIDE DEF r
<1>9. Sound(r, ActiveUsers(r), {}) /\ JobsOf(r) = JobsOf(rtsys) /\ WaitersKept(s, r)
  BY <1>4, <1>6, <1>8, KeepFacts
<1>10. JobStep(rtsys, rtsys')
  BY <1>1, <1>2, <1>8, <1>9 DEF JobStep
<1>11. r.prevHit <= r.time
  BY <1>1, <1>2, <1>8, IInvFacts
<1>12. Consistent(rtsys', pc', timeElapsed', niter', next', calls')
  BY <1>1, <1>8, <1>9, <1>11, IInvFacts DEF Consistent, PCs
<1>13. WaitersKept(rtsys, rtsys')
  BY <1>1, <1>4, <1>5, <1>9, SteadyWaiters, WaitersTransitive
<1> QED BY <1>10, <1>12, <1>13 DEF Preserved

\* the steps that end with NextCPU, from a state s that kept the jobs
LEMMA NextCPUStep ==
  ASSUME IInv, NEW s, Sound(s, ActiveUsers(s), {}), SameClock(rtsys, s), next = None,
         JobsOf(s) = JobsOf(rtsys), WaitersKept(rtsys, s), NextCPU(s), UNCHANGED <<timeElapsed, niter, calls>>
  PROVE  Preserved
<1>1. /\ Consistent(rtsys', pc', timeElapsed', niter', next', calls')
      /\ JobsOf(rtsys') = JobsOf(s) /\ rtsys'.time = s.time /\ WaitersKept(s, rtsys')
  BY IInvFacts, NextCPUFacts DEF SameClock
<1> QED BY <1>1, IInvFacts, WaitersTransitive DEF Preserved, JobStep, SameClock

LEMMA SkipCPUStep ==
  ASSUME IInv, SkipCPU
  PROVE  Preserved
  BY IInvFacts, NextCPUStep, WaitersReflexive DEF SkipCPU, SameClock

LEMMA CountDownStep ==
  ASSUME IInv, CountDown
  PROVE  Preserved
<1>1. Current \in Task
  BY CurrentIsActive DEF CountDown
<1> DEFINE s == Charge(rtsys, Current)
<1>2. Sound(s, ActiveUsers(s), {}) /\ JobsOf(s) = JobsOf(rtsys) /\ SameClock(rtsys, s)
      /\ WaitersKept(rtsys, s)
  BY <1>1, IInvFacts, ChargeFacts
<1>3. NextCPU(s) /\ next = None /\ UNCHANGED <<timeElapsed, niter, calls>>
  BY IInvFacts DEF CountDown
<1> HIDE DEF s
<1> QED BY <1>2, <1>3, NextCPUStep

LEMMA StartSegmentStep ==
  ASSUME IInv, StartSegment
  PROVE  Preserved
<1> DEFINE t == Current
           s == Charge(rtsys, t)
           sg == [s.segment EXCEPT ![t] = s.nextSegment[t]]
           ns == [s.nextSegment EXCEPT ![t] = s.nextSegment[t] + 1]
           r == [s EXCEPT !.segment = sg, !.nextSegment = ns]
<1>1. t \in Task /\ t # None /\ pc = "count"
  BY CurrentIsActive DEF StartSegment
<1>2. /\ Sound(s, ActiveUsers(s), {}) /\ JobsOf(s) = JobsOf(rtsys) /\ SameClock(rtsys, s)
      /\ s.running = rtsys.running /\ WaitersKept(rtsys, s)
  BY <1>1, IInvFacts, ChargeFacts
<1>3. /\ rtsys' = [s EXCEPT !.segment[t] = s.nextSegment[t],
                            !.nextSegment[t] = s.nextSegment[t] + 1]
      /\ pc' = "segment" /\ calls' = 0
      /\ timeElapsed' = timeElapsed /\ niter' = niter /\ next' = next
  BY DEF StartSegment
<1>4. rtsys.running[rtsys.currentCPU] = t
  BY DEF Current
<1> HIDE DEF s, t
<1>5. s \in RTsysType /\ s.segment \in [Task -> Nat] /\ s.nextSegment \in [Task -> Nat]
  BY <1>2, RecordFields DEF Sound
<1>6. sg \in [Task -> Nat] /\ ns \in [Task -> Nat]
  BY <1>1, <1>5
<1>7. rtsys' = r
  BY <1>3, <1>5 DEF RTsysType
<1> HIDE DEF sg, ns
<1>8. /\ r \in RTsysType /\ SameQueues(s, r) /\ r.arrival = s.arrival /\ SameClock(s, r)
  BY <1>5, <1>6 DEF RTsysType, SameQueues, SameClock, Runnable, Waits
<1> HIDE DEF r
<1>9. Sound(r, ActiveUsers(r), {}) /\ JobsOf(r) = JobsOf(rtsys) /\ WaitersKept(s, r)
  BY <1>2, <1>8, KeepFacts
<1>10. r.running[r.currentCPU] = t /\ r.time = rtsys.time /\ r.prevHit = rtsys.prevHit
  BY <1>2, <1>4, <1>8 DEF SameQueues, SameClock
<1>11. Consistent(rtsys', pc', timeElapsed', niter', next', calls')
  BY <1>1, <1>3, <1>7, <1>9, <1>10, IInvFacts DEF Consistent, PCs
<1>12. JobStep(rtsys, rtsys')
  BY <1>7, <1>9, <1>10, IInvFacts DEF JobStep
<1>13. WaitersKept(rtsys, rtsys')
  BY <1>2, <1>7, <1>9, WaitersTransitive
<1> QED BY <1>11, <1>12, <1>13 DEF Preserved

\* a step of a code function that goes on: only rtsys and calls change
LEMMA CallStep ==
  ASSUME IInv, NEW primitive, Calling(primitive), UNCHANGED pc,
         Sound(rtsys', ActiveUsers(rtsys'), {}), SameClock(rtsys, rtsys'),
         rtsys'.running = rtsys.running
  PROVE  Consistent(rtsys', pc', timeElapsed', niter', next', calls')
<1>1. /\ pc = "segment" /\ pc' = "segment" /\ calls' = calls + 1
      /\ timeElapsed' = timeElapsed /\ niter' = niter /\ next' = next
  BY DEF Calling
<1>2. rtsys'.running[rtsys'.currentCPU] # None
  BY <1>1 DEF SameClock, IInv, Consistent
<1>3. calls' \in Nat /\ rtsys'.prevHit <= rtsys'.time
  BY <1>1, IInvFacts DEF SameClock
<1> QED BY <1>1, <1>2, <1>3, IInvFacts DEF Consistent, PCs

LEMMA AbortStep ==
  ASSUME IInv, pc \in {"segment", "advance"}, pc' = "aborted", rtsys' = rtsys,
         timeElapsed' \in Nat, niter' \in Nat, next' = next, calls' \in Nat
  PROVE  Preserved
<1>1. Consistent(rtsys', pc', timeElapsed', niter', next', calls')
  BY IInvFacts DEF Consistent, PCs
<1> QED BY <1>1, IInvFacts, WaitersReflexive DEF Preserved, JobStep

LEMMA CreateJobStep ==
  ASSUME IInv, NEW t \in UserTask, CreateJob(t)
  PROVE  Preserved
<1> DEFINE s == InvokeUserTask(rtsys, t)
<1>1. rtsys' = s /\ Calling("ttCreateJob") /\ pc' = pc
  BY DEF CreateJob
<1>2. Sound(s, ActiveUsers(s), {}) /\ SameClock(rtsys, s) /\ s.running = rtsys.running
      /\ WaitersKept(rtsys, s)
  BY IInvFacts, InvokeUserTaskFacts DEF SameClock
<1>3. JobsOf(s) = [JobsOf(rtsys) EXCEPT ![t] = Append(@, rtsys.time)]
  BY IInvFacts, InvokeUserTaskJobs
<1> HIDE DEF s
<1>4. JobStep(rtsys, rtsys')
  BY <1>1, <1>2, <1>3 DEF JobStep, SameClock
<1> QED BY <1>1, <1>2, <1>4, CallStep DEF Preserved

LEMMA KillJobStep ==
  ASSUME IInv, NEW t \in UserTask, KillJob(t), NbrOfCPUs = 1
  PROVE  /\ Consistent(rtsys', pc', timeElapsed', niter', next', calls')
         /\ WaitersKept(rtsys, rtsys')
<1>1. Calling("ttKillJob") /\ pc = "segment" /\ calls' = calls + 1
      /\ timeElapsed' = timeElapsed /\ niter' = niter /\ next' = next
  BY DEF KillJob, Calling
<1>4. WaitersKept(rtsys, rtsys')
  BY DEF KillJob, Calling, WaitersKept, WaitKept, Parked, Waits
<1>2. CASE rtsys.nbrInvocations[t] = 0 \/ t = Current
  <2>1. pc' = "aborted" /\ rtsys' = rtsys
    BY <1>2 DEF KillJob, Abort
  <2>2. calls' \in Nat
    BY <1>1, IInvFacts
  <2> QED BY <1>1, <1>4, <2>1, <2>2, IInvFacts, AbortStep DEF Preserved
<1>3. CASE ~ (rtsys.nbrInvocations[t] = 0 \/ t = Current)
  <2> DEFINE r == KilledJob(rtsys, t)
  <2>1. rtsys' = r /\ pc' = pc
    BY <1>3 DEF KillJob
  <2>2. rtsys.nbrInvocations[t] > 0
    <3>1. rtsys.nbrInvocations[t] \in Int /\ rtsys.nbrInvocations[t] >= 0
      BY IInvFacts, TaskSorts, RecordFields DEF Sound, Counted
    <3> QED BY <1>3, <3>1
  <2>3. \A c \in CPU : rtsys.running[c] # t
    <3>1. CPU = {0}
      BY DEF CPU
    <3>2. rtsys.currentCPU = 0
      BY <3>1, IInvFacts
    <3> QED BY <1>3, <3>1, <3>2 DEF Current
  <2>4. Sound(r, ActiveUsers(r), {}) /\ SameClock(rtsys, r) /\ r.running = rtsys.running
    BY <1>1, <2>2, <2>3, IInvFacts, KilledJobFacts DEF Calling
  <2> HIDE DEF r
  <2> QED BY <1>1, <1>4, <2>1, <2>4, CallStep
<1> QED BY <1>2, <1>3, <1>4

LEMMA SleepUntilStep ==
  ASSUME IInv, ~ Waits(rtsys, Current), NEW d \in SleepTimes, SleepUntil(rtsys.time + d)
  PROVE  Preserved
<1> DEFINE time == rtsys.time + d
           s == SleepingTask(rtsys, Current, time)
<1>1. Calling("ttSleepUntil") /\ pc = "segment" /\ calls' = calls + 1
      /\ timeElapsed' = timeElapsed /\ niter' = niter /\ next' = next
  BY DEF SleepUntil, Calling
<1>2. Current # None
  BY <1>1 DEF IInv, Consistent, Current
<1>3. CASE Current \in Handler
  <2>1. pc' = "aborted" /\ rtsys' = rtsys
    BY <1>3 DEF SleepUntil, Abort
  <2>2. calls' \in Nat
    BY <1>1, IInvFacts
  <2> QED BY <1>1, <2>1, <2>2, IInvFacts, AbortStep
<1>4. CASE Current \notin Handler
  <2>1. Current \in UserTask /\ Current \in ActiveUsers(rtsys)
    BY <1>2, <1>4, CurrentIsActive, TaskSorts
  <2>2. time \in Int
    BY IInvFacts, BoundsAssumption DEF BoundsAssumption
  <2>3. pc' = pc /\ rtsys' = IF time <= rtsys.time THEN rtsys ELSE s
    BY <1>4 DEF SleepUntil, SleepingTask
  <2>4. CASE time <= rtsys.time
    <3>1. rtsys' = rtsys
      BY <2>3, <2>4
    <3>2. SameClock(rtsys, rtsys') /\ JobsOf(rtsys') = JobsOf(rtsys)
          /\ Sound(rtsys', ActiveUsers(rtsys'), {}) /\ rtsys'.running = rtsys.running
      BY <3>1, IInvFacts DEF SameClock
    <3>3. JobStep(rtsys, rtsys')
      BY <3>1, IInvFacts DEF JobStep
    <3>4. WaitersKept(rtsys, rtsys')
      BY <3>1, WaitersReflexive
    <3> QED BY <3>2, <3>3, <3>4, <2>3, <1>1, CallStep DEF Preserved
  <2>5. CASE ~ (time <= rtsys.time)
    <3>1. /\ Sound(s, ActiveUsers(rtsys), {})
          /\ SameClock(rtsys, s) /\ s.running = rtsys.running
          /\ JobsOf(s) = JobsOf(rtsys) /\ ActiveUsers(s) = ActiveUsers(rtsys)
          /\ WaitersKept(rtsys, s)
      BY <2>1, <2>2, IInvFacts, SleepFacts
    <3> HIDE DEF s
    <3>4. rtsys' = s
      BY <2>3, <2>5
    <3>5. JobStep(rtsys, rtsys')
      BY <3>1, <3>4, IInvFacts DEF JobStep, SameClock
    <3> QED BY <3>1, <3>4, <3>5, <2>3, <1>1, CallStep DEF Preserved
  <2> QED BY <2>4, <2>5
<1> QED BY <1>3, <1>4

\* what ttSetAbsDeadline does for an active job
Rearranged(s, t, time) ==
  LET a == [s EXCEPT !.absDeadline[t] = time]
      d == IF DLTimer(t) \in ToSet(a.timeQ) THEN Arm(a, DLTimer(t), time) ELSE a
  IN  IF t \in ToSet(d.readyQ[Affinity[t]]) THEN MoveToReadyQ(d, t) ELSE d

\* a new deadline moves the armed timer and the queued task
LEMMA NewDeadlineFacts ==
  ASSUME NEW s, NEW t \in UserTask, NEW time \in Int, NEW X, t \in X, Sound(s, X, {}),
         NEW r, r = Rearranged(s, t, time)
  PROVE  Sound(r, X, {}) /\ Steady(s, r)
<1> DEFINE ad == [s.absDeadline EXCEPT ![t] = time]
           a == [s EXCEPT !.absDeadline = ad]
           d == IF DLTimer(t) \in ToSet(a.timeQ) THEN Arm(a, DLTimer(t), time) ELSE a
           m == MoveToReadyQ(d, t)
<1>1. s \in RTsysType /\ t \in Task
  BY TaskSorts DEF Sound
<1>2. [s EXCEPT !.absDeadline[t] = time] = a /\ ad \in [UserTask -> Int]
  BY <1>1, RecordFields DEF RTsysType
<1> HIDE DEF ad
<1>3. a \in RTsysType /\ SameQueues(s, a) /\ Steady(s, a)
  BY <1>1, <1>2 DEF RTsysType, SameQueues, Steady, SameView, Ready, Asleep, Runnable, Waits
<1> HIDE DEF a
<1>4. Sound(a, X, {})
  BY <1>3, SameQueuesSound
<1>5. Sound(d, X, {}) /\ Steady(a, d)
  <2>1. CASE DLTimer(t) \in ToSet(a.timeQ)
    <3>1. DLTimer(t) \in Timer
      BY DEF DLTimer, Timer
    <3>2. TimerTask(DLTimer(t)) \in Task
      BY <1>4, <2>1, <3>1 DEF Sound, Placed
    <3>3. d = Arm(a, DLTimer(t), time)
      BY <2>1
    <3> QED BY <1>4, <3>1, <3>2, <3>3, ArmSound
  <2>2. CASE DLTimer(t) \notin ToSet(a.timeQ)
    <3>1. d = a
      BY <2>2
    <3> QED BY <1>4, <3>1, SteadyReflexive
  <2> QED BY <2>1, <2>2
<1>6. r = IF t \in ToSet(d.readyQ[Affinity[t]]) THEN m ELSE d
  BY <1>2 DEF Rearranged
<1> HIDE DEF d
<1>7. /\ m \in RTsysType /\ SameJobs(d, m)
      /\ Placed(m, (X \cup ActiveHandlers(d)) \cup {t})
      /\ m.state = d.state /\ Elsewhere(d, m, t)
      /\ t \in ToSet(m.readyQ[Affinity[t]]) /\ t \notin ToSet(m.timeQ)
  BY <1>1, <1>5, MoveToReadyQFacts DEF Sound
<1> HIDE DEF m
<1>8. (X \cup ActiveHandlers(d)) \cup {t} = X \cup ActiveHandlers(d)
  OBVIOUS
<1>9. Ready(d, t) => Sound(m, X, {}) /\ Steady(d, m)
  <2> HAVE Ready(d, t)
  <2>1. OthersRest(d, m, t)
    BY <1>7 DEF OthersRest
  <2>2. SameView(d, m, t)
    <3>1. HasPlace(d, t)
      BY <1>1, <1>5 DEF Sound
    <3> QED BY <3>1, <1>7 DEF HasPlace, SameView, Ready, Asleep, Runnable, Waits
  <2>3. \A u \in Task : SameView(d, m, u)
    BY <2>1, <2>2, OthersStay
  <2> QED BY <1>5, <1>7, <1>8, <2>3, SameJobsSound
<1>10. Sound(r, X, {}) /\ Steady(d, r)
  BY <1>5, <1>6, <1>9, SteadyReflexive DEF Ready
<1> QED BY <1>3, <1>5, <1>10, SteadyTransitive

LEMMA SetAbsDeadlineStep ==
  ASSUME IInv, NEW t \in UserTask, NEW e \in NewDeadlines, SetAbsDeadline(t, rtsys.time + e)
  PROVE  Preserved
<1> DEFINE time == rtsys.time + e
           s == Rearranged(rtsys, t, time)
<1>1. Calling("ttSetAbsDeadline") /\ pc = "segment" /\ calls' = calls + 1
      /\ timeElapsed' = timeElapsed /\ niter' = niter /\ next' = next
  BY DEF SetAbsDeadline, Calling
<1>2. CASE rtsys.nbrInvocations[t] = 0
  <2>1. pc' = "aborted" /\ rtsys' = rtsys
    BY <1>2 DEF SetAbsDeadline, Abort
  <2>2. calls' \in Nat
    BY <1>1, IInvFacts
  <2> QED BY <1>1, <2>1, <2>2, IInvFacts, AbortStep
<1>3. CASE rtsys.nbrInvocations[t] # 0
  <2>1. t \in ActiveUsers(rtsys)
    <3>1. rtsys.nbrInvocations[t] \in Int /\ rtsys.nbrInvocations[t] >= 0
      BY IInvFacts, TaskSorts, RecordFields DEF Sound, Counted
    <3> QED BY <1>3, <3>1 DEF ActiveUsers
  <2>2. time \in Int
    BY IInvFacts, BoundsAssumption DEF BoundsAssumption
  <2>3. pc' = pc /\ rtsys' = s
    BY <1>3 DEF SetAbsDeadline, Rearranged
  <2>4. Sound(s, ActiveUsers(rtsys), {}) /\ Steady(rtsys, s)
    BY <2>1, <2>2, IInvFacts, NewDeadlineFacts
  <2> HIDE DEF s
  <2>5. JobsOf(s) = JobsOf(rtsys) /\ ActiveUsers(s) = ActiveUsers(rtsys)
    BY <2>4, SteadyJobs
  <2>6. SameClock(rtsys, s) /\ s.running = rtsys.running
    BY <2>4 DEF Steady, SameClock
  <2>7. JobStep(rtsys, rtsys')
    BY <2>3, <2>5, <2>6, IInvFacts DEF JobStep, SameClock
  <2>8. WaitersKept(rtsys, rtsys')
    BY <2>3, <2>4, SteadyWaiters
  <2> QED BY <2>3, <2>4, <2>5, <2>6, <2>7, <2>8, <1>1, CallStep DEF Preserved
<1> QED BY <1>2, <1>3

LEMMA SetNextSegmentStep ==
  ASSUME IInv, NEW seg \in 0 .. MaxSegment, SetNextSegment(seg)
  PROVE  Preserved
<1>1. Calling("ttSetNextSegment") /\ pc = "segment" /\ calls' = calls + 1
      /\ timeElapsed' = timeElapsed /\ niter' = niter /\ next' = next
  BY DEF SetNextSegment, Calling
<1>2. CASE ~ (seg > 0)
  <2>1. pc' = "aborted" /\ rtsys' = rtsys
    BY <1>2 DEF SetNextSegment, Abort
  <2>2. calls' \in Nat
    BY <1>1, IInvFacts
  <2> QED BY <1>1, <2>1, <2>2, IInvFacts, AbortStep
<1>3. CASE seg > 0
  <2> DEFINE t == Current
             ns == [rtsys.nextSegment EXCEPT ![t] = seg]
             r == [rtsys EXCEPT !.nextSegment = ns]
  <2>1. rtsys' = r /\ pc' = pc
    BY <1>3, IInvFacts DEF SetNextSegment, RTsysType
  <2>2. t # None
    BY <1>1 DEF IInv, Consistent, Current
  <2>3. t \in Task
    BY <2>2, CurrentIsActive
  <2>4. rtsys.nextSegment \in [Task -> Nat] /\ seg \in Nat
    BY IInvFacts, RecordFields, BoundsAssumption DEF BoundsAssumption
  <2>5. ns \in [Task -> Nat]
    BY <2>3, <2>4
  <2> HIDE DEF ns
  <2>6. /\ r \in RTsysType /\ SameQueues(rtsys, r) /\ r.arrival = rtsys.arrival
        /\ SameClock(rtsys, r)
    BY <2>5, IInvFacts DEF RTsysType, SameQueues, SameClock, Runnable, Waits
  <2> HIDE DEF r
  <2>7. Sound(r, ActiveUsers(r), {}) /\ JobsOf(r) = JobsOf(rtsys) /\ WaitersKept(rtsys, r)
    BY <2>6, IInvFacts, KeepFacts
  <2>8. r.running = rtsys.running
    BY <2>6 DEF SameQueues
  <2>9. Consistent(rtsys', pc', timeElapsed', niter', next', calls')
    BY <1>1, <2>1, <2>6, <2>7, <2>8, CallStep
  <2>10. JobStep(rtsys, rtsys')
    BY <2>1, <2>6, <2>7, IInvFacts DEF JobStep, SameClock
  <2> QED BY <2>1, <2>7, <2>9, <2>10 DEF Preserved
<1> QED BY <1>2, <1>3

LEMMA SegmentReturnsStep ==
  ASSUME IInv, NEW e \in ExecTimes \cup {ContextSwitchTime}, SegmentReturns(e)
  PROVE  Preserved
<1> DEFINE t == Current
           ex == [rtsys.execTime EXCEPT ![t] = e]
           r == [rtsys EXCEPT !.execTime = ex]
<1>1. NextCPU([rtsys EXCEPT !.execTime[t] = e]) /\ pc = "segment"
      /\ UNCHANGED <<timeElapsed, niter, calls>>
  BY DEF SegmentReturns
<1>2. t \in Task
  BY <1>1, CurrentIsActive DEF IInv, Consistent, Current
<1>3. e \in Int
  BY BoundsAssumption, AttributesAssumption DEF BoundsAssumption, AttributesAssumption
<1>4. [rtsys EXCEPT !.execTime[t] = e] = r /\ ex \in [Task -> Int]
  BY <1>2, <1>3, IInvFacts, RecordFields DEF RTsysType
<1> HIDE DEF ex, t
<1>5. /\ r \in RTsysType /\ SameQueues(rtsys, r) /\ r.arrival = rtsys.arrival
      /\ SameClock(rtsys, r)
  BY <1>4, IInvFacts DEF RTsysType, SameQueues, SameClock, Runnable, Waits
<1>6. NextCPU(r)
  BY <1>1, <1>4
<1> HIDE DEF r
<1>7. Sound(r, ActiveUsers(r), {}) /\ JobsOf(r) = JobsOf(rtsys) /\ WaitersKept(rtsys, r)
  BY <1>5, IInvFacts, KeepFacts
<1> QED BY <1>1, <1>5, <1>6, <1>7, IInvFacts, NextCPUStep

\* the end of a job completes the first job of its task, and no other
LEMMA SucceededJobs ==
  ASSUME NEW s \in RTsysType, NEW r, NEW t \in UserTask, Succeeded(s, r, t),
         s.nbrInvocations[t] > 0
  PROVE  /\ JobsOf(s)[t] # << >>
         /\ JobsOf(r) = [JobsOf(s) EXCEPT ![t] = Tail(@)]
<1>1. s.pending[t] \in Seq(Nat) /\ s.arrival[t] \in Int /\ s.nbrInvocations[t] # 0
  BY RecordFields, TaskSorts
<1>2. JobsOf(s)[t] = <<s.arrival[t]>> \o s.pending[t]
  BY <1>1, Zenon DEF JobsOf
<1>3. \A a \in Int, p \in Seq(Nat) : Tail(<<a>> \o p) = p /\ <<a>> \o p # << >>
  OBVIOUS
<1>4. JobsOf(s)[t] # << >> /\ Tail(JobsOf(s)[t]) = s.pending[t]
  BY <1>1, <1>2, <1>3
<1>5. JobsOf(r)[t] = s.pending[t]
  <2>1. CASE r.nbrInvocations[t] = 0
    <3>1. JobsOf(r)[t] = << >>
      BY <2>1, Zenon DEF JobsOf
    <3> QED BY <2>1, <3>1 DEF Succeeded
  <2>2. CASE r.nbrInvocations[t] # 0
    <3>1. JobsOf(r)[t] = <<r.arrival[t]>> \o r.pending[t]
      BY <2>2, Zenon DEF JobsOf
    <3>2. /\ s.pending[t] # << >> /\ r.pending[t] = Tail(s.pending[t])
          /\ r.arrival[t] = Head(s.pending[t])
      BY <2>2 DEF Succeeded
    <3>3. \A p \in Seq(Nat) : p # << >> => <<Head(p)>> \o Tail(p) = p
      OBVIOUS
    <3> QED BY <1>1, <3>1, <3>2, <3>3
  <2> QED BY <2>1, <2>2
<1>6. \A u \in UserTask : u # t => JobsOf(r)[u] = JobsOf(s)[u]
  BY DEF Succeeded, OthersKept, JobsOf
<1>7. \A u \in UserTask : JobsOf(r)[u] = [JobsOf(s) EXCEPT ![t] = Tail(@)][u]
  BY <1>4, <1>5, <1>6 DEF JobsOf
<1> QED BY <1>4, <1>7 DEF JobsOf

LEMMA JobFinishesStep ==
  ASSUME IInv, JobFinishes
  PROVE  Preserved
<1> DEFINE t == Current
           r == ReleasePending(EndJob(rtsys, t), t)
<1>1. /\ NextCPU(r) /\ pc = "segment" /\ UNCHANGED <<timeElapsed, niter, calls>>
      /\ ~ Waits(rtsys, t)
  BY DEF JobFinishes, Waits
<1>2. t \in Task /\ rtsys.running[rtsys.currentCPU] = t
  BY <1>1, CurrentIsActive DEF IInv, Consistent, Current
<1>3. Sound(r, ActiveUsers(r), {}) /\ Succeeded(rtsys, r, t)
  BY <1>2, IInvFacts, FinishFacts
<1>7. WaitersKept(rtsys, r)
  <2> HIDE DEF t, r
  <2> QED BY <1>1, <1>3 DEF Succeeded, OthersKept, WaitersKept, WaitKept, Parked
<1> HIDE DEF r
<1>4. SameClock(rtsys, r)
  BY <1>3 DEF Succeeded
<1>5. /\ Consistent(rtsys', pc', timeElapsed', niter', next', calls')
      /\ JobsOf(rtsys') = JobsOf(r) /\ rtsys'.time = r.time /\ WaitersKept(r, rtsys')
  <2>1. r.prevHit <= r.time /\ calls' \in Nat /\ next = None
    BY <1>1, <1>4, IInvFacts DEF SameClock
  <2> QED BY <1>1, <1>3, <2>1, IInvFacts, NextCPUFacts
<1>6. JobStep(rtsys, rtsys')
  <2>1. rtsys'.time = rtsys.time
    BY <1>4, <1>5 DEF SameClock
  <2>2. CASE t \in UserTask
    <3>1. rtsys.nbrInvocations[t] > 0
      BY <1>1, <2>2, CurrentIsActive DEF ActiveUsers, IInv, Consistent, Current
    <3> HIDE DEF t
    <3>2. JobsOf(rtsys)[t] # << >> /\ JobsOf(r) = [JobsOf(rtsys) EXCEPT ![t] = Tail(@)]
      BY <1>3, <2>2, <3>1, IInvFacts, SucceededJobs
    <3> QED BY <2>1, <2>2, <3>2, <1>5 DEF JobStep
  <2>3. CASE t \notin UserTask
    <3> HIDE DEF t
    <3>1. \A u \in UserTask : JobsOf(r)[u] = JobsOf(rtsys)[u]
      BY <1>3, <2>3 DEF Succeeded, OthersKept, JobsOf
    <3>2. JobsOf(r) = JobsOf(rtsys)
      BY <3>1 DEF JobsOf
    <3> QED BY <2>1, <3>2, <1>5, IInvFacts DEF JobStep
  <2> QED BY <2>2, <2>3
<1>8. WaitersKept(rtsys, rtsys')
  BY <1>5, <1>7, WaitersTransitive
<1> QED BY <1>5, <1>6, <1>8 DEF Preserved

LEMMA FinishBlockedStep ==
  ASSUME IInv, FinishBlocked
  PROVE  Preserved
  BY IInvFacts, AbortStep DEF FinishBlocked, Abort

LEMMA TimerExpiresStep ==
  ASSUME IInv, TimerExpires
  PROVE  Preserved
<1> DEFINE x == TimerTask(next)
           s == InvokeTask(rtsys, x)
           pe == [s.expiry EXCEPT ![next] = s.expiry[next] + Period[next[2]]]
           p == [s EXCEPT !.expiry = pe]
           r == IF IsPeriodic(next) THEN MoveToTimeQ(p, next) ELSE Unlink(s, next)
<1>1. /\ pc = "timers" /\ pc' = pc /\ timeElapsed' = timeElapsed /\ niter' = niter
      /\ calls' = calls /\ next \in Timer /\ next' = NextOf(rtsys.timeQ, next)
      /\ rtsys' = IF IsPeriodic(next)
                  THEN MoveToTimeQ([s EXCEPT !.expiry[next] = s.expiry[next] + Period[next[2]]], next)
                  ELSE Unlink(s, next)
  BY Zenon DEF TimerExpires
<1>2. x \in Task /\ next \in QItem /\ next \in Task \cup Timer
  BY <1>1 DEF IInv, Consistent, Handled, QItem
<1>3. /\ Sound(s, ActiveUsers(s), {}) /\ SameClock(rtsys, s) /\ s.running = rtsys.running
      /\ ActiveUsers(rtsys) \subseteq ActiveUsers(s) /\ WaitersKept(rtsys, s)
      /\ \/ JobsOf(s) = JobsOf(rtsys)
         \/ \E u \in UserTask : JobsOf(s) = [JobsOf(rtsys) EXCEPT ![u] = Append(@, rtsys.time)]
  BY <1>2, IInvFacts, InvokeTaskFacts
<1> HIDE DEF s
<1>4. s \in RTsysType /\ s.expiry \in [Timer -> Int]
  BY <1>3, RecordFields DEF Sound
<1>5. Period[next[2]] \in Int
  <2>1. next[2] \in UserTask
    BY <1>1 DEF Timer
  <2> QED BY <2>1, AttributesAssumption DEF AttributesAssumption
<1>6. rtsys' = r
  <2>1. [s EXCEPT !.expiry[next] = s.expiry[next] + Period[next[2]]] = p
    BY <1>4 DEF RTsysType
  <2> HIDE DEF p
  <2> QED BY <1>1, <2>1
<1>7. pe \in [Timer -> Int]
  BY <1>1, <1>4, <1>5
<1> HIDE DEF pe, x
<1>8. p \in RTsysType /\ SameQueues(s, p) /\ Steady(s, p)
  BY <1>4, <1>7 DEF RTsysType, SameQueues, Steady, SameView, Ready, Asleep, Runnable, Waits
<1> HIDE DEF p
<1>9. Sound(r, ActiveUsers(s), {}) /\ Steady(s, r)
  <2>1. CASE IsPeriodic(next)
    <3> DEFINE q == MoveToTimeQ(p, next)
    <3>1. Sound(p, ActiveUsers(s), {})
      BY <1>3, <1>8, SameQueuesSound
    <3>2. /\ q \in RTsysType /\ SameJobs(p, q)
          /\ Placed(q, (ActiveUsers(s) \cup ActiveHandlers(p)) \cup ({next} \ Timer))
          /\ q.state = p.state /\ Elsewhere(p, q, next)
      BY <1>1, <1>2, <1>8, <3>1, MoveToTimeQFacts DEF Sound, x
    <3> HIDE DEF q
    <3>3. (ActiveUsers(s) \cup ActiveHandlers(p)) \cup ({next} \ Timer)
            = ActiveUsers(s) \cup ActiveHandlers(p)
      BY <1>1
    <3>4. Sound(q, ActiveUsers(s), {}) /\ Steady(p, q)
      <4>1. \A u \in Task : SameView(p, q, u)
        BY <3>2, <1>1, OthersStay, TimerSorts DEF OthersRest
      <4> QED BY <3>1, <3>2, <3>3, <4>1, SameJobsSound
    <3>5. Steady(s, q)
      BY <1>8, <3>4, SteadyTransitive
    <3> QED BY <2>1, <3>4, <3>5 DEF q
  <2>2. CASE ~ IsPeriodic(next)
    BY <2>2, <1>1, <1>3, UnlinkSound
  <2> QED BY <2>1, <2>2
<1> HIDE DEF r
<1>10. JobsOf(r) = JobsOf(s) /\ ActiveUsers(r) = ActiveUsers(s)
  BY <1>9, SteadyJobs
<1>15. WaitersKept(rtsys, r)
  BY <1>3, <1>9, SteadyWaiters, WaitersTransitive
<1>11. Handled(r, next')
  <2>1. rtsys.timeQ \in Seq(QItem)
    BY IInvFacts, RecordFields
  <2>2. Handled(rtsys, next')
    BY <1>1, <2>1, IInvFacts, NextOfFacts, QueuedIsHandled
  <2> QED BY <1>3, <1>10, <1>15, <2>2 DEF Handled, WaitersKept, WaitKept
<1>12. r.time = rtsys.time /\ r.prevHit = rtsys.prevHit
  BY <1>3, <1>9 DEF SameClock, Steady
<1>13. Consistent(rtsys', pc', timeElapsed', niter', next', calls')
  BY <1>1, <1>6, <1>9, <1>10, <1>11, <1>12, IInvFacts DEF Consistent, PCs
<1>14. JobStep(rtsys, rtsys')
  BY <1>3, <1>6, <1>10, <1>12, IInvFacts DEF JobStep
<1> QED BY <1>6, <1>13, <1>14, <1>15 DEF Preserved

LEMMA TaskWakesStep ==
  ASSUME IInv, TaskWakes
  PROVE  Preserved
<1> DEFINE s == MakeReady(rtsys, next)
<1>1. /\ pc = "timers" /\ pc' = pc /\ timeElapsed' = timeElapsed /\ niter' = niter
      /\ calls' = calls /\ next \in UserTask /\ next' = NextOf(rtsys.timeQ, next)
      /\ rtsys' = s
  BY DEF TaskWakes
<1>2. next \in Task /\ next \in ActiveUsers(rtsys)
  BY <1>1, TaskSorts DEF IInv, Consistent, Handled
<1>3. /\ Sound(s, ActiveUsers(rtsys), {}) /\ SameJobs(rtsys, s)
      /\ ~ Waits(s, next) /\ \A u \in Task : u # next => SameView(rtsys, s, u)
  BY <1>2, IInvFacts, MakeReadySound
<1> HIDE DEF s
<1>4. JobsOf(s) = JobsOf(rtsys) /\ ActiveUsers(s) = ActiveUsers(rtsys)
  BY <1>3 DEF SameJobs, JobsOf, ActiveUsers
<1>9. WaitersKept(rtsys, s)
  <2>1. ~ Parked(rtsys, next)
    BY <1>1 DEF IInv, Consistent, Handled
  <2> QED BY <1>3, <2>1, TaskSorts DEF WaitersKept, WaitKept, Parked, SameView
<1>5. Handled(s, next')
  <2>1. rtsys.timeQ \in Seq(QItem)
    BY IInvFacts, RecordFields
  <2>2. Handled(rtsys, next')
    BY <1>1, <2>1, IInvFacts, NextOfFacts, QueuedIsHandled
  <2> QED BY <1>4, <1>9, <2>2 DEF Handled, WaitersKept, WaitKept
<1>6. s.time = rtsys.time /\ s.prevHit = rtsys.prevHit
  BY <1>3 DEF SameJobs
<1>7. Consistent(rtsys', pc', timeElapsed', niter', next', calls')
  BY <1>1, <1>3, <1>4, <1>5, <1>6, IInvFacts DEF Consistent, PCs
<1>8. JobStep(rtsys, rtsys')
  BY <1>1, <1>4, <1>6, IInvFacts DEF JobStep
<1> QED BY <1>1, <1>7, <1>8, <1>9 DEF Preserved

\* the remaining steps leave the queues and the jobs alone
LEMMA QuietStep ==
  ASSUME IInv, NEW s \in RTsysType, Sound(s, ActiveUsers(s), {}), rtsys' = s,
         JobsOf(s) = JobsOf(rtsys), WaitersKept(rtsys, s), s.time = rtsys.time, s.prevHit = rtsys.prevHit,
         pc' \in PCs \ {"segment", "timers"}, pc' = "idle" => s.time <= s.nextHit,
         timeElapsed' \in Nat, niter' \in Nat, next' = None, calls' = calls
  PROVE  Preserved
<1>1. Consistent(rtsys', pc', timeElapsed', niter', next', calls')
  BY IInvFacts DEF Consistent
<1> QED BY <1>1, IInvFacts DEF Preserved, JobStep

LEMMA SetCPUFacts ==
  ASSUME NEW s, Sound(s, ActiveUsers(s), {}), NEW c \in CPU,
         NEW r, r = [s EXCEPT !.currentCPU = c]
  PROVE  /\ r \in RTsysType /\ Sound(r, ActiveUsers(r), {}) /\ JobsOf(r) = JobsOf(s)
         /\ r.time = s.time /\ r.prevHit = s.prevHit /\ r.nextHit = s.nextHit
         /\ WaitersKept(s, r)
<1>1. /\ r \in RTsysType /\ SameQueues(s, r) /\ r.arrival = s.arrival
      /\ r.time = s.time /\ r.prevHit = s.prevHit /\ r.nextHit = s.nextHit
  BY DEF Sound, RTsysType, SameQueues, Runnable, Waits
<1> QED BY <1>1, KeepFacts

LEMMA ScanEndsStep ==
  ASSUME IInv, ScanEnds
  PROVE  Preserved
<1> DEFINE s == [rtsys EXCEPT !.currentCPU = 0]
<1>1. /\ pc' = "dispatch" /\ rtsys' = s /\ next' = None
      /\ timeElapsed' = timeElapsed /\ niter' = niter /\ calls' = calls
  BY DEF ScanEnds
<1>2. 0 \in CPU
  BY AttributesAssumption DEF AttributesAssumption, CPU
<1>3. /\ s \in RTsysType /\ Sound(s, ActiveUsers(s), {}) /\ JobsOf(s) = JobsOf(rtsys)
      /\ s.time = rtsys.time /\ s.prevHit = rtsys.prevHit /\ WaitersKept(rtsys, s)
  BY <1>2, IInvFacts, SetCPUFacts
<1> HIDE DEF s
<1> QED BY <1>1, <1>3, IInvFacts, QuietStep DEF PCs

LEMMA DispatchStep ==
  ASSUME IInv, Dispatch
  PROVE  Preserved
<1> DEFINE c == rtsys.currentCPU
           d == Dispatched(rtsys, c)
<1>1. /\ IF c < NbrOfCPUs - 1
         THEN rtsys' = [d EXCEPT !.currentCPU = d.currentCPU + 1] /\ pc' = pc
         ELSE rtsys' = d /\ pc' = "advance"
      /\ timeElapsed' = timeElapsed /\ niter' = niter /\ next' = next /\ calls' = calls
      /\ pc = "dispatch"
  BY DEF Dispatch
<1>2. /\ Sound(d, ActiveUsers(d), {}) /\ SameClock(rtsys, d)
      /\ JobsOf(d) = JobsOf(rtsys) /\ WaitersKept(rtsys, d)
  BY IInvFacts, DispatchedFacts
<1> HIDE DEF d
<1>3. d \in RTsysType /\ d.time = rtsys.time /\ d.prevHit = rtsys.prevHit
      /\ d.currentCPU = c
  BY <1>2 DEF Sound, SameClock
<1>4. CASE c < NbrOfCPUs - 1
  <2> DEFINE r == [d EXCEPT !.currentCPU = c + 1]
  <2>1. c + 1 \in CPU
    BY <1>4, IInvFacts, AttributesAssumption DEF AttributesAssumption, CPU
  <2>2. /\ r \in RTsysType /\ Sound(r, ActiveUsers(r), {}) /\ JobsOf(r) = JobsOf(d)
        /\ r.time = d.time /\ r.prevHit = d.prevHit /\ WaitersKept(rtsys, r)
    BY <1>2, <2>1, SetCPUFacts, WaitersTransitive
  <2>3. rtsys' = r /\ pc' = "dispatch" /\ next' = None
    BY <1>1, <1>3, <1>4, IInvFacts
  <2> HIDE DEF r
  <2> QED BY <1>1, <1>2, <1>3, <2>2, <2>3, IInvFacts, QuietStep DEF PCs
<1>5. CASE ~ (c < NbrOfCPUs - 1)
  <2>1. rtsys' = d /\ pc' = "advance" /\ next' = None
    BY <1>1, <1>5, IInvFacts
  <2> QED BY <1>1, <1>2, <1>3, <2>1, IInvFacts, QuietStep DEF PCs
<1> QED BY <1>4, <1>5

LEMMA NextInvocationStep ==
  ASSUME IInv, NEW timestep \in Candidates, NextInvocation(timestep)
  PROVE  Preserved
<1> DEFINE s == [rtsys EXCEPT !.nextHit = rtsys.time + timestep]
<1>1. /\ pc = "advance" /\ pc' = "idle" /\ rtsys' = s /\ timeElapsed' = 0
      /\ niter' = niter /\ next' = next /\ calls' = calls /\ timestep > 0
  BY DEF NextInvocation
<1>2. timestep \in Int
  <2>1. ASSUME NEW n \in QItem PROVE Wakeup(rtsys, n) \in Int
    <3>1. rtsys.expiry \in [Timer -> Int] /\ rtsys.release \in [UserTask -> Int]
      BY IInvFacts, RecordFields
    <3> QED BY <3>1 DEF Wakeup, QItem
  <2>2. ASSUME rtsys.timeQ # << >> PROVE rtsys.timeQ[1] \in QItem
    <3>1. rtsys.timeQ \in Seq(QItem)
      BY IInvFacts, RecordFields
    <3> QED BY <2>2, <3>1, EmptySeq, LenProperties
  <2>3. ASSUME NEW c \in CPU, rtsys.running[c] # None
        PROVE  rtsys.execTime[rtsys.running[c]] \in Int
    <3>1. rtsys.running \in [CPU -> Task \cup {None}] /\ rtsys.execTime \in [Task -> Int]
      BY IInvFacts, RecordFields
    <3> QED BY <2>3, <3>1
  <2>4. MaxTimestep \in Int
    BY BoundsAssumption DEF BoundsAssumption
  <2>5. CASE timestep = TimeToWakeup
    BY <2>1, <2>2, <2>4, <2>5, IInvFacts DEF TimeToWakeup
  <2>6. CASE timestep \in {rtsys.execTime[rtsys.running[c]] :
                             c \in {d \in CPU : rtsys.running[d] # None}}
    BY <2>3, <2>6
  <2> QED BY <2>5, <2>6 DEF Candidates
<1>3. rtsys.time + timestep \in Nat /\ rtsys.time <= rtsys.time + timestep
  BY <1>1, <1>2, IInvFacts
<1>4. /\ s \in RTsysType /\ SameQueues(rtsys, s) /\ s.arrival = rtsys.arrival
      /\ s.time = rtsys.time /\ s.prevHit = rtsys.prevHit
      /\ s.nextHit = rtsys.time + timestep
  BY <1>3, IInvFacts DEF RTsysType, SameQueues, Runnable, Waits
<1> HIDE DEF s
<1>5. Sound(s, ActiveUsers(s), {}) /\ JobsOf(s) = JobsOf(rtsys) /\ WaitersKept(rtsys, s)
  BY <1>4, IInvFacts, KeepFacts
<1>6. s.time <= s.nextHit /\ next' = None /\ niter' \in Nat /\ timeElapsed' \in Nat
  BY <1>1, <1>3, <1>4, IInvFacts
<1> QED BY <1>1, <1>4, <1>5, <1>6, QuietStep DEF PCs

LEMMA AnotherPassStep ==
  ASSUME IInv, AnotherPass
  PROVE  Preserved
<1> DEFINE s == [rtsys EXCEPT !.currentCPU = 0]
<1>1. /\ pc = "advance" /\ timeElapsed' = 0 /\ niter' = niter + 1
      /\ next' = next /\ calls' = calls
      /\ IF niter + 1 = MaxIter THEN pc' = "aborted" /\ rtsys' = rtsys
         ELSE pc' = "count" /\ rtsys' = s
  BY DEF AnotherPass, Abort
<1>2. niter' \in Nat /\ calls' \in Nat /\ timeElapsed' \in Nat /\ next' = None
  BY <1>1, IInvFacts
<1>3. 0 \in CPU
  BY AttributesAssumption DEF AttributesAssumption, CPU
<1>4. /\ s \in RTsysType /\ Sound(s, ActiveUsers(s), {}) /\ JobsOf(s) = JobsOf(rtsys)
      /\ s.time = rtsys.time /\ s.prevHit = rtsys.prevHit /\ WaitersKept(rtsys, s)
  BY <1>3, IInvFacts, SetCPUFacts
<1> HIDE DEF s
<1>5. CASE niter + 1 = MaxIter
  BY <1>1, <1>2, <1>5, AbortStep
<1>6. CASE niter + 1 # MaxIter
  BY <1>1, <1>2, <1>4, <1>6, QuietStep DEF PCs
<1> QED BY <1>5, <1>6

-----------------------------------------------------------------------------
(***************************************************************************)
(* The invariant holds initially and is preserved by every step, and every *)
(* step is a step or a stutter of TTJobs.                                  *)
(***************************************************************************)
LEMMA InitialTimeQFacts ==
  ASSUME NEW q \in InitialTimeQs
  PROVE  /\ q \in Seq(QItem) /\ NoDuplicates(q)
         /\ \A n \in ToSet(q) : n \in Timer /\ TimerTask(n) \in Task
<1> DEFINE N == Cardinality(Started)
<1>1. N \in Nat
  <2> DEFINE S == {u \in UserTask : StartTime[u] >= 0}
  <2>1. IsFiniteSet(S)
    BY FS_Subset, TasksAssumption DEF TasksAssumption
  <2> HIDE DEF S
  <2> DEFINE f == [t \in S |-> Activation(t)]
             T == {Activation(t) : t \in S}
  <2>2. f \in Surjection(S, T)
    BY DEF Surjection
  <2>3. IsFiniteSet(Started)
    <3> HIDE DEF f, T
    <3>1. IsFiniteSet(T)
      BY <2>1, <2>2, FS_Surjection
    <3> QED BY <3>1 DEF Started, S, T
  <2> QED BY <2>3, FS_CardinalityType
<1>2. /\ q \in [1 .. N -> Started]
      /\ \A i, j \in DOMAIN q : i < j => q[i] # q[j]
  BY DEF InitialTimeQs
<1>3. \A n \in Started : n \in Timer /\ n \in QItem /\ TimerTask(n) \in Task
  BY TimerSorts DEF Started, QItem
<1> HIDE DEF N
<1>4. q \in Seq(QItem)
  <2>1. q \in [1 .. N -> QItem]
    BY <1>2, <1>3
  <2> QED BY <2>1, <1>1, IsASeq
<1>5. DOMAIN q = 1 .. N /\ Len(q) = N
  BY <1>1, <1>2, <1>4, LenProperties
<1>6. NoDuplicates(q)
  <2> SUFFICES ASSUME NEW i \in 1 .. N, NEW j \in 1 .. N, q[i] = q[j]
               PROVE  i = j
    BY <1>5 DEF NoDuplicates
  <2>1. ~ (i < j) /\ ~ (j < i)
    BY <1>2, <1>5
  <2> QED BY <2>1, <1>1
<1>7. \A n \in ToSet(q) : n \in Started
  BY <1>2 DEF ToSet
<1> QED BY <1>3, <1>4, <1>6, <1>7

LEMMA InitialState ==
  ASSUME Init
  PROVE  KernelInv /\ JobsOf(rtsys) = [t \in UserTask |-> << >>] /\ rtsys.time = 0
<1>1. PICK q \in InitialTimeQs : rtsys = InitialRTsys(q)
  BY DEF Init
<1>2. /\ q \in Seq(QItem) /\ NoDuplicates(q)
      /\ \A n \in ToSet(q) : n \in Timer /\ TimerTask(n) \in Task
  BY InitialTimeQFacts
<1>3. rtsys \in RTsysType
  <2>1. 0 \in CPU
    BY AttributesAssumption DEF AttributesAssumption, CPU
  <2>2. [tm \in Timer |-> IF tm[1] = "activation" THEN StartTime[tm[2]] ELSE 0] \in [Timer -> Int]
    BY AttributesAssumption DEF AttributesAssumption, Timer
  <2>3. [t \in UserTask |-> Deadline[t]] \in [UserTask -> Int]
    BY AttributesAssumption DEF AttributesAssumption
  <2>4. << >> \in Seq(Nat) /\ << >> \in Seq(Task)
    OBVIOUS
  <2> QED BY <1>1, <1>2, <2>1, <2>2, <2>3, <2>4 DEF InitialRTsys, RTsysType, State
<1>4. /\ rtsys.readyQ = [c \in CPU |-> << >>] /\ rtsys.timeQ = q
      /\ rtsys.running = [c \in CPU |-> None]
      /\ rtsys.state = [t \in Task |-> "SLEEPING"]
      /\ rtsys.nbrInvocations = [t \in Task |-> 0] /\ rtsys.pending = [t \in Task |-> << >>]
      /\ rtsys.time = 0 /\ rtsys.prevHit = 0 /\ rtsys.nextHit = 0
  BY <1>1 DEF InitialRTsys
<1>5. NoDuplicates(<< >>) /\ ToSet(<< >>) = {}
  BY DEF NoDuplicates, ToSet
<1>6. Sound(rtsys, ActiveUsers(rtsys), {})
  <2>1. Placed(rtsys, ActiveUsers(rtsys) \cup ActiveHandlers(rtsys))
    BY <1>2, <1>4, <1>5 DEF Placed
  <2>2. \A t \in Task : Counted(rtsys, t)
    BY <1>4 DEF Counted
  <2>3. \A t \in Task : HasPlace(rtsys, t)
    <3>1. \A t \in Task : Affinity[t] \in CPU
      BY AttributesAssumption DEF AttributesAssumption
    <3> QED BY <1>4, <1>5, <3>1 DEF HasPlace, Ready, Asleep, Runnable, Waits
  <2> QED BY <1>3, <2>1, <2>2, <2>3 DEF Sound
<1>7. JobsOf(rtsys) = [t \in UserTask |-> << >>]
  BY <1>4, TaskSorts DEF JobsOf
<1>8. IInv
  BY <1>4, <1>6, TaskSorts DEF IInv, Consistent, Handled, PCs, Init
<1>9. NobodyWaits
  BY <1>4 DEF NobodyWaits, Waits
<1> QED BY <1>4, <1>7, <1>8, <1>9 DEF KernelInv

\* The steps of runKernel preserve the invariant, block and release nobody, and
\* are steps that TTJobs allows ...
KernelOwnStep ==
  \/ RunKernel \/ RunStep \/ UNCHANGED vars
  \/ \E h \in External, t \in 0 .. MaxTime : Interrupt(h, t)

LEMMA KernelOwnSteps ==
  ASSUME IInv, KernelOwnStep
  PROVE  Preserved
<1>1. CASE UNCHANGED vars
  BY <1>1, StutterStep
<1>2. CASE RunKernel
  BY <1>2, RunKernelStep
<1>3. CASE \E h \in External, t \in 0 .. MaxTime : Interrupt(h, t)
  BY <1>3, InterruptStep
<1>4. CASE RunStep
  <2>1. CASE SkipCPU \/ CountDown \/ StartSegment
    BY <2>1, SkipCPUStep, CountDownStep, StartSegmentStep
  <2>2. CASE \E e \in ExecTimes \cup {ContextSwitchTime} : SegmentReturns(e)
    BY <2>2, SegmentReturnsStep
  <2>3. CASE JobFinishes \/ FinishBlocked
    BY <2>3, JobFinishesStep, FinishBlockedStep
  <2>4. CASE TimerExpires \/ TaskWakes \/ ScanEnds
    BY <2>4, TimerExpiresStep, TaskWakesStep, ScanEndsStep
  <2>5. CASE Dispatch \/ AnotherPass
    BY <2>5, DispatchStep, AnotherPassStep
  <2>6. CASE \E timestep \in Candidates : NextInvocation(timestep)
    BY <2>6, NextInvocationStep
  <2> QED BY <1>4, <2>1, <2>2, <2>3, <2>4, <2>5, <2>6 DEF RunStep
<1> QED BY <1>1, <1>2, <1>3, <1>4 DEF KernelOwnStep

\* ... and so do the primitives that a task calls which is not blocked; only
\* ttKillJob, allowed on a single CPU, does what TTJobs does not.
LEMMA SegmentCalls ==
  ASSUME "ttKillJob" \in Primitives => NbrOfCPUs = 1, IInv, SegmentCall,
         ~ Waits(rtsys, Current)
  PROVE  /\ IInv' /\ WaitersKept(rtsys, rtsys')
         /\ "ttKillJob" \notin Primitives => JobStep(rtsys, rtsys')
<1>1. Preserved => IInv' /\ WaitersKept(rtsys, rtsys') /\ JobStep(rtsys, rtsys')
  BY DEF Preserved, IInv
<1>2. CASE \E t \in UserTask : CreateJob(t)
  BY <1>1, <1>2, CreateJobStep
<1>3. CASE \E t \in UserTask : KillJob(t)
  <2>1. "ttKillJob" \in Primitives /\ NbrOfCPUs = 1
    BY <1>3 DEF KillJob, Calling
  <2>2. /\ Consistent(rtsys', pc', timeElapsed', niter', next', calls')
        /\ WaitersKept(rtsys, rtsys')
    BY <1>3, <2>1, KillJobStep
  <2> QED BY <2>1, <2>2 DEF IInv
<1>4. CASE \E d \in SleepTimes : SleepUntil(rtsys.time + d)
  BY <1>1, <1>4, SleepUntilStep
<1>5. CASE \E t \in UserTask, d \in NewDeadlines : SetAbsDeadline(t, rtsys.time + d)
  BY <1>1, <1>5, SetAbsDeadlineStep
<1>6. CASE \E seg \in 0 .. MaxSegment : SetNextSegment(seg)
  BY <1>1, <1>6, SetNextSegmentStep
<1> QED BY <1>2, <1>3, <1>4, <1>5, <1>6 DEF SegmentCall

LEMMA KernelInvStep ==
  ASSUME "ttKillJob" \in Primitives => NbrOfCPUs = 1, KernelInv, [Next]_vars
  PROVE  /\ KernelInv'
         /\ "ttKillJob" \notin Primitives => JobStep(rtsys, rtsys')
<1>1. /\ IInv' /\ WaitersKept(rtsys, rtsys')
      /\ "ttKillJob" \notin Primitives => JobStep(rtsys, rtsys')
  <2>1. CASE KernelOwnStep
    BY <2>1, KernelOwnSteps DEF KernelInv, Preserved, IInv
  <2>2. CASE SegmentCall
    <3>1. pc = "segment"
      BY <2>2 DEF SegmentCall, CreateJob, KillJob, SleepUntil, SetAbsDeadline,
                  SetNextSegment, Calling
    <3>2. ~ Waits(rtsys, Current)
      BY <3>1, CurrentIsActive DEF KernelInv, NobodyWaits, IInv, Consistent, Current
    <3> QED BY <2>2, <3>2, SegmentCalls DEF KernelInv
  <2> QED BY <2>1, <2>2 DEF Next, KernelStep, KernelOwnStep
<1>2. \A t \in UserTask : ~ Waits(rtsys, t)'
  BY <1>1, TaskSorts DEF KernelInv, NobodyWaits, WaitersKept, WaitKept
<1>3. \A t \in Handler : ~ Waits(rtsys, t)'
  <2>1. \A t \in Task : HasPlace(rtsys, t)'
    BY <1>1 DEF IInv, Consistent, Sound
  <2> QED BY <2>1, TaskSorts DEF HasPlace
<1> QED BY <1>1, <1>2, <1>3, TaskSorts DEF KernelInv, NobodyWaits

-----------------------------------------------------------------------------
\* What holds between any two steps of runKernel: the queues hold only active
\* tasks, each once and in the right queue, nbrInvocations counts the jobs, and
\* times are ordered.  Everything below follows from it.
THEOREM InductiveInvariant ==
  ASSUME "ttKillJob" \in Primitives => NbrOfCPUs = 1
  PROVE  Spec => []KernelInv
<1>1. Init => KernelInv
  BY InitialState
<1>2. KernelInv /\ [Next]_vars => KernelInv'
  BY KernelInvStep
<1> QED BY <1>1, <1>2, PTL DEF Spec

\* In every reachable state every variable has its type and code runs only for
\* a current task (RTsys, runKernel).
THEOREM TypeCorrectness ==
  ASSUME "ttKillJob" \in Primitives => NbrOfCPUs = 1
  PROVE  Spec => []TypeOK
<1>1. KernelInv => TypeOK
  BY DEF KernelInv, IInv, Consistent, Sound, Handled, PCs, TypeOK, Current
<1> QED BY <1>1, InductiveInvariant, PTL

\* nbrInvocations never goes negative and counts the active and pending jobs.
THEOREM JobsAreAccounted ==
  ASSUME "ttKillJob" \in Primitives => NbrOfCPUs = 1
  PROVE  Spec => []JobAccounting
<1>1. KernelInv => JobAccounting
  BY DEF KernelInv, IInv, Consistent, Sound, Counted, JobAccounting
<1> QED BY <1>1, InductiveInvariant, PTL

LEMMA OnePlace ==
  ASSUME NEW S, NEW q \in Seq(S), NoDuplicates(q), NEW t
  PROVE  Cardinality(Places(t, q)) = IF t \in ToSet(q) THEN 1 ELSE 0
<1>1. DOMAIN q = 1 .. Len(q)
  BY LenProperties
<1>2. CASE t \in ToSet(q)
  <2>1. PICK i \in 1 .. Len(q) : q[i] = t
    BY <1>1, <1>2 DEF ToSet
  <2>2. Places(t, q) = {i}
    BY <1>1, <2>1 DEF Places, NoDuplicates
  <2> QED BY <1>2, <2>2, FS_Singleton
<1>3. CASE t \notin ToSet(q)
  <2>1. Places(t, q) = {}
    BY <1>1, <1>3 DEF Places, ToSet
  <2> QED BY <1>3, <2>1, FS_EmptySet
<1> QED BY <1>2, <1>3

\* A task with an active job waits in one queue, once, and a task without one
\* in none, across every list operation of hooks, primitives and the scan.
THEOREM JobsAreQueued ==
  ASSUME "ttKillJob" \in Primitives => NbrOfCPUs = 1
  PROVE  Spec => []ActiveJobsAreQueued
<1>1. ASSUME KernelInv, NEW t \in Task
      PROVE  /\ \A c \in CPU \ {Affinity[t]} : t \notin ToSet(rtsys.readyQ[c])
             /\ Cardinality(Places(t, rtsys.readyQ[Affinity[t]])) + Cardinality(Places(t, rtsys.timeQ))
                  = IF rtsys.nbrInvocations[t] > 0 THEN 1 ELSE 0
  <2> DEFINE ready == rtsys.readyQ[Affinity[t]]
             X == ActiveUsers(rtsys) \cup ActiveHandlers(rtsys)
  <2>1. Affinity[t] \in CPU
    BY AttributesAssumption DEF AttributesAssumption
  <2>2. /\ Placed(rtsys, X) /\ HasPlace(rtsys, t)
        /\ ready \in Seq(Task) /\ rtsys.timeQ \in Seq(QItem)
    BY <1>1, <2>1, IInvFacts, RecordFields DEF KernelInv, Sound
  <2>3. /\ Cardinality(Places(t, ready)) = IF Ready(rtsys, t) THEN 1 ELSE 0
        /\ Cardinality(Places(t, rtsys.timeQ)) = IF Asleep(rtsys, t) THEN 1 ELSE 0
    BY <2>1, <2>2, OnePlace DEF Placed, Ready, Asleep
  <2>4. Ready(rtsys, t) \/ Asleep(rtsys, t) => rtsys.nbrInvocations[t] > 0
    BY <2>1, <2>2, TimerSorts DEF Placed, Ready, Asleep, ActiveUsers, ActiveHandlers
  <2>5. \A c \in CPU \ {Affinity[t]} : t \notin ToSet(rtsys.readyQ[c])
    BY <2>2 DEF Placed
  <2>6. ~ Waits(rtsys, t)
    BY <1>1 DEF KernelInv, NobodyWaits
  <2> QED BY <2>2, <2>3, <2>4, <2>5, <2>6 DEF HasPlace
<1>2. KernelInv => ActiveJobsAreQueued
  BY <1>1 DEF ActiveJobsAreQueued
<1> QED BY <1>2, InductiveInvariant, PTL

\* The state of a task tells whether it is in a ready queue, unless jobs are
\* killed: ttKillJob makes a sleeping task ready and leaves its state alone.
THEOREM StatesTellQueues ==
  ASSUME "ttKillJob" \notin Primitives
  PROVE  Spec => []StateTellsQueue
<1>1. KernelInv => StateTellsQueue
  BY IInvFacts DEF KernelInv, NobodyWaits, Sound, HasPlace, Ready, Runnable, StateTellsQueue
<1>2. Spec => []KernelInv
  BY InductiveInvariant
<1> QED BY <1>1, <1>2, PTL

\* Without ttKillJob, jobs are never lost, duplicated or overtaken.
THEOREM JobsRefinement ==
  ASSUME "ttKillJob" \notin Primitives
  PROVE  Spec => JobsServedInOrder
<1>1. Init => Jobs!Init
  BY InitialState DEF Jobs!Init, JobsOf
<1>2. KernelInv /\ [Next]_vars => [Jobs!Next]_(Jobs!vars)
  <2> SUFFICES ASSUME KernelInv, [Next]_vars PROVE [Jobs!Next]_(Jobs!vars)
    OBVIOUS
  <2>1. JobStep(rtsys, rtsys')
    BY KernelInvStep
  <2> QED BY <2>1 DEF JobStep, JobsOf, Jobs!Next, Jobs!Advance, Jobs!Arrive, Jobs!Complete, Jobs!vars
<1>3. Spec => []KernelInv
  BY InductiveInvariant
<1> QED BY <1>1, <1>2, <1>3, PTL DEF Spec, Jobs!Spec, JobsServedInOrder

-----------------------------------------------------------------------------
(***************************************************************************)
(* Proofs about blocking, for every primitive that blocks or releases a    *)
(* task: the parked tasks are those in the waiting queues, each in one and *)
(* once, and everything the proofs about the kernel rest on still holds.   *)
(***************************************************************************)

Parks(s) == {t \in UserTask : Parked(s, t)}

\* No task is twice in the queues of Q.
Apart(Q) ==
  /\ \A x \in DOMAIN Q : NoDuplicates(Q[x])
  /\ \A x, y \in DOMAIN Q : x # y => ToSet(Q[x]) \cap ToSet(Q[y]) = {}

\* The parked tasks wait in the queues of Q.
WaitIn(s, Q) == Parks(s) = WaitingIn(Q) /\ Apart(Q)

-----------------------------------------------------------------------------
(***************************************************************************)
(* Entering and leaving a waiting queue.                                   *)
(***************************************************************************)
LEMMA HeadFacts ==
  ASSUME NEW S, NEW q \in Seq(S), q # << >>
  PROVE  Head(q) \in ToSet(q) /\ Head(q) \in S /\ Head(q) = q[1] /\ Len(q) >= 1
<1>1. Len(q) \in Nat /\ Len(q) # 0 /\ DOMAIN q = 1 .. Len(q)
  BY EmptySeq, LenProperties
<1>2. Head(q) = q[1] /\ 1 \in 1 .. Len(q)
  BY <1>1
<1>3. q[1] \in S
  BY <1>2, ElementOfSeq
<1> QED BY <1>1, <1>2, <1>3 DEF ToSet

LEMMA AppendOnce ==
  ASSUME NEW S, NEW q \in Seq(S), NEW t \in S, NoDuplicates(q), t \notin ToSet(q)
  PROVE  /\ NoDuplicates(Append(q, t)) /\ ToSet(Append(q, t)) = ToSet(q) \cup {t}
         /\ Append(q, t) \in Seq(S)
<1> DEFINE r == Append(q, t)
<1>1. /\ r \in Seq(S) /\ Len(r) = Len(q) + 1 /\ Len(q) \in Nat
      /\ \A i \in 1 .. Len(q) : r[i] = q[i]
      /\ r[Len(q) + 1] = t
  BY AppendProperties, LenProperties
<1>2. DOMAIN q = 1 .. Len(q) /\ DOMAIN r = 1 .. Len(q) + 1
  BY <1>1, LenProperties
<1> HIDE DEF r
<1>3. ToSet(r) = ToSet(q) \cup {t}
  <2>1. ASSUME NEW e \in ToSet(r) PROVE e \in ToSet(q) \cup {t}
    <3>1. PICK i \in 1 .. Len(q) + 1 : r[i] = e
      BY <1>2 DEF ToSet
    <3> QED BY <1>1, <1>2, <3>1 DEF ToSet
  <2>2. ASSUME NEW e \in ToSet(q) PROVE e \in ToSet(r)
    <3>1. PICK i \in 1 .. Len(q) : q[i] = e
      BY <1>2 DEF ToSet
    <3>2. i \in 1 .. Len(q) + 1 /\ r[i] = e
      BY <1>1, <3>1
    <3> QED BY <1>2, <3>2 DEF ToSet
  <2>3. t \in ToSet(r)
    <3>1. Len(q) + 1 \in 1 .. Len(q) + 1
      BY <1>1
    <3> QED BY <1>1, <1>2, <3>1 DEF ToSet
  <2> QED BY <2>1, <2>2, <2>3
<1>4. NoDuplicates(r)
  <2> SUFFICES ASSUME NEW i \in 1 .. Len(q) + 1, NEW j \in 1 .. Len(q) + 1, r[i] = r[j]
               PROVE  i = j
    BY <1>1 DEF NoDuplicates
  <2>1. \A k \in 1 .. Len(q) : r[k] = q[k] /\ q[k] # t
    BY <1>1, <1>2 DEF ToSet
  <2> QED BY <1>1, <2>1 DEF NoDuplicates
<1> QED BY <1>1, <1>3, <1>4 DEF r

LEMMA TailOnce ==
  ASSUME NEW S, NEW q \in Seq(S), q # << >>, NoDuplicates(q)
  PROVE  /\ NoDuplicates(Tail(q)) /\ ToSet(Tail(q)) = ToSet(q) \ {Head(q)}
         /\ Tail(q) \in Seq(S)
<1> DEFINE r == Tail(q)
<1>1. /\ r \in Seq(S) /\ Len(r) = Len(q) - 1 /\ Len(q) \in Nat /\ Len(q) >= 1
      /\ \A i \in 1 .. Len(q) - 1 : r[i] = q[i + 1]
      /\ Head(q) = q[1]
  BY HeadTailProperties, LenProperties, HeadFacts
<1>2. DOMAIN q = 1 .. Len(q) /\ DOMAIN r = 1 .. Len(q) - 1
  BY <1>1, LenProperties
<1> HIDE DEF r
<1>3. ASSUME NEW e \in ToSet(r) PROVE e \in ToSet(q) \ {q[1]}
  <2>1. PICK i \in 1 .. Len(q) - 1 : r[i] = e
    BY <1>2, <1>3 DEF ToSet
  <2>2. i + 1 \in 1 .. Len(q) /\ q[i + 1] = e /\ 1 \in 1 .. Len(q) /\ i + 1 # 1
    BY <1>1, <2>1
  <2> QED BY <1>2, <2>2 DEF ToSet, NoDuplicates
<1>4. ASSUME NEW e \in ToSet(q), e # q[1] PROVE e \in ToSet(r)
  <2>1. PICK i \in 1 .. Len(q) : q[i] = e
    BY <1>2, <1>4 DEF ToSet
  <2>2. i - 1 \in 1 .. Len(q) - 1 /\ r[i - 1] = e
    BY <1>1, <1>4, <2>1
  <2> QED BY <1>2, <2>2 DEF ToSet
<1>5. NoDuplicates(r)
  <2> SUFFICES ASSUME NEW i \in 1 .. Len(q) - 1, NEW j \in 1 .. Len(q) - 1, r[i] = r[j]
               PROVE  i = j
    BY <1>1 DEF NoDuplicates
  <2>1. i + 1 \in 1 .. Len(q) /\ j + 1 \in 1 .. Len(q) /\ q[i + 1] = q[j + 1]
    BY <1>1
  <2> QED BY <2>1 DEF NoDuplicates
<1> QED BY <1>1, <1>3, <1>4, <1>5 DEF r

\* one queue of Q gains a task that was in none
LEMMA JoinQueue ==
  ASSUME NEW Q, NEW R, DOMAIN R = DOMAIN Q, NEW x \in DOMAIN Q, NEW t,
         \A y \in DOMAIN Q : y # x => R[y] = Q[y],
         NoDuplicates(R[x]), ToSet(R[x]) = ToSet(Q[x]) \cup {t},
         t \notin WaitingIn(Q), Apart(Q)
  PROVE  WaitingIn(R) = WaitingIn(Q) \cup {t} /\ Apart(R)
<1>1. \A y \in DOMAIN Q : y # x => ToSet(R[y]) = ToSet(Q[y]) /\ NoDuplicates(R[y])
  BY DEF Apart
<1>2. \A y \in DOMAIN Q : t \notin ToSet(Q[y])
  BY DEF WaitingIn
<1>3. WaitingIn(R) = WaitingIn(Q) \cup {t}
  BY <1>1 DEF WaitingIn
<1>4. \A y \in DOMAIN Q : NoDuplicates(R[y])
  BY <1>1
<1>5. ASSUME NEW y \in DOMAIN Q, NEW z \in DOMAIN Q, y # z
      PROVE  ToSet(R[y]) \cap ToSet(R[z]) = {}
  <2>1. ToSet(Q[y]) \cap ToSet(Q[z]) = {}
    BY <1>5 DEF Apart
  <2> QED BY <1>1, <1>2, <1>5, <2>1
<1> QED BY <1>3, <1>4, <1>5 DEF Apart

\* one queue of Q loses a task
LEMMA LeaveQueue ==
  ASSUME NEW Q, NEW R, DOMAIN R = DOMAIN Q, NEW x \in DOMAIN Q, NEW t \in ToSet(Q[x]),
         \A y \in DOMAIN Q : y # x => R[y] = Q[y],
         NoDuplicates(R[x]), ToSet(R[x]) = ToSet(Q[x]) \ {t}, Apart(Q)
  PROVE  WaitingIn(R) = WaitingIn(Q) \ {t} /\ Apart(R) /\ t \in WaitingIn(Q)
<1>1. \A y \in DOMAIN Q : y # x => ToSet(R[y]) = ToSet(Q[y]) /\ NoDuplicates(R[y])
  BY DEF Apart
<1>2. \A y \in DOMAIN Q : y # x => t \notin ToSet(Q[y])
  BY DEF Apart
<1>3. WaitingIn(R) = WaitingIn(Q) \ {t}
  BY <1>1, <1>2 DEF WaitingIn
<1>4. \A y \in DOMAIN Q : NoDuplicates(R[y])
  BY <1>1
<1>5. ASSUME NEW y \in DOMAIN Q, NEW z \in DOMAIN Q, y # z
      PROVE  ToSet(R[y]) \cap ToSet(R[z]) = {}
  <2>1. ToSet(Q[y]) \cap ToSet(Q[z]) = {}
    BY <1>5 DEF Apart
  <2> QED BY <1>1, <1>5, <2>1
<1>6. t \in WaitingIn(Q)
  BY DEF WaitingIn
<1> QED BY <1>3, <1>4, <1>5, <1>6 DEF Apart

-----------------------------------------------------------------------------
(***************************************************************************)
(* Blocking and releasing.                                                 *)
(***************************************************************************)
\* a change of the tasks' states and queues that the running code goes on after
Served(s, r) ==
  Sound(r, ActiveUsers(r), {}) /\ SameClock(s, r) /\ r.running = s.running

LEMMA ServedTransitive ==
  ASSUME NEW s, NEW r, NEW q, Served(s, r), Served(r, q)
  PROVE  Served(s, q)
BY DEF Served, SameClock

LEMMA SameParks ==
  ASSUME NEW s, NEW r, WaitersKept(s, r)
  PROVE  Parks(r) = Parks(s)
BY DEF WaitersKept, WaitKept, Parks

LEMMA SteadyParks ==
  ASSUME NEW s, NEW r, Steady(s, r)
  PROVE  Parks(r) = Parks(s) /\ ActiveUsers(r) = ActiveUsers(s)
BY SteadyWaiters, SteadyJobs, SameParks

\* A parked task has a job.
LEMMA ParksActive ==
  ASSUME NEW s, NEW t \in Parks(s), Sound(s, ActiveUsers(s), {})
  PROVE  t \in ActiveUsers(s)
<1>1. t \in UserTask /\ Waits(s, t) /\ HasPlace(s, t)
  BY TaskSorts DEF Parks, Parked, Sound
<1> QED BY <1>1 DEF HasPlace, ActiveUsers, Parks, Parked

\* Work on the place of one active task serves it.
LEMMA PlacedServes ==
  ASSUME NEW s, NEW t \in UserTask, Sound(s, ActiveUsers(s), {}), NEW r \in RTsysType,
         SameJobs(s, r), Placed(r, ActiveUsers(s) \cup ActiveHandlers(s)),
         OthersRest(s, r, t), HasPlace(r, t)
  PROVE  /\ Served(s, r) /\ ActiveUsers(r) = ActiveUsers(s)
         /\ Parks(r) = IF Parked(r, t) THEN Parks(s) \cup {t} ELSE Parks(s) \ {t}
<1>1. /\ r.nbrInvocations = s.nbrInvocations /\ r.pending = s.pending
      /\ ActiveUsers(r) = ActiveUsers(s) /\ ActiveHandlers(r) = ActiveHandlers(s)
  BY DEF SameJobs, ActiveUsers, ActiveHandlers
<1>2. \A u \in Task : u # t => SameView(s, r, u)
  BY OthersStay
<1>3. ASSUME NEW u \in Task PROVE Counted(r, u) /\ HasPlace(r, u)
  <2>1. Counted(s, u) /\ HasPlace(s, u)
    BY DEF Sound
  <2>2. Counted(r, u)
    BY <1>1, <2>1 DEF Counted
  <2>3. u # t => HasPlace(r, u)
    BY <1>1, <1>2, <2>1 DEF HasPlace, SameView
  <2> QED BY <2>2, <2>3
<1>4. Sound(r, ActiveUsers(r), {})
  BY <1>1, <1>3 DEF Sound
<1>5. \A u \in UserTask : u # t => (Parked(r, u) <=> Parked(s, u))
  BY <1>2, TaskSorts DEF SameView, Parked
<1>6. Parks(r) = IF Parked(r, t) THEN Parks(s) \cup {t} ELSE Parks(s) \ {t}
  BY <1>5 DEF Parks
<1> QED BY <1>1, <1>4, <1>6 DEF Served, SameJobs, SameClock

\* moveToList(waitingQ), state = WAITING and the suspend hook park the task.
LEMMA BlockedFacts ==
  ASSUME "ttKillJob" \notin Primitives,
         NEW s, NEW t \in UserTask, Sound(s, ActiveUsers(s), {}), t \in ActiveUsers(s),
         NEW r, r = Blocked(s, t)
  PROVE  /\ Served(s, r) /\ ActiveUsers(r) = ActiveUsers(s)
         /\ Parks(r) = Parks(s) \cup {t}
<1> DEFINE X == ActiveUsers(s)
           d == Unlink(s, t)
           st == [d.state EXCEPT ![t] = "WAITING"]
           z == [d EXCEPT !.state = st]
<1>1. s \in RTsysType /\ t \in Task /\ t \notin Timer /\ Placed(s, X \cup ActiveHandlers(s))
  BY TaskSorts, TimerSorts DEF Sound
<1>2. /\ d \in RTsysType /\ SameJobs(s, d) /\ Placed(d, X \cup ActiveHandlers(s))
      /\ t \notin ToSet(d.timeQ) /\ \A c \in CPU : t \notin ToSet(d.readyQ[c])
      /\ d.state = s.state /\ Elsewhere(s, d, t)
  BY <1>1, UnlinkFacts
<1>3. r = SuspendHook([d EXCEPT !.state[t] = "WAITING"], t)
  BY DEF Blocked
<1> HIDE DEF d
<1>4. /\ st \in [Task -> State] /\ [d EXCEPT !.state[t] = "WAITING"] = z
      /\ \A u \in Task : st[u] = IF u = t THEN "WAITING" ELSE s.state[u]
  BY <1>1, <1>2, RecordFields DEF RTsysType, State
<1> HIDE DEF st
<1>5. /\ z \in RTsysType /\ z.state = st /\ z.readyQ = d.readyQ /\ z.timeQ = d.timeQ
      /\ z.running = d.running /\ SameJobs(d, z)
  BY <1>2, <1>4 DEF RTsysType, SameJobs
<1> HIDE DEF z
<1>6. SameJobs(s, z) /\ OthersRest(s, z, t) /\ Placed(z, X \cup ActiveHandlers(s))
  BY <1>2, <1>4, <1>5 DEF SameJobs, OthersRest, Elsewhere, Placed
<1>7. ~ Ready(z, t) /\ ~ Asleep(z, t) /\ Waits(z, t)
  <2>1. Affinity[t] \in CPU
    BY <1>1, AttributesAssumption DEF AttributesAssumption
  <2> QED BY <2>1, <1>1, <1>2, <1>4, <1>5 DEF Ready, Asleep, Waits
<1>8. HasPlace(z, t)
  <2>1. z.nbrInvocations[t] > 0
    BY <1>6 DEF SameJobs, ActiveUsers
  <2>2. ~ Runnable(z, t)
    BY <1>1, <1>4, <1>5 DEF Runnable
  <2> QED BY <1>7, <2>1, <2>2 DEF HasPlace
<1>9. /\ Served(s, z) /\ ActiveUsers(z) = X
      /\ Parks(z) = Parks(s) \cup {t}
  BY <1>5, <1>6, <1>7, <1>8, PlacedServes DEF Parked
<1>10. Sound(r, ActiveUsers(z), {}) /\ Steady(z, r)
  BY <1>3, <1>4, <1>9, SuspendHookFacts DEF Served
<1>11. Parks(r) = Parks(z) /\ ActiveUsers(r) = ActiveUsers(z)
  BY <1>10, SteadyParks
<1>12. Served(z, r)
  BY <1>10, <1>11 DEF Served, Steady, SameClock
<1> QED BY <1>9, <1>11, <1>12, ServedTransitive

\* moveToList(readyQ), with and without a change of the state, ends the wait.
LEMMA MakeReadyFrees ==
  ASSUME NEW s, NEW t \in UserTask, Sound(s, ActiveUsers(s), {}), t \in ActiveUsers(s),
         NEW r, r = MakeReady(s, t)
  PROVE  /\ Served(s, r) /\ ActiveUsers(r) = ActiveUsers(s) /\ Ready(r, t)
         /\ Parks(r) = Parks(s) \ {t}
<1> DEFINE X == ActiveUsers(s)
<1>1. t \in Task /\ X \subseteq X /\ t \in X \cup ActiveHandlers(s)
  BY TaskSorts
<1>2. /\ Sound(r, X, {}) /\ SameJobs(s, r) /\ Ready(r, t) /\ ~ Waits(r, t)
      /\ \A u \in Task : u # t => SameView(s, r, u)
  BY <1>1, MakeReadySound
<1>3. ActiveUsers(r) = X
  BY <1>2 DEF SameJobs, ActiveUsers
<1>4. \A u \in UserTask : u # t => (Parked(r, u) <=> Parked(s, u))
  BY <1>2, TaskSorts DEF SameView, Parked
<1>5. Parks(r) = Parks(s) \ {t}
  BY <1>2, <1>4 DEF Parks, Parked
<1> QED BY <1>2, <1>3, <1>5 DEF Served, SameJobs, SameClock

LEMMA MoveToReadyQFrees ==
  ASSUME NEW s, NEW t \in UserTask, Sound(s, ActiveUsers(s), {}), t \in Parks(s),
         NEW r, r = MoveToReadyQ(s, t)
  PROVE  /\ Served(s, r) /\ ActiveUsers(r) = ActiveUsers(s) /\ Ready(r, t)
         /\ Parks(r) = Parks(s) \ {t}
<1> DEFINE X == ActiveUsers(s)
<1>1. /\ s \in RTsysType /\ t \in Task /\ Placed(s, X \cup ActiveHandlers(s))
      /\ HasPlace(s, t) /\ Waits(s, t)
  BY TaskSorts DEF Sound, Parks, Parked
<1>2. /\ r \in RTsysType /\ SameJobs(s, r) /\ Placed(r, (X \cup ActiveHandlers(s)) \cup {t})
      /\ r.state = s.state /\ Elsewhere(s, r, t)
      /\ t \in ToSet(r.readyQ[Affinity[t]]) /\ t \notin ToSet(r.timeQ)
  BY <1>1, MoveToReadyQFacts
<1>3. (X \cup ActiveHandlers(s)) \cup {t} = X \cup ActiveHandlers(s)
  BY <1>1 DEF HasPlace, ActiveUsers
<1>4. OthersRest(s, r, t)
  BY <1>2 DEF OthersRest
<1>5. Ready(r, t) /\ ~ Asleep(r, t) /\ Waits(r, t) /\ ~ Parked(r, t)
  BY <1>1, <1>2 DEF Ready, Asleep, Waits, Parked
<1>6. HasPlace(r, t)
  BY <1>1, <1>2, <1>5 DEF HasPlace, SameJobs
<1> QED BY <1>2, <1>3, <1>4, <1>5, <1>6, PlacedServes

\* state = READY of a task that is in the ready queue
LEMMA SetReadyFacts ==
  ASSUME NEW s, NEW t \in UserTask, Sound(s, ActiveUsers(s), {}), Ready(s, t),
         NEW r, r = [s EXCEPT !.state[t] = "READY"]
  PROVE  /\ Served(s, r) /\ ActiveUsers(r) = ActiveUsers(s) /\ Parks(r) = Parks(s)
<1> DEFINE X == ActiveUsers(s)
           st == [s.state EXCEPT ![t] = "READY"]
<1>1. s \in RTsysType /\ t \in Task /\ Placed(s, X \cup ActiveHandlers(s))
  BY TaskSorts DEF Sound
<1>2. /\ st \in [Task -> State] /\ r = [s EXCEPT !.state = st]
      /\ \A u \in Task : st[u] = IF u = t THEN "READY" ELSE s.state[u]
  BY <1>1, RecordFields DEF RTsysType, State
<1> HIDE DEF st
<1>3. /\ r \in RTsysType /\ r.state = st /\ r.readyQ = s.readyQ /\ r.timeQ = s.timeQ
      /\ r.running = s.running /\ SameJobs(s, r)
  BY <1>1, <1>2 DEF RTsysType, SameJobs
<1>4. OthersRest(s, r, t) /\ Placed(r, X \cup ActiveHandlers(s))
  BY <1>1, <1>2, <1>3 DEF OthersRest, Elsewhere, Placed
<1>5. Ready(r, t) /\ ~ Waits(r, t) /\ Runnable(r, t)
  BY <1>1, <1>2, <1>3 DEF Ready, Waits, Runnable
<1>6. HasPlace(r, t)
  <2>1. HasPlace(s, t)
    BY <1>1 DEF Sound
  <2> QED BY <2>1, <1>3, <1>5 DEF HasPlace, Ready, Asleep
<1>7. t \notin Parks(s) /\ ~ Parked(r, t)
  BY <1>5 DEF Parks, Parked
<1>8. /\ Served(s, r) /\ ActiveUsers(r) = ActiveUsers(s)
      /\ Parks(r) = IF Parked(r, t) THEN Parks(s) \cup {t} ELSE Parks(s) \ {t}
  BY <1>3, <1>4, <1>6, PlacedServes
<1> QED BY <1>7, <1>8

-----------------------------------------------------------------------------
(***************************************************************************)
(* The parked tasks stay those in the waiting queues.                      *)
(***************************************************************************)
\* a task is parked and joins one of the queues
LEMMA WaiterJoins ==
  ASSUME NEW s, NEW r, NEW Q, NEW R, WaitIn(s, Q), DOMAIN R = DOMAIN Q,
         NEW x \in DOMAIN Q, Q[x] \in Seq(UserTask), NEW t \in UserTask, t \notin Parks(s),
         \A y \in DOMAIN Q : y # x => R[y] = Q[y],
         R[x] = Append(Q[x], t), Parks(r) = Parks(s) \cup {t}
  PROVE  WaitIn(r, R)
<1>1. t \notin WaitingIn(Q) /\ Apart(Q) /\ Parks(s) = WaitingIn(Q)
  BY DEF WaitIn
<1>2. NoDuplicates(Q[x]) /\ t \notin ToSet(Q[x])
  BY <1>1 DEF Apart, WaitingIn
<1>3. NoDuplicates(Append(Q[x], t)) /\ ToSet(Append(Q[x], t)) = ToSet(Q[x]) \cup {t}
  BY <1>2, AppendOnce
<1>4. NoDuplicates(R[x]) /\ ToSet(R[x]) = ToSet(Q[x]) \cup {t}
  BY <1>3
<1>5. WaitingIn(R) = WaitingIn(Q) \cup {t} /\ Apart(R)
  BY <1>1, <1>4, JoinQueue
<1> QED BY <1>1, <1>5 DEF WaitIn

\* the first task of a queue is parked and has a job
LEMMA HeadWaits ==
  ASSUME NEW s, Sound(s, ActiveUsers(s), {}), NEW Q, WaitIn(s, Q),
         NEW x \in DOMAIN Q, Q[x] \in Seq(UserTask), Q[x] # << >>
  PROVE  /\ Head(Q[x]) \in UserTask /\ Head(Q[x]) \in ToSet(Q[x])
         /\ Head(Q[x]) \in Parks(s) /\ Head(Q[x]) \in ActiveUsers(s)
<1>1. Head(Q[x]) \in UserTask /\ Head(Q[x]) \in ToSet(Q[x])
  BY HeadFacts
<1>2. Head(Q[x]) \in Parks(s)
  BY <1>1 DEF WaitIn, WaitingIn
<1> QED BY <1>1, <1>2, ParksActive

\* it is released and leaves the queue
LEMMA WaiterLeaves ==
  ASSUME NEW s, NEW r, NEW Q, NEW R, WaitIn(s, Q), DOMAIN R = DOMAIN Q,
         NEW x \in DOMAIN Q, Q[x] \in Seq(UserTask), Q[x] # << >>,
         \A y \in DOMAIN Q : y # x => R[y] = Q[y],
         R[x] = Tail(Q[x]), Parks(r) = Parks(s) \ {Head(Q[x])}
  PROVE  WaitIn(r, R)
<1>1. Apart(Q) /\ Parks(s) = WaitingIn(Q) /\ NoDuplicates(Q[x])
  BY DEF WaitIn, Apart
<1>2. NoDuplicates(Tail(Q[x])) /\ ToSet(Tail(Q[x])) = ToSet(Q[x]) \ {Head(Q[x])}
  BY <1>1, TailOnce
<1>3. NoDuplicates(R[x]) /\ ToSet(R[x]) = ToSet(Q[x]) \ {Head(Q[x])}
  BY <1>2
<1>4. Head(Q[x]) \in ToSet(Q[x])
  BY HeadFacts
<1>5. WaitingIn(R) = WaitingIn(Q) \ {Head(Q[x])} /\ Apart(R)
  BY <1>1, <1>3, <1>4, LeaveQueue
<1> QED BY <1>1, <1>5 DEF WaitIn

LEMMA WaitersStay ==
  ASSUME NEW s, NEW r, NEW Q, WaitIn(s, Q), Parks(r) = Parks(s)
  PROVE  WaitIn(r, Q)
BY DEF WaitIn

-----------------------------------------------------------------------------
(***************************************************************************)
(* The steps of code functions.                                            *)
(***************************************************************************)
\* The kernel and the other primitives park and release nobody.
LEMMA OtherSteps ==
  ASSUME "ttKillJob" \notin Primitives, IInv, OtherStep \/ UNCHANGED vars
  PROVE  IInv' /\ Parks(rtsys') = Parks(rtsys)
<1>1. IInv' /\ WaitersKept(rtsys, rtsys')
  <2>1. CASE KernelOwnStep
    BY <2>1, KernelOwnSteps DEF Preserved, IInv
  <2>2. CASE NotBlocked /\ SegmentCall
    <3>1. pc = "segment"
      BY <2>2 DEF SegmentCall, CreateJob, KillJob, SleepUntil, SetAbsDeadline,
                  SetNextSegment, Calling
    <3>2. ~ Waits(rtsys, Current)
      BY <2>2, <3>1 DEF NotBlocked, Waits
    <3> QED BY <2>2, <3>2, SegmentCalls
  <2> QED BY <2>1, <2>2 DEF OtherStep, KernelOwnStep
<1>2. Parks(rtsys') = Parks(rtsys)
  BY <1>1, SameParks
<1> QED BY <1>1, <1>2

\* Who calls a primitive is an active task that is not parked.
LEMMA CallerFacts ==
  ASSUME "ttKillJob" \notin Primitives, IInv, NEW primitive, Calling(primitive), NotBlocked
  PROVE  /\ Current \in Task /\ Sound(rtsys, ActiveUsers(rtsys), {})
         /\ Current \in UserTask => Current \in ActiveUsers(rtsys)
         /\ Ready(rtsys, Current) /\ Current \notin Parks(rtsys)
<1>1. pc = "segment" /\ rtsys.state[Current] = "READY"
  BY DEF Calling, NotBlocked
<1>2. /\ Current \in Task
      /\ Current \in UserTask => Current \in ActiveUsers(rtsys)
  BY <1>1, CurrentIsActive DEF IInv, Consistent, Current
<1>3. HasPlace(rtsys, Current)
  BY <1>2, IInvFacts DEF Sound
<1>4. Ready(rtsys, Current) /\ ~ Parked(rtsys, Current)
  BY <1>1, <1>3 DEF HasPlace, Runnable, Waits, Parked
<1> QED BY <1>2, <1>4, IInvFacts DEF Parks

LEMMA CallKeeps ==
  ASSUME IInv, NEW primitive, Calling(primitive), UNCHANGED pc, Served(rtsys, rtsys')
  PROVE  IInv'
<1>1. Consistent(rtsys', pc', timeElapsed', niter', next', calls')
  BY CallStep DEF Served
<1> QED BY <1>1 DEF IInv

LEMMA AbortKeeps ==
  ASSUME IInv, NEW primitive, Calling(primitive), Abort
  PROVE  IInv' /\ Parks(rtsys') = Parks(rtsys)
<1>1. /\ pc = "segment" /\ calls' = calls + 1
      /\ timeElapsed' = timeElapsed /\ niter' = niter /\ next' = next
      /\ pc' = "aborted" /\ rtsys' = rtsys
  BY DEF Calling, Abort
<1>2. calls' \in Nat
  BY <1>1, IInvFacts
<1> QED BY <1>1, <1>2, IInvFacts, AbortStep DEF Preserved, IInv, Parks

\* With the parked tasks in the waiting queues, every active job is in one queue.
LEMMA EveryJobHasAQueue ==
  ASSUME "ttKillJob" \notin Primitives, IInv, NEW Q, WaitIn(rtsys, Q)
  PROVE  EveryJobIsIn(Q)
<1> SUFFICES ASSUME NEW t \in UserTask
             PROVE  LET ready   == t \in ToSet(rtsys.readyQ[Affinity[t]])
                        asleep  == t \in ToSet(rtsys.timeQ)
                        waiting == t \in WaitingIn(Q)
                    IN  /\ rtsys.nbrInvocations[t] > 0 <=> ready \/ asleep \/ waiting
                        /\ ~ (ready /\ asleep) /\ ~ (waiting /\ (ready \/ asleep))
                        /\ waiting => rtsys.state[t] = "WAITING"
                        /\ rtsys.state[t] \in {"READY", "RUNNING"} => ready
                        /\ rtsys.state[t] = "WAITING" => waiting \/ ready
  BY DEF EveryJobIsIn
<1>1. /\ t \in Task /\ t \notin Handler /\ t \notin Timer /\ Affinity[t] \in CPU
      /\ HasPlace(rtsys, t) /\ Placed(rtsys, ActiveUsers(rtsys) \cup ActiveHandlers(rtsys))
  BY IInvFacts, TaskSorts, TimerSorts, AttributesAssumption DEF Sound, AttributesAssumption
<1>2. t \in WaitingIn(Q) <=> Parked(rtsys, t)
  BY DEF WaitIn, Parks
<1>3. Ready(rtsys, t) \/ Asleep(rtsys, t) => rtsys.nbrInvocations[t] > 0
  BY <1>1 DEF Placed, Ready, Asleep, ActiveUsers, ActiveHandlers
<1>4. /\ rtsys.state[t] = "WAITING" <=> Waits(rtsys, t)
      /\ rtsys.state[t] \in {"READY", "RUNNING"} <=> Runnable(rtsys, t)
  BY DEF Waits, Runnable
<1> QED BY <1>1, <1>2, <1>3, <1>4 DEF HasPlace, Parked, Ready, Asleep

\* At first nobody waits.
LEMMA NobodyWaitsAtFirst ==
  ASSUME Init, NEW Q, \A x \in DOMAIN Q : Q[x] = << >>
  PROVE  IInv /\ WaitIn(rtsys, Q)
<1>1. IInv /\ NobodyWaits
  BY InitialState DEF KernelInv
<1>2. Parks(rtsys) = {}
  BY <1>1, TaskSorts DEF Parks, Parked, NobodyWaits
<1>3. NoDuplicates(<< >>) /\ ToSet(<< >>) = {}
  BY DEF NoDuplicates, ToSet
<1> QED BY <1>1, <1>2, <1>3 DEF WaitIn, WaitingIn, Apart

-----------------------------------------------------------------------------
(***************************************************************************)
(* Priorities and CPUs.  Steps of the kernel, and primitives that do not   *)
(* block, inherit no priority and give none up.                            *)
(***************************************************************************)
\* the fields that these lemmas are about
HasCPUs(s) == {"tempPrio", "running", "runningUser"} \subseteq DOMAIN s

\* No priority is inherited or given up, and the CPUs run what they ran.
Undisturbed(s, r) ==
  HasCPUs(s) => /\ HasCPUs(r) /\ r.tempPrio = s.tempPrio
                /\ r.running = s.running /\ r.runningUser = s.runningUser

\* Steps that disturb nobody can be chained.
LEMMA UndisturbedTransitive ==
  ASSUME NEW s, NEW r, NEW q, Undisturbed(s, r), Undisturbed(r, q)
  PROVE  Undisturbed(s, q)
  BY DEF Undisturbed

LEMMA UndisturbedReflexive == \A s : Undisturbed(s, s)
  BY DEF Undisturbed

\* Node::remove, and the moves between ready and time queues
LEMMA UnlinkLeaves ==
  ASSUME NEW s, NEW n
  PROVE  Undisturbed(s, Unlink(s, n))
<1> DEFINE q == RemoveFirst(s.timeQ, n)
           r == [s EXCEPT !.timeQ = q]
<1>1. Undisturbed(s, r)
  <2> HIDE DEF q
  <2> QED BY DEF Undisturbed, HasCPUs
<1>2. CASE n \in Timer
  BY <1>1, <1>2 DEF Unlink
<1>3. CASE n \notin Timer
  <2> DEFINE p == RemoveFirst(r.readyQ[Affinity[n]], n)
             d == [r EXCEPT !.readyQ[Affinity[n]] = p]
  <2>1. Undisturbed(r, d)
    <3> HIDE DEF r, p
    <3> QED BY DEF Undisturbed, HasCPUs
  <2>2. d = Unlink(s, n)
    BY <1>3 DEF Unlink
  <2> HIDE DEF d, r
  <2> QED BY <1>1, <2>1, <2>2, UndisturbedTransitive
<1> QED BY <1>2, <1>3

LEMMA MoveToReadyQLeaves ==
  ASSUME NEW s, NEW t
  PROVE  Undisturbed(s, MoveToReadyQ(s, t))
<1> DEFINE d == Unlink(s, t)
           p == InsertSorted(d.readyQ[Affinity[t]], t, LAMBDA n, m : PrioCmp(d, n, m))
           r == [d EXCEPT !.readyQ[Affinity[t]] = p]
<1>1. r = MoveToReadyQ(s, t)
  BY DEF MoveToReadyQ, InsertSorted
<1>2. Undisturbed(s, d)
  BY UnlinkLeaves
<1> HIDE DEF d, p
<1>3. Undisturbed(d, r)
  BY DEF Undisturbed, HasCPUs
<1> HIDE DEF r
<1> QED BY <1>1, <1>2, <1>3, UndisturbedTransitive

LEMMA MakeReadyLeaves ==
  ASSUME NEW s, NEW t
  PROVE  Undisturbed(s, MakeReady(s, t))
<1> DEFINE r == MoveToReadyQ(s, t)
<1>1. Undisturbed(s, r)
  BY MoveToReadyQLeaves
<1>2. MakeReady(s, t) = [r EXCEPT !.state[t] = "READY"]
  BY DEF MakeReady
<1> HIDE DEF r
<1>3. Undisturbed(r, MakeReady(s, t))
  BY <1>2 DEF Undisturbed, HasCPUs
<1> QED BY <1>1, <1>3, UndisturbedTransitive

\* ttCreateTimer, ttRemoveTimer of the kernel
LEMMA ArmLeaves ==
  ASSUME NEW s, NEW n, NEW time
  PROVE  Undisturbed(s, MoveToTimeQ(s, n)) /\ Undisturbed(s, Arm(s, n, time))
<1>1. ASSUME NEW v PROVE Undisturbed(v, MoveToTimeQ(v, n))
  <2> DEFINE d == Unlink(v, n)
             p == InsertSorted(d.timeQ, n, LAMBDA i, j : Wakeup(d, i) < Wakeup(d, j))
             r == [d EXCEPT !.timeQ = p]
  <2>1. r = MoveToTimeQ(v, n)
    BY DEF MoveToTimeQ, InsertSorted
  <2>2. Undisturbed(v, d)
    BY UnlinkLeaves
  <2> HIDE DEF d, p
  <2>3. Undisturbed(d, r)
    BY DEF Undisturbed, HasCPUs
  <2> HIDE DEF r
  <2> QED BY <2>1, <2>2, <2>3, UndisturbedTransitive
<1> DEFINE a == [s EXCEPT !.expiry[n] = time]
<1>2. Undisturbed(s, a) /\ Arm(s, n, time) = MoveToTimeQ(a, n)
  BY DEF Undisturbed, HasCPUs, Arm
<1> HIDE DEF a
<1> QED BY <1>1, <1>2, UndisturbedTransitive

\* ttInvokeTask and ttInvokeHandler: a job is released or pends.
LEMMA InvokeHandlerLeaves ==
  ASSUME NEW s, NEW h
  PROVE  Undisturbed(s, InvokeHandler(s, h)) /\ Undisturbed(s, Enqueue(s, h))
<1>1. Undisturbed(s, Enqueue(s, h))
  BY DEF Undisturbed, HasCPUs, Enqueue
<1> DEFINE r == MakeReady(s, h)
           d == [r EXCEPT !.nbrInvocations[h] = 1]
<1>2. Undisturbed(s, r)
  BY MakeReadyLeaves
<1>3. InvokeHandler(s, h) = IF s.nbrInvocations[h] = 0 THEN d ELSE Enqueue(s, h)
  BY DEF InvokeHandler
<1> HIDE DEF r
<1>4. Undisturbed(r, d)
  BY DEF Undisturbed, HasCPUs
<1> HIDE DEF d
<1>5. Undisturbed(s, d)
  BY <1>2, <1>4, UndisturbedTransitive
<1> QED BY <1>1, <1>3, <1>5

\* the hooks (defaulthooks.cpp)
LEMMA HooksLeave ==
  ASSUME NEW s, NEW t
  PROVE  /\ Undisturbed(s, ContextSwitch(s)) /\ Undisturbed(s, SuspendHook(s, t))
         /\ Undisturbed(s, FinishHook(s, t)) /\ Undisturbed(s, ReleaseHook(s, t))
         /\ Undisturbed(s, ArmBudget(s, t))
<1>1. ASSUME NEW v PROVE Undisturbed(v, ContextSwitch(v))
  BY InvokeHandlerLeaves, UndisturbedReflexive DEF ContextSwitch
<1>2. Undisturbed(s, SuspendHook(s, t))
  BY <1>1, UnlinkLeaves, UndisturbedTransitive DEF SuspendHook
<1>3. Undisturbed(s, FinishHook(s, t))
  <2> DEFINE a == Unlink(s, DLTimer(t))
             b == Unlink(a, WCETTimer(t))
  <2>1. Undisturbed(s, a) /\ Undisturbed(a, b) /\ FinishHook(s, t) = ContextSwitch(b)
    BY UnlinkLeaves DEF FinishHook
  <2> HIDE DEF a, b
  <2> QED BY <1>1, <2>1, UndisturbedTransitive
<1>4. Undisturbed(s, ReleaseHook(s, t))
  <2> DEFINE a == [s EXCEPT !.absDeadline[t] = s.arrival[t] + Deadline[t],
                            !.budget[t] = WCET[t]]
             b == ContextSwitch(a)
  <2>1. Undisturbed(s, a)
    BY DEF Undisturbed, HasCPUs
  <2>2. ReleaseHook(s, t) = IF DLHandler[t] = None THEN b ELSE Arm(b, DLTimer(t), b.absDeadline[t])
    BY DEF ReleaseHook
  <2> HIDE DEF a
  <2>3. Undisturbed(s, b)
    BY <1>1, <2>1, UndisturbedTransitive
  <2> HIDE DEF b
  <2> QED BY <2>2, <2>3, ArmLeaves, UndisturbedTransitive
<1>5. Undisturbed(s, ArmBudget(s, t))
  BY ArmLeaves, UndisturbedReflexive DEF ArmBudget
<1> QED BY <1>1, <1>2, <1>3, <1>4, <1>5

LEMMA InvokeTaskLeaves ==
  ASSUME NEW s, NEW t
  PROVE  Undisturbed(s, InvokeUserTask(s, t)) /\ Undisturbed(s, InvokeTask(s, t))
<1> DEFINE a == [s EXCEPT !.arrival[t] = s.time, !.release[t] = s.time]
           b == ReleaseHook(a, t)
           c == MakeReady(b, t)
           d == [c EXCEPT !.nbrInvocations[t] = @ + 1]
<1>1. InvokeUserTask(s, t) = IF s.nbrInvocations[t] = 0 THEN d ELSE Enqueue(s, t)
  BY DEF InvokeUserTask
<1>2. Undisturbed(s, a)
  BY DEF Undisturbed, HasCPUs
<1> HIDE DEF a
<1>3. Undisturbed(a, b)
  BY HooksLeave
<1> HIDE DEF b
<1>4. Undisturbed(b, c)
  BY MakeReadyLeaves
<1> HIDE DEF c
<1>5. Undisturbed(c, d)
  BY DEF Undisturbed, HasCPUs
<1> HIDE DEF d
<1>6. Undisturbed(s, InvokeUserTask(s, t))
  BY <1>1, <1>2, <1>3, <1>4, <1>5, UndisturbedTransitive, InvokeHandlerLeaves
<1> QED BY <1>6, InvokeHandlerLeaves DEF InvokeTask

\* The user task that runs on a CPU is the one that its hooks were called for.
UsersRun(s) == \A c \in CPU : s.running[c] \in UserTask => s.runningUser[c] = s.running[c]

\* Undisturbed CPUs run the user tasks that hooks were called for.
LEMMA UndisturbedRuns ==
  ASSUME NEW s \in RTsysType, NEW r, Undisturbed(s, r)
  PROVE  r.tempPrio = s.tempPrio /\ (UsersRun(s) => UsersRun(r))
<1>1. HasCPUs(s)
  BY DEF HasCPUs, RTsysType
<1> QED BY <1>1 DEF Undisturbed, UsersRun

\* The end of a job leaves its CPU without a task.
LEMMA EndJobRuns ==
  ASSUME NEW s \in RTsysType, NEW t, NEW r, r = EndJob(s, t)
  PROVE  r.tempPrio = s.tempPrio /\ (UsersRun(s) => UsersRun(r))
<1> DEFINE u == Unlink(s, t)
           a == [u EXCEPT !.execTime[t] = 0, !.segment[t] = 0, !.nextSegment[t] = 1,
                          !.state[t] = "SLEEPING", !.running[s.currentCPU] = None]
           f == FinishHook(a, t)
           g == [f EXCEPT !.runningUser[s.currentCPU] = None]
           e == IF t \in UserTask THEN g ELSE a
<1>1. r = [e EXCEPT !.nbrInvocations[t] = @ - 1]
  BY DEF EndJob
<1>2. /\ HasCPUs(u) /\ u.tempPrio = s.tempPrio /\ u.running = s.running
      /\ u.runningUser = s.runningUser /\ DOMAIN s.running = CPU /\ DOMAIN s.runningUser = CPU
  <2>1. Undisturbed(s, u)
    BY UnlinkLeaves
  <2>2. HasCPUs(s) /\ DOMAIN s.running = CPU /\ DOMAIN s.runningUser = CPU
    BY DEF HasCPUs, RTsysType
  <2> QED BY <2>1, <2>2 DEF Undisturbed
<1> HIDE DEF u
<1>3. /\ HasCPUs(a) /\ a.tempPrio = u.tempPrio /\ a.runningUser = u.runningUser
      /\ a.running = [u.running EXCEPT ![s.currentCPU] = None]
  BY <1>2 DEF HasCPUs
<1> HIDE DEF a
<1>4. /\ HasCPUs(f) /\ f.tempPrio = a.tempPrio /\ f.runningUser = a.runningUser
      /\ f.running = a.running
  BY <1>3, HooksLeave DEF Undisturbed
<1> HIDE DEF f
<1>5. /\ HasCPUs(g) /\ g.tempPrio = f.tempPrio /\ g.running = f.running
      /\ g.runningUser = [f.runningUser EXCEPT ![s.currentCPU] = None]
  BY <1>4 DEF HasCPUs
<1> HIDE DEF g
<1>6. /\ HasCPUs(e) /\ e.tempPrio = s.tempPrio
      /\ e.running = [s.running EXCEPT ![s.currentCPU] = None]
      /\ \A c \in CPU : c # s.currentCPU => e.runningUser[c] = s.runningUser[c]
  BY <1>2, <1>3, <1>4, <1>5
<1> HIDE DEF e
<1>7. /\ r.tempPrio = e.tempPrio /\ r.running = e.running /\ r.runningUser = e.runningUser
  BY <1>1, <1>6 DEF HasCPUs
<1>8. \A c \in CPU : e.running[c] = IF c = s.currentCPU THEN None ELSE s.running[c]
  BY <1>2, <1>6
<1>9. None \notin UserTask
  BY TasksAssumption DEF TasksAssumption, Task
<1> QED BY <1>6, <1>7, <1>8, <1>9 DEF UsersRun

\* The next pending job is released.
LEMMA ReleasePendingLeaves ==
  ASSUME NEW s, NEW t
  PROVE  Undisturbed(s, ReleasePending(s, t))
<1> DEFINE a == [s EXCEPT !.arrival[t] = Head(s.pending[t]), !.release[t] = s.time]
           r == IF t \in UserTask THEN ReleaseHook(a, t) ELSE s
           m == MakeReady(r, t)
           d == [m EXCEPT !.pending[t] = Tail(@)]
<1>1. ReleasePending(s, t) = IF s.nbrInvocations[t] > 0 THEN d ELSE s
  BY DEF ReleasePending
<1>2. Undisturbed(s, a)
  BY DEF Undisturbed, HasCPUs
<1> HIDE DEF a
<1>3. Undisturbed(s, r)
  BY <1>2, HooksLeave, UndisturbedTransitive, UndisturbedReflexive
<1> HIDE DEF r
<1>4. Undisturbed(r, m)
  BY MakeReadyLeaves
<1> HIDE DEF m
<1>5. Undisturbed(m, d)
  BY DEF Undisturbed, HasCPUs
<1> HIDE DEF d
<1> QED BY <1>1, <1>3, <1>4, <1>5, UndisturbedTransitive, UndisturbedReflexive

\* A hook may put a handler into a ready queue, but no user task at its front.
SameFront(s, r) ==
  \A c \in CPU : First(r.readyQ[c]) \in UserTask => First(r.readyQ[c]) = First(s.readyQ[c])

\* Steps that bring no user task to the front of a queue can be chained.
LEMMA SameFrontTransitive ==
  ASSUME NEW s, NEW r, NEW q, SameFront(s, r), SameFront(r, q)
  PROVE  SameFront(s, q)
  BY DEF SameFront

\* An entry that is put into a queue comes first or leaves the first where it is.
LEMMA FirstAfterInsert ==
  ASSUME NEW S, NEW q \in Seq(S), NEW n \in S, NEW k \in 1 .. Len(q) + 1
  PROVE  First(InsertAt(q, k, n)) \in {n, First(q)}
<1> DEFINE r == InsertAt(q, k, n)
<1>1. Len(q) \in Nat
  BY LenProperties
<1>2. /\ r \in Seq(S) /\ Len(r) = Len(q) + 1
      /\ \A i \in 1 .. Len(q) + 1 : r[i] = IF i < k THEN q[i] ELSE IF i = k THEN n ELSE q[i - 1]
  BY InsertAtFacts
<1> SUFFICES First(r) \in {n, First(q)}
  OBVIOUS
<1> HIDE DEF r
<1>3. 1 \in 1 .. Len(q) + 1 /\ Len(r) # 0
  BY <1>1, <1>2
<1>4. First(r) = r[1]
  BY <1>2, <1>3, EmptySeq DEF First
<1>5. CASE k = 1
  BY <1>2, <1>3, <1>4, <1>5
<1>6. CASE k # 1
  <2>1. 1 < k /\ Len(q) # 0
    BY <1>1, <1>6
  <2>2. First(q) = q[1]
    BY <2>1, EmptySeq DEF First
  <2>3. r[1] = q[1]
    BY <1>2, <1>3, <2>1
  <2> QED BY <1>4, <2>2, <2>3
<1> QED BY <1>5, <1>6

\* Node::remove of a node that is not in the queue
LEMMA RemoveAbsent ==
  ASSUME NEW S, NEW q \in Seq(S), NEW n, n \notin ToSet(q)
  PROVE  RemoveFirst(q, n) = q
<1>1. DOMAIN q = 1 .. Len(q)
  BY LenProperties
<1>2. ~ \E i \in 1 .. Len(q) : q[i] = n
  BY <1>1 DEF ToSet
<1> QED BY <1>2 DEF RemoveFirst

\* A timer or an entry at the front leaves.
LEMMA UnlinkFront ==
  ASSUME NEW s \in RTsysType, NEW n \in Timer
  PROVE  SameFront(s, Unlink(s, n)) /\ Unlink(s, n).readyQ = s.readyQ
<1> DEFINE q == RemoveFirst(s.timeQ, n)
<1>1. Unlink(s, n) = [s EXCEPT !.timeQ = q]
  BY DEF Unlink
<1> HIDE DEF q
<1>2. Unlink(s, n).readyQ = s.readyQ
  BY <1>1 DEF RTsysType
<1> QED BY <1>2 DEF SameFront

\* A handler job that is released takes the front itself.
LEMMA InvokeHandlerFront ==
  ASSUME NEW s, NEW h \in Handler, NEW X, X \subseteq UserTask, NEW U, Sound(s, X, U)
  PROVE  SameFront(s, InvokeHandler(s, h))
<1>1. s \in RTsysType /\ h \in Task /\ h \notin UserTask /\ h \notin Timer /\ Affinity[h] \in CPU
      /\ s.readyQ \in [CPU -> Seq(Task)]
  BY TaskSorts, TimerSorts, RecordFields, AttributesAssumption DEF Sound, AttributesAssumption
<1>2. CASE s.nbrInvocations[h] = 0
  <2> DEFINE a == Affinity[h]
             p == RemoveFirst(s.timeQ, h)
             m == RemoveFirst(s.readyQ[a], h)
             u == Unlink(s, h)
             Stays == {i \in 1 .. Len(u.readyQ[a]) : ~ PrioCmp(u, h, u.readyQ[a][i])}
             k == 1 + Max({0} \cup Stays)
             q == InsertAt(u.readyQ[a], k, h)
             e == [u EXCEPT !.readyQ[a] = q]
             w == [e EXCEPT !.state[h] = "READY"]
             r == InvokeHandler(s, h)
  <2>1. h \notin ToSet(s.readyQ[a])
    BY <1>1, <1>2, TaskSorts DEF Sound, Placed, ActiveHandlers
  <2>2. m = s.readyQ[a]
    BY <1>1, <2>1, RemoveAbsent
  <2>3. u = [[s EXCEPT !.timeQ = p] EXCEPT !.readyQ[a] = RemoveFirst(@, h)]
    BY <1>1 DEF Unlink
  <2>4. r = [w EXCEPT !.nbrInvocations[h] = 1]
    BY <1>2 DEF InvokeHandler, MakeReady, MoveToReadyQ, InsertSorted
  <2> HIDE DEF p, u
  <2>5. u.readyQ = s.readyQ /\ "readyQ" \in DOMAIN u
    <3>1. [s EXCEPT !.timeQ = p].readyQ = s.readyQ
      BY <1>1 DEF RTsysType
    <3>2. u = [[s EXCEPT !.timeQ = p] EXCEPT !.readyQ[a] = m]
      BY <2>3, <3>1
    <3>3. u.readyQ = [s.readyQ EXCEPT ![a] = m] /\ "readyQ" \in DOMAIN u
      <4> HIDE DEF m
      <4> QED BY <1>1, <3>2 DEF RTsysType
    <3> QED BY <1>1, <2>2, <3>3
  <2>6. k \in 1 .. Len(u.readyQ[a]) + 1
    <3>1. Stays \in SUBSET (1 .. Len(u.readyQ[a])) /\ u.readyQ[a] \in Seq(Task)
      BY <1>1, <2>5
    <3> HIDE DEF Stays
    <3> QED BY <3>1, InsertPosition
  <2> HIDE DEF k
  <2>7. First(q) \in {h, First(s.readyQ[a])}
    <3>1. u.readyQ[a] \in Seq(Task) /\ u.readyQ[a] = s.readyQ[a]
      BY <1>1, <2>5
    <3> QED BY <1>1, <2>6, <3>1, FirstAfterInsert
  <2> HIDE DEF q
  <2>8. e.readyQ = [s.readyQ EXCEPT ![a] = q] /\ "readyQ" \in DOMAIN e
    BY <2>5
  <2> HIDE DEF e
  <2>9. w.readyQ = e.readyQ /\ "readyQ" \in DOMAIN w
    BY <2>8
  <2> HIDE DEF w
  <2>10. r.readyQ = w.readyQ
    BY <2>4, <2>9
  <2>11. \A c \in CPU : r.readyQ[c] = IF c = a THEN q ELSE s.readyQ[c]
    BY <1>1, <2>8, <2>9, <2>10
  <2> HIDE DEF r
  <2> QED BY <1>1, <2>7, <2>11 DEF SameFront, r
<1>3. CASE s.nbrInvocations[h] # 0
  <2>1. InvokeHandler(s, h) = Enqueue(s, h)
    BY <1>3 DEF InvokeHandler
  <2>2. Enqueue(s, h).readyQ = s.readyQ
    BY <1>1 DEF Enqueue, RTsysType
  <2> QED BY <2>1, <2>2 DEF SameFront
<1> QED BY <1>2, <1>3

\* the context switch handler of a CPU
LEMMA ContextSwitchFront ==
  ASSUME NEW s, NEW X, X \subseteq UserTask, NEW U, Sound(s, X, U)
  PROVE  SameFront(s, ContextSwitch(s))
<1>1. CASE ContextSwitchTime > 0
  <2>1. KernelHandler \in Handler
    BY <1>1, TaskSorts, TasksAssumption, AttributesAssumption
       DEF TasksAssumption, AttributesAssumption
  <2> QED BY <1>1, <2>1, InvokeHandlerFront DEF ContextSwitch
<1>2. CASE ~ (ContextSwitchTime > 0)
  BY <1>2 DEF ContextSwitch, SameFront
<1> QED BY <1>1, <1>2

\* A task that is preempted leaves the front to others.
LEMMA SuspendedFront ==
  ASSUME NEW s, NEW X, X \subseteq UserTask, NEW c, NEW new, Sound(s, X, {})
  PROVE  SameFront(s, Suspended(s, c, new)) /\ Undisturbed(s, Suspended(s, c, new))
<1>1. CASE s.running[c] \in UserTask /\ s.running[c] # new
  <2> DEFINE t == s.running[c]
             u == Unlink(s, WCETTimer(t))
  <2>1. WCETTimer(t) \in Timer /\ s \in RTsysType
    BY <1>1, TimerSorts DEF Sound
  <2>2. Suspended(s, c, new) = SuspendHook(s, t) /\ SuspendHook(s, t) = ContextSwitch(u)
    BY <1>1 DEF Suspended, SuspendHook
  <2>3. SameFront(s, u) /\ Sound(u, X, {})
    BY <2>1, UnlinkFront, UnlinkSound
  <2> HIDE DEF u
  <2>4. SameFront(u, ContextSwitch(u))
    BY <2>3, ContextSwitchFront
  <2>5. Undisturbed(s, SuspendHook(s, t))
    BY HooksLeave
  <2> QED BY <2>2, <2>3, <2>4, <2>5, SameFrontTransitive
<1>2. CASE ~ (s.running[c] \in UserTask /\ s.running[c] # new)
  BY <1>2, UndisturbedReflexive DEF Suspended, SameFront
<1> QED BY <1>1, <1>2

\* A resumed task is the one that hooks are called for; the ready queues stay.
LEMMA ResumedRuns ==
  ASSUME NEW s \in RTsysType, NEW c \in CPU, NEW new, NEW r, r = Resumed(s, c, new)
  PROVE  /\ r.readyQ = s.readyQ /\ r.tempPrio = s.tempPrio /\ r.running = s.running
         /\ new \in UserTask /\ new # s.running[c] => r.runningUser[c] = new
         /\ \A b \in CPU : b # c => r.runningUser[b] = s.runningUser[b]
         /\ new = s.running[c] => r = s
<1>1. CASE new \notin UserTask \/ new = s.running[c]
  <2>1. r = s
    BY <1>1 DEF Resumed
  <2> QED BY <1>1, <2>1
<1>2. CASE ~ (new \notin UserTask \/ new = s.running[c])
  <2> DEFINE a == [s EXCEPT !.segment[new] = 1]
             f == IF s.segment[new] = 0 THEN a ELSE s
             b == ArmBudget(f, new)
  <2>1. r = [b EXCEPT !.runningUser[c] = new]
    BY <1>2 DEF Resumed, StartHook, ResumeHook
  <2>2. /\ HasCPUs(f) /\ f.tempPrio = s.tempPrio /\ f.running = s.running
        /\ f.runningUser = s.runningUser /\ f.readyQ = s.readyQ
        /\ {"readyQ", "timeQ", "expiry"} \subseteq DOMAIN f
    BY DEF RTsysType, HasCPUs
  <2> HIDE DEF f
  <2>3. Undisturbed(f, b)
    BY HooksLeave
  <2>4. b.readyQ = f.readyQ /\ "readyQ" \in DOMAIN b
    <3> DEFINE tm == WCETTimer(new)
               g == [f EXCEPT !.expiry[tm] = f.time + f.budget[new]]
               q == RemoveFirst(g.timeQ, tm)
               d == [g EXCEPT !.timeQ = q]
               p == InsertSorted(d.timeQ, tm, LAMBDA i, j : Wakeup(d, i) < Wakeup(d, j))
               z == [d EXCEPT !.timeQ = p]
    <3>1. tm \in Timer
      BY <1>2, TimerSorts
    <3>2. b = IF WCETHandler[new] # None /\ f.budget[new] > 0 THEN z ELSE f
      BY <3>1 DEF ArmBudget, Arm, MoveToTimeQ, Unlink, InsertSorted
    <3>3. g.readyQ = f.readyQ /\ "readyQ" \in DOMAIN g
      BY <2>2
    <3> HIDE DEF g, q
    <3>4. d.readyQ = g.readyQ /\ "readyQ" \in DOMAIN d
      BY <3>3
    <3> HIDE DEF d, p
    <3>5. z.readyQ = d.readyQ /\ "readyQ" \in DOMAIN z
      BY <3>4
    <3> HIDE DEF z
    <3> QED BY <2>2, <3>2, <3>3, <3>4, <3>5
  <2> HIDE DEF b
  <2>5. /\ HasCPUs(b) /\ b.tempPrio = s.tempPrio /\ b.running = s.running
        /\ b.runningUser = s.runningUser /\ b.readyQ = s.readyQ
    BY <2>2, <2>3, <2>4 DEF Undisturbed
  <2>6. s.runningUser \in [CPU -> UserTask \cup {None}]
    BY RecordFields
  <2>7. /\ r.readyQ = b.readyQ /\ r.tempPrio = b.tempPrio /\ r.running = b.running
        /\ r.runningUser = [b.runningUser EXCEPT ![c] = new]
    BY <2>1, <2>4, <2>5 DEF HasCPUs
  <2> QED BY <1>2, <2>5, <2>6, <2>7
<1> QED BY <1>1, <1>2

\* The task at the front of the ready queue is dispatched.
LEMMA DispatchedRuns ==
  ASSUME NEW s, NEW c \in CPU, Sound(s, ActiveUsers(s), {}), NEW d, d = Dispatched(s, c)
  PROVE  d.tempPrio = s.tempPrio /\ (UsersRun(s) => UsersRun(d))
<1> DEFINE new == First(s.readyQ[c])
           a == Suspended(s, c, new)
           r == Resumed(a, c, new)
           run == First(r.readyQ[c])
           z == [r EXCEPT !.running[c] = run]
<1>1. d = IF run = None THEN z ELSE [z EXCEPT !.state[run] = "RUNNING"]
  BY Zenon DEF Dispatched
<1>2. s \in RTsysType /\ HasCPUs(s)
  BY DEF Sound, HasCPUs, RTsysType
<1>3. SameFront(s, a) /\ Undisturbed(s, a) /\ Sound(a, ActiveUsers(s), {})
  <2>1. ActiveUsers(s) \subseteq UserTask
    BY DEF ActiveUsers
  <2> HIDE DEF new
  <2> QED BY <2>1, SuspendedFront, SuspendedFacts
<1>4. /\ First(a.readyQ[c]) \in UserTask => First(a.readyQ[c]) = new
      /\ a \in RTsysType /\ a.tempPrio = s.tempPrio /\ a.running = s.running
      /\ a.runningUser = s.runningUser
  BY <1>2, <1>3 DEF SameFront, Undisturbed, Sound
<1> HIDE DEF new, a
<1>5. /\ r.readyQ = a.readyQ /\ r.tempPrio = a.tempPrio /\ r.running = a.running
      /\ new \in UserTask /\ new # a.running[c] => r.runningUser[c] = new
      /\ \A b \in CPU : b # c => r.runningUser[b] = a.runningUser[b]
      /\ new = a.running[c] => r = a
  BY <1>4, ResumedRuns
<1>6. Sound(r, ActiveUsers(s), {})
  BY <1>3, ResumedFacts
<1> HIDE DEF r
<1>7. r \in RTsysType /\ DOMAIN r.running = CPU /\ HasCPUs(r)
  BY <1>6 DEF Sound, RTsysType, HasCPUs
<1> HIDE DEF run
<1>8. /\ HasCPUs(z) /\ z.tempPrio = r.tempPrio /\ z.runningUser = r.runningUser
      /\ z.running = [r.running EXCEPT ![c] = run]
  BY <1>7 DEF HasCPUs
<1> HIDE DEF z
<1>9. d.tempPrio = z.tempPrio /\ d.runningUser = z.runningUser /\ d.running = z.running
  BY <1>1, <1>8 DEF HasCPUs
<1>10. \A b \in CPU : d.running[b] = IF b = c THEN run ELSE s.running[b]
  BY <1>4, <1>5, <1>7, <1>8, <1>9
<1>11. run \in UserTask => run = new
  BY <1>4, <1>5 DEF run
<1>12. ASSUME UsersRun(s) PROVE UsersRun(d)
  <2> SUFFICES ASSUME NEW b \in CPU, d.running[b] \in UserTask
               PROVE  d.runningUser[b] = d.running[b]
    BY DEF UsersRun
  <2>1. CASE b # c
    BY <1>4, <1>5, <1>8, <1>9, <1>10, <1>12, <2>1 DEF UsersRun
  <2>2. CASE b = c
    <3>1. d.running[c] = new /\ new \in UserTask
      BY <1>10, <1>11, <2>2
    <3>2. d.runningUser[c] = new
      <4>1. CASE new # a.running[c]
        BY <1>5, <1>8, <1>9, <3>1, <4>1
      <4>2. CASE new = a.running[c]
        <5>1. r = a
          BY <1>5, <4>2
        <5>2. s.running[c] = new
          BY <1>4, <4>2
        <5>3. s.runningUser[c] = new
          BY <1>12, <3>1, <5>2 DEF UsersRun
        <5> QED BY <1>4, <1>8, <1>9, <5>1, <5>3
      <4> QED BY <4>1, <4>2
    <3> QED BY <2>2, <3>1, <3>2
  <2> QED BY <2>1, <2>2
<1> QED BY <1>4, <1>5, <1>8, <1>9, <1>12

\* Priorities stay, and CPUs run the tasks that their hooks were called for.
PriosKept(s, r) == r.tempPrio = s.tempPrio /\ (UsersRun(s) => UsersRun(r))

\* Every step of the kernel and every other primitive, in turn
LEMMA NextCPULeaves ==
  ASSUME NEW s, NextCPU(s)
  PROVE  Undisturbed(s, rtsys')
<1> DEFINE r == [s EXCEPT !.currentCPU = @ + 1]
<1>1. rtsys' = r \/ rtsys' = s
  BY DEF NextCPU
<1>2. Undisturbed(s, r)
  BY DEF Undisturbed, HasCPUs
<1> HIDE DEF r
<1> QED BY <1>1, <1>2, UndisturbedReflexive

LEMMA ChargeLeaves ==
  ASSUME NEW s, NEW t
  PROVE  Undisturbed(s, Charge(s, t))
<1> DEFINE a == [s EXCEPT !.state[t] = IF @ = "RUNNING" THEN "READY" ELSE @,
                          !.execTime[t] = @ - timeElapsed]
           b == [a EXCEPT !.budget[t] = @ - timeElapsed]
<1>1. Charge(s, t) = IF t \in UserTask THEN b ELSE a
  BY DEF Charge
<1>2. Undisturbed(s, a)
  BY DEF Undisturbed, HasCPUs
<1> HIDE DEF a
<1>3. Undisturbed(a, b)
  BY DEF Undisturbed, HasCPUs
<1> HIDE DEF b
<1> QED BY <1>1, <1>2, <1>3, UndisturbedTransitive

LEMMA InterruptLeaves ==
  ASSUME NEW h, NEW t, Interrupt(h, t)
  PROVE  Undisturbed(rtsys, rtsys')
<1> DEFINE a == [rtsys EXCEPT !.time = t]
           s == InvokeHandler(a, h)
           r == [s EXCEPT !.nextHit = t]
<1>1. rtsys' = IF s.nbrInvocations[h] = 1 THEN r ELSE s
  BY DEF Interrupt
<1>2. Undisturbed(rtsys, a)
  BY DEF Undisturbed, HasCPUs
<1> HIDE DEF a
<1>3. Undisturbed(a, s)
  BY InvokeHandlerLeaves
<1> HIDE DEF s
<1>4. Undisturbed(s, r)
  BY DEF Undisturbed, HasCPUs
<1> HIDE DEF r
<1> QED BY <1>1, <1>2, <1>3, <1>4, UndisturbedTransitive

LEMMA StartSegmentLeaves ==
  ASSUME StartSegment
  PROVE  Undisturbed(rtsys, rtsys')
<1> DEFINE s == Charge(rtsys, Current)
           r == [s EXCEPT !.segment[Current] = s.nextSegment[Current],
                          !.nextSegment[Current] = s.nextSegment[Current] + 1]
<1>1. rtsys' = r
  BY DEF StartSegment
<1>2. Undisturbed(rtsys, s)
  BY ChargeLeaves
<1> HIDE DEF s
<1>3. Undisturbed(s, r)
  BY DEF Undisturbed, HasCPUs
<1> HIDE DEF r
<1> QED BY <1>1, <1>2, <1>3, UndisturbedTransitive

LEMMA TimerExpiresLeaves ==
  ASSUME TimerExpires
  PROVE  Undisturbed(rtsys, rtsys')
<1> DEFINE s == InvokeTask(rtsys, TimerTask(next))
           p == [s EXCEPT !.expiry[next] = @ + Period[next[2]]]
<1>1. rtsys' = IF IsPeriodic(next) THEN MoveToTimeQ(p, next) ELSE Unlink(s, next)
  BY DEF TimerExpires
<1>2. Undisturbed(rtsys, s)
  BY InvokeTaskLeaves
<1> HIDE DEF s
<1>3. Undisturbed(s, p)
  BY DEF Undisturbed, HasCPUs
<1> HIDE DEF p
<1>4. Undisturbed(p, MoveToTimeQ(p, next)) /\ Undisturbed(s, Unlink(s, next))
  BY ArmLeaves, UnlinkLeaves
<1> QED BY <1>1, <1>2, <1>3, <1>4, UndisturbedTransitive

LEMMA SleepUntilLeaves ==
  ASSUME NEW time, SleepUntil(time)
  PROVE  Undisturbed(rtsys, rtsys')
<1> DEFINE t == Current
           a == [rtsys EXCEPT !.release[t] = time]
           s == MoveToTimeQ(a, t)
           b == [s EXCEPT !.state[t] = "SLEEPING"]
<1>1. rtsys' = rtsys \/ rtsys' = SuspendHook(b, t)
  BY DEF SleepUntil, Abort
<1>2. Undisturbed(rtsys, a)
  BY DEF Undisturbed, HasCPUs
<1> HIDE DEF a, t
<1>3. Undisturbed(a, s)
  BY ArmLeaves
<1> HIDE DEF s
<1>4. Undisturbed(s, b)
  BY DEF Undisturbed, HasCPUs
<1> HIDE DEF b
<1>5. Undisturbed(b, SuspendHook(b, t))
  BY HooksLeave
<1> QED BY <1>1, <1>2, <1>3, <1>4, <1>5, UndisturbedTransitive, UndisturbedReflexive

LEMMA SetAbsDeadlineLeaves ==
  ASSUME NEW t, NEW time, SetAbsDeadline(t, time)
  PROVE  Undisturbed(rtsys, rtsys')
<1> DEFINE s == [rtsys EXCEPT !.absDeadline[t] = time]
           d == IF DLTimer(t) \in ToSet(s.timeQ) THEN Arm(s, DLTimer(t), time) ELSE s
<1>1. rtsys' \in {rtsys, d, MoveToReadyQ(d, t)}
  BY DEF SetAbsDeadline, Abort
<1>2. Undisturbed(rtsys, s)
  BY DEF Undisturbed, HasCPUs
<1> HIDE DEF s
<1>3. Undisturbed(s, d)
  BY ArmLeaves, UndisturbedReflexive
<1> HIDE DEF d
<1>4. Undisturbed(d, MoveToReadyQ(d, t))
  BY MoveToReadyQLeaves
<1> QED BY <1>1, <1>2, <1>3, <1>4, UndisturbedTransitive, UndisturbedReflexive

LEMMA SegmentReturnsLeaves ==
  ASSUME NEW e, SegmentReturns(e)
  PROVE  Undisturbed(rtsys, rtsys')
<1> DEFINE s == [rtsys EXCEPT !.execTime[Current] = e]
<1>1. NextCPU(s)
  BY DEF SegmentReturns
<1>2. Undisturbed(rtsys, s)
  BY DEF Undisturbed, HasCPUs
<1> HIDE DEF s
<1> QED BY <1>1, <1>2, NextCPULeaves, UndisturbedTransitive

\* Only the end of a job and a dispatch change what a CPU runs.
LEMMA JobFinishesRuns ==
  ASSUME IInv, JobFinishes
  PROVE  PriosKept(rtsys, rtsys')
<1> DEFINE t == Current
           e == EndJob(rtsys, t)
           r == ReleasePending(e, t)
<1>1. NextCPU(r)
  BY DEF JobFinishes
<1>2. rtsys \in RTsysType
  BY IInvFacts
<1>3. e \in RTsysType
  <2> DEFINE X == ActiveUsers(rtsys)
  <2>1. t \in Task /\ rtsys.running[rtsys.currentCPU] = t /\ Sound(rtsys, X, {})
    BY CurrentIsActive, IInvFacts DEF JobFinishes, IInv, Consistent, Current
  <2>2. rtsys.nbrInvocations[t] > 0
    <3>1. t \in X \cup ActiveHandlers(rtsys)
      BY <1>2, <2>1, RecordFields, TaskSorts DEF Sound, Placed
    <3> QED BY <3>1 DEF ActiveUsers, ActiveHandlers
  <2> HIDE DEF X, t
  <2>3. Sound(e, X \ {t}, {t})
    BY <2>1, <2>2, EndJobFacts
  <2> QED BY <2>3 DEF Sound
<1>4. PriosKept(rtsys, e)
  BY <1>2, EndJobRuns DEF PriosKept
<1> HIDE DEF e
<1>5. Undisturbed(e, r)
  BY ReleasePendingLeaves
<1> HIDE DEF r
<1>6. Undisturbed(e, rtsys')
  BY <1>1, <1>5, NextCPULeaves, UndisturbedTransitive
<1> QED BY <1>3, <1>4, <1>6, UndisturbedRuns DEF PriosKept

LEMMA DispatchRuns ==
  ASSUME IInv, Dispatch
  PROVE  PriosKept(rtsys, rtsys')
<1> DEFINE d == Dispatched(rtsys, rtsys.currentCPU)
           r == [d EXCEPT !.currentCPU = @ + 1]
<1>1. rtsys' = r \/ rtsys' = d
  BY DEF Dispatch
<1>2. Sound(rtsys, ActiveUsers(rtsys), {}) /\ rtsys.currentCPU \in CPU
  BY IInvFacts
<1>3. PriosKept(rtsys, d)
  BY <1>2, DispatchedRuns DEF PriosKept
<1>4. d \in RTsysType
  BY <1>2, DispatchedFacts DEF Sound
<1> HIDE DEF d
<1>5. Undisturbed(d, r)
  BY DEF Undisturbed, HasCPUs
<1> HIDE DEF r
<1>6. Undisturbed(d, rtsys')
  BY <1>1, <1>5, UndisturbedReflexive
<1> QED BY <1>3, <1>4, <1>6, UndisturbedRuns DEF PriosKept

\* No step of the kernel, and no other primitive, gives a priority to a task
\* or takes it away.
LEMMA OtherStepsKeepPrios ==
  ASSUME IInv, "ttKillJob" \notin Primitives, OtherStep \/ UNCHANGED vars
  PROVE  PriosKept(rtsys, rtsys')
<1>1. ASSUME Undisturbed(rtsys, rtsys') PROVE PriosKept(rtsys, rtsys')
  BY <1>1, IInvFacts, UndisturbedRuns DEF PriosKept
<1>2. ASSUME RunKernel \/ ScanEnds \/ (\E h, t : Interrupt(h, t))
      PROVE  Undisturbed(rtsys, rtsys')
  <2>1. CASE RunKernel
    BY <2>1 DEF RunKernel, Undisturbed, HasCPUs
  <2>2. CASE ScanEnds
    BY <2>2 DEF ScanEnds, Undisturbed, HasCPUs
  <2> QED BY <1>2, <2>1, <2>2, InterruptLeaves
<1>3. ASSUME SkipCPU \/ CountDown \/ StartSegment \/ (\E e : SegmentReturns(e))
      PROVE  Undisturbed(rtsys, rtsys')
  <2>1. CASE SkipCPU
    BY <2>1, NextCPULeaves DEF SkipCPU
  <2>2. CASE CountDown
    BY <2>2, NextCPULeaves, ChargeLeaves, UndisturbedTransitive DEF CountDown
  <2> QED BY <1>3, <2>1, <2>2, StartSegmentLeaves, SegmentReturnsLeaves
<1>4. ASSUME FinishBlocked \/ TimerExpires \/ TaskWakes \/ AnotherPass
               \/ (\E timestep : NextInvocation(timestep))
      PROVE  Undisturbed(rtsys, rtsys')
  <2>1. CASE FinishBlocked
    BY <2>1, UndisturbedReflexive DEF FinishBlocked, Abort
  <2>2. CASE TaskWakes
    BY <2>2, MakeReadyLeaves DEF TaskWakes
  <2>3. CASE AnotherPass
    BY <2>3 DEF AnotherPass, Abort, Undisturbed, HasCPUs
  <2>4. CASE \E timestep : NextInvocation(timestep)
    BY <2>4 DEF NextInvocation, Undisturbed, HasCPUs
  <2> QED BY <1>4, <2>1, <2>2, <2>3, <2>4, TimerExpiresLeaves
<1>5. ASSUME SegmentCall PROVE Undisturbed(rtsys, rtsys')
  <2>1. ASSUME NEW t, CreateJob(t) PROVE Undisturbed(rtsys, rtsys')
    BY <2>1, InvokeTaskLeaves DEF CreateJob
  <2>2. ASSUME NEW t, KillJob(t) PROVE FALSE
    BY <2>2 DEF KillJob, Calling
  <2>3. ASSUME NEW seg, SetNextSegment(seg) PROVE Undisturbed(rtsys, rtsys')
    BY <2>3 DEF SetNextSegment, Abort, Undisturbed, HasCPUs
  <2> QED BY <1>5, <2>1, <2>2, <2>3, SleepUntilLeaves, SetAbsDeadlineLeaves DEF SegmentCall
<1>6. CASE UNCHANGED vars
  BY <1>1, <1>6, UndisturbedReflexive DEF vars
<1>7. CASE OtherStep
  <2>1. RunKernel \/ (\E h, t : Interrupt(h, t)) \/ RunStep \/ SegmentCall
    BY <1>7 DEF OtherStep
  <2>2. CASE RunStep
    <3>1. ASSUME JobFinishes \/ Dispatch PROVE PriosKept(rtsys, rtsys')
      BY <3>1, JobFinishesRuns, DispatchRuns
    <3> QED BY <2>2, <1>1, <1>2, <1>3, <1>4, <3>1 DEF RunStep
  <2> QED BY <2>1, <2>2, <1>1, <1>2, <1>5
<1> QED BY <1>6, <1>7
=============================================================================
