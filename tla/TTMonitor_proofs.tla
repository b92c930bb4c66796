-------------------------- MODULE TTMonitor_proofs --------------------------
(***************************************************************************)
(* Proofs about monitors: whatever the tasks, the scheduling and the       *)
(* programs are, a monitor with waiting tasks is held, so that its next    *)
(* ttExitMonitor lets one of them in, and a task that waits for a monitor  *)
(* or an event is in the queue of that one only.  ttNotifyAll moves a      *)
(* sequence of tasks one by one; what holds of each move holds of the      *)
(* whole loop, because the first move after which it did not would have    *)
(* broken it.  Unless tasks are scheduled by their absolute deadlines, a   *)
(* holder runs at the priority of every task that it blocks.               *)
(***************************************************************************)
EXTENDS TTMonitor, TTKernel_proofs

-----------------------------------------------------------------------------
(***************************************************************************)
(* The loops of ttNotifyAll: what FoldLeft computes, one task at a time.   *)
(***************************************************************************)
\* The task t is readied in state x, or joins the queue x.
NotifyOne(o, x, t) == IF o = "ready" THEN MakeReady(x, t) ELSE Queued(x, t)

\* g is what FoldLeft iterates to, on the sets of positions up to k.
Iterates(o, base, q, g, k) ==
  g = [T \in SUBSET (1 .. k) |->
         IF T = {} THEN base ELSE NotifyOne(o, g[T \ {Max(T)}], q[Max(T)])]

\* a holds the intermediate results of N steps.
StepByStep(o, base, q, a, N) ==
  a[0] = base /\ \A k \in 1 .. N : a[k] = NotifyOne(o, a[k - 1], q[k])

LEMMA LastPosition ==
  ASSUME NEW k \in Nat, NEW T \in SUBSET (1 .. k), T # {}
  PROVE  /\ Max(T) \in T /\ T \ {Max(T)} \in SUBSET (1 .. k) /\ Max(T) \in 1 .. k
         /\ k \in T => Max(T) = k
<1>1. T \in SUBSET (0 .. k)
  OBVIOUS
<1>2. Max(T) \in T /\ \A y \in T : y <= Max(T)
  BY <1>1, MaxInSet
<1>3. Max(T) \in 1 .. k
  BY <1>2
<1> HIDE DEF Max
<1>4. k \in T => Max(T) = k
  BY <1>2, <1>3
<1> QED BY <1>2, <1>3, <1>4

LEMMA LowerPositions ==
  ASSUME NEW k \in Nat, k # 0
  PROVE  /\ k - 1 \in Nat
         /\ \A T \in SUBSET (1 .. k) : k \notin T => T \in SUBSET (1 .. k - 1)
         /\ \A T \in SUBSET (1 .. k) : T \ {k} \in SUBSET (1 .. k - 1)
         /\ \A T \in SUBSET (1 .. k - 1) : k \notin T /\ T \in SUBSET (1 .. k)
         /\ (1 .. k) \ {k} = 1 .. k - 1
OBVIOUS

\* The recursive definition of the iteration has a solution: there is no
\* shortest sequence without one.
LEMMA IterationExists ==
  ASSUME NEW o, NEW base, NEW q, NEW N \in Nat
  PROVE  \E g : Iterates(o, base, q, g, N)
<1> DEFINE Step(g, T) ==
             IF T = {} THEN base ELSE NotifyOne(o, g[T \ {Max(T)}], q[Max(T)])
           Solves(g, k) == g = [T \in SUBSET (1 .. k) |-> Step(g, T)]
           Fails == {k \in Nat : ~ \E g : Solves(g, k)}
<1>1. SUFFICES ASSUME Fails # {} PROVE FALSE
  BY DEF Iterates
<1>2. PICK k \in Nat : k \in Fails /\ \A j \in Fails : k <= j
  <2>1. Fails \in SUBSET Nat
    OBVIOUS
  <2> HIDE DEF Fails
  <2> QED BY <1>1, <2>1, MinInSet
<1>3. k # 0
  <2> SUFFICES ASSUME k = 0 PROVE FALSE
    OBVIOUS
  <2>1. Solves([T \in SUBSET (1 .. 0) |-> base], 0)
    OBVIOUS
  <2> QED BY <1>2, <2>1
<1>4. PICK g : Solves(g, k - 1)
  <2>1. k - 1 \in Nat /\ ~ (k <= k - 1)
    BY <1>3
  <2> HIDE DEF Solves
  <2> QED BY <1>2, <2>1
<1> DEFINE h == [T \in SUBSET (1 .. k) |->
                   IF k \in T THEN NotifyOne(o, g[T \ {k}], q[k]) ELSE g[T]]
<1>5. ASSUME NEW T \in SUBSET (1 .. k) PROVE h[T] = Step(h, T)
  <2>1. CASE T = {}
    <3>1. {} \in SUBSET (1 .. k - 1) /\ k \notin {} /\ h[{}] = g[{}]
      OBVIOUS
    <3>2. g[{}] = base
      BY <1>4, <3>1
    <3> HIDE DEF h
    <3> QED BY <2>1, <3>1, <3>2
  <2>2. CASE T # {} /\ k \in T
    <3>1. Max(T) = k
      BY <2>2, LastPosition
    <3>2. T \ {k} \in SUBSET (1 .. k) /\ k \notin T \ {k}
      OBVIOUS
    <3>3. h[T \ {k}] = g[T \ {k}]
      BY <3>2
    <3>4. h[T] = NotifyOne(o, g[T \ {k}], q[k])
      BY <2>2
    <3> HIDE DEF h
    <3> QED BY <2>2, <3>1, <3>3, <3>4
  <2>3. CASE T # {} /\ k \notin T
    <3> DEFINE W == T \ {Max(T)}
    <3>1. T \in SUBSET (1 .. k - 1) /\ k - 1 \in Nat
      BY <1>3, <2>3, LowerPositions
    <3>2. W \in SUBSET (1 .. k - 1) /\ k \notin W
      BY <2>3, <3>1, LastPosition
    <3>3. W \in SUBSET (1 .. k)
      OBVIOUS
    <3> HIDE DEF W
    <3>4. h[W] = g[W] /\ h[T] = g[T]
      BY <2>3, <3>2, <3>3
    <3>5. g[T] = Step(g, T)
      BY <1>4, <3>1
    <3> HIDE DEF h
    <3> QED BY <2>3, <3>4, <3>5 DEF W
  <2> QED BY <2>1, <2>2, <2>3
<1>6. Solves(h, k)
  <2>1. h = [T \in SUBSET (1 .. k) |-> h[T]]
    OBVIOUS
  <2> HIDE DEF h
  <2>2. [T \in SUBSET (1 .. k) |-> h[T]] = [T \in SUBSET (1 .. k) |-> Step(h, T)]
    BY <1>5
  <2> QED BY <2>1, <2>2
<1> QED BY <1>2, <1>6

LEMMA IterationSteps ==
  ASSUME NEW o, NEW base, NEW q, NEW N \in Nat, NEW g, Iterates(o, base, q, g, N)
  PROVE  \E a : StepByStep(o, base, q, a, N) /\ a[N] = g[1 .. N]
<1> DEFINE a == [k \in 0 .. N |-> g[1 .. k]]
<1>1. ASSUME NEW k \in 1 .. N PROVE a[k] = NotifyOne(o, a[k - 1], q[k])
  <2>1. /\ 1 .. k \in SUBSET (1 .. N) /\ k \in 1 .. k /\ k \in Nat /\ k # 0
        /\ 1 .. k # {} /\ 1 .. k \in SUBSET (1 .. k) /\ k \in 0 .. N /\ k - 1 \in 0 .. N
    OBVIOUS
  <2>2. Max(1 .. k) = k
    BY <2>1, LastPosition
  <2>3. (1 .. k) \ {k} = 1 .. k - 1
    BY <2>1, LowerPositions
  <2>4. g[1 .. k] = NotifyOne(o, g[(1 .. k) \ {Max(1 .. k)}], q[Max(1 .. k)])
    BY <2>1 DEF Iterates
  <2>5. g[1 .. k] = NotifyOne(o, g[1 .. k - 1], q[k])
    BY <2>2, <2>3, <2>4
  <2>6. a[k] = g[1 .. k] /\ a[k - 1] = g[1 .. k - 1]
    BY <2>1
  <2> QED BY <2>5, <2>6
<1>2. a[0] = base
  <2>1. {} \in SUBSET (1 .. N) /\ 1 .. 0 = {}
    OBVIOUS
  <2>2. g[{}] = base
    BY <2>1 DEF Iterates
  <2> QED BY <2>1, <2>2
<1>3. a[N] = g[1 .. N]
  OBVIOUS
<1> HIDE DEF a
<1> QED BY <1>1, <1>2, <1>3 DEF StepByStep

LEMMA ReadiedOneByOne ==
  ASSUME NEW s, NEW q, NEW N \in Nat, DOMAIN q = 1 .. N
  PROVE  \E a : StepByStep("ready", s, q, a, N) /\ a[N] = FoldLeft(MakeReady, s, q)
<1> DEFINE Solves(g) == g = [T \in SUBSET (1 .. N) |->
                               IF T = {} THEN s ELSE MakeReady(g[T \ {Max(T)}], q[Max(T)])]
           g == CHOOSE f : Solves(f)
<1>1. FoldLeft(MakeReady, s, q) = g[1 .. N]
  BY DEF FoldLeft, MapThenFoldSet
<1>2. \A f : Solves(f) <=> Iterates("ready", s, q, f, N)
  BY DEF Iterates, NotifyOne
<1>3. \E f : Solves(f)
  BY <1>2, IterationExists
<1>4. Iterates("ready", s, q, g, N)
  <2> HIDE DEF Solves
  <2> QED BY <1>2, <1>3
<1> HIDE DEF g
<1> QED BY <1>1, <1>4, IterationSteps

LEMMA QueuedOneByOne ==
  ASSUME NEW base, NEW q, NEW N \in Nat, DOMAIN q = 1 .. N
  PROVE  \E a : /\ StepByStep("queue", base, q, a, N)
                /\ a[N] = FoldLeft(Queued, base, q)
<1> DEFINE Solves(g) == g = [T \in SUBSET (1 .. N) |->
                               IF T = {} THEN base ELSE Queued(g[T \ {Max(T)}], q[Max(T)])]
           g == CHOOSE f : Solves(f)
<1>1. FoldLeft(Queued, base, q) = g[1 .. N]
  BY DEF FoldLeft, MapThenFoldSet
<1>2. \A f : Solves(f) <=> Iterates("queue", base, q, f, N)
  BY DEF Iterates, NotifyOne
<1>3. \E f : Solves(f)
  BY <1>2, IterationExists
<1>4. Iterates("queue", base, q, g, N)
  <2> HIDE DEF Solves
  <2> QED BY <1>2, <1>3
<1> HIDE DEF g
<1> QED BY <1>1, <1>4, IterationSteps

-----------------------------------------------------------------------------
(***************************************************************************)
(* Who holds a monitor and who waits for it.                               *)
(***************************************************************************)
MonTypeOK ==
  /\ heldBy \in [Monitor -> UserTask \cup {None}]
  /\ monitorQ \in [Monitor -> Seq(UserTask)]
  /\ eventQ \in [Event -> Seq(UserTask)]

MonInv == MonTypeOK /\ WaitersHaveHolder

LEMMA SequenceFacts ==
  ASSUME NEW S, NEW q \in Seq(S), q # << >>
  PROVE  Head(q) \in S /\ Tail(q) \in Seq(S) /\ q[1] = Head(q)
  OBVIOUS

LEMMA QueuedFacts ==
  ASSUME NEW q \in Seq(UserTask), NEW t \in UserTask
  PROVE  Queued(q, t) \in Seq(UserTask)
<1> DEFINE Stays == {i \in 1 .. Len(q) : ~ PrioCmp(rtsys, t, q[i])}
           k == 1 + Max({0} \cup Stays)
<1>1. Queued(q, t) = InsertAt(q, k, t)
  BY DEF Queued, InsertSorted
<1>2. k \in 1 .. Len(q) + 1
  <2>1. Stays \in SUBSET (1 .. Len(q))
    OBVIOUS
  <2> HIDE DEF Stays
  <2> QED BY <2>1, InsertPosition
<1> HIDE DEF k
<1> QED BY <1>1, <1>2, InsertAtFacts

\* ttExitMonitor hands the monitor over to the first waiting task, if any.
LEMMA LeaveStep ==
  ASSUME MonInv, NEW s, NEW t, NEW x \in Monitor, Leave(s, x, t),
         eventQ' \in [Event -> Seq(UserTask)]
  PROVE  MonInv'
<1> DEFINE heir == First(monitorQ[x])
           rest == IF heir = None THEN monitorQ[x] ELSE Tail(monitorQ[x])
<1>1. monitorQ[x] \in Seq(UserTask)
  BY DEF MonInv, MonTypeOK
<1>2. /\ heldBy' = [heldBy EXCEPT ![x] = heir]
      /\ monitorQ' = [monitorQ EXCEPT ![x] = rest]
  BY DEF Leave
<1>3. CASE monitorQ[x] = << >>
  <2>1. heir = None
    BY <1>3 DEF First
  <2>2. rest = << >> /\ << >> \in Seq(UserTask)
    BY <1>3, <2>1
  <2> HIDE DEF heir, rest
  <2> QED BY <1>2, <2>1, <2>2 DEF MonInv, MonTypeOK, WaitersHaveHolder
<1>4. CASE monitorQ[x] # << >>
  <2>1. heir = Head(monitorQ[x]) /\ heir \in UserTask
    BY <1>1, <1>4, SequenceFacts DEF First
  <2>2. heir # None
    BY <2>1, TasksAssumption DEF TasksAssumption, Task
  <2>3. rest \in Seq(UserTask)
    BY <1>1, <1>4, <2>2, SequenceFacts
  <2> HIDE DEF heir, rest
  <2> QED BY <1>2, <2>1, <2>2, <2>3 DEF MonInv, MonTypeOK, WaitersHaveHolder
<1> QED BY <1>3, <1>4

LEMMA EnterStep ==
  ASSUME MonInv, NEW x \in Monitor, EnterMonitor(x)
  PROVE  MonInv'
<1>1. Current \in UserTask /\ eventQ' = eventQ
  BY DEF EnterMonitor
<1>2. CASE heldBy[x] = None
  <2>1. heldBy' = [heldBy EXCEPT ![x] = Current] /\ monitorQ' = monitorQ
    BY <1>2 DEF EnterMonitor
  <2>2. Current # None
    BY <1>1, TasksAssumption DEF TasksAssumption, Task
  <2> QED BY <1>1, <2>1, <2>2 DEF MonInv, MonTypeOK, WaitersHaveHolder
<1>3. CASE heldBy[x] # None
  <2> DEFINE q == Queued(monitorQ[x], Current)
  <2>1. heldBy' = heldBy /\ monitorQ' = [monitorQ EXCEPT ![x] = q]
    BY <1>3 DEF EnterMonitor
  <2>2. q \in Seq(UserTask)
    BY <1>1, QueuedFacts DEF MonInv, MonTypeOK
  <2> HIDE DEF q
  <2> QED BY <1>1, <1>3, <2>1, <2>2 DEF MonInv, MonTypeOK, WaitersHaveHolder
<1> QED BY <1>2, <1>3

LEMMA WaitStep ==
  ASSUME MonInv, NEW e \in Event, Wait(e)
  PROVE  MonInv'
<1> DEFINE x == EventMonitor[e]
           q == Queued(eventQ[e], Current)
<1>1. Current \in UserTask /\ x \in Monitor \cup {None}
  BY MonitorAssumption DEF Wait, MonitorAssumption
<1>2. q \in Seq(UserTask)
  BY <1>1, QueuedFacts DEF MonInv, MonTypeOK
<1>3. CASE x # None /\ heldBy[x] # Current
  BY <1>3 DEF Wait, monVars, MonInv, MonTypeOK, WaitersHaveHolder
<1>4. CASE ~ (x # None /\ heldBy[x] # Current)
  <2>1. eventQ' = [eventQ EXCEPT ![e] = q]
    BY <1>4 DEF Wait
  <2> HIDE DEF q
  <2>2. eventQ' \in [Event -> Seq(UserTask)]
    BY <1>2, <2>1 DEF MonInv, MonTypeOK
  <2>3. CASE x = None
    <3>1. heldBy' = heldBy /\ monitorQ' = monitorQ
      BY <1>4, <2>3 DEF Wait
    <3> QED BY <2>2, <3>1 DEF MonInv, MonTypeOK, WaitersHaveHolder
  <2>4. CASE x # None
    <3>1. Leave(Blocked(rtsys, Current), x, Current)
      BY <1>4, <2>4 DEF Wait
    <3> QED BY <1>1, <2>2, <2>4, <3>1, LeaveStep
  <2> QED BY <2>3, <2>4
<1> QED BY <1>3, <1>4

LEMMA NotifyStep ==
  ASSUME MonInv, NEW e \in Event, Notify(e)
  PROVE  MonInv'
<1> DEFINE x == EventMonitor[e]
           t == Head(eventQ[e])
           q == Queued(monitorQ[x], t)
<1>1. heldBy' = heldBy /\ x \in Monitor \cup {None}
  BY MonitorAssumption DEF Notify, MonitorAssumption
<1>2. CASE eventQ[e] = << >>
  BY <1>1, <1>2 DEF Notify, MonInv, MonTypeOK, WaitersHaveHolder
<1>3. CASE eventQ[e] # << >>
  <2>1. t \in UserTask /\ Tail(eventQ[e]) \in Seq(UserTask)
    BY <1>3, SequenceFacts DEF MonInv, MonTypeOK
  <2>2. eventQ' = [eventQ EXCEPT ![e] = Tail(eventQ[e])]
    BY <1>3 DEF Notify
  <2>3. eventQ' \in [Event -> Seq(UserTask)]
    BY <2>1, <2>2 DEF MonInv, MonTypeOK
  <2>4. CASE x = None
    <3>1. monitorQ' = monitorQ
      BY <1>3, <2>4 DEF Notify
    <3> QED BY <1>1, <2>3, <3>1 DEF MonInv, MonTypeOK, WaitersHaveHolder
  <2>5. CASE x # None
    <3>1. monitorQ' = [monitorQ EXCEPT ![x] = q]
      BY <1>3, <2>5 DEF Notify
    <3>2. Current \in UserTask /\ heldBy[x] = Current
      BY <2>5 DEF Notify, MayNotify
    <3>3. heldBy[x] # None
      BY <3>2, TasksAssumption DEF TasksAssumption, Task
    <3>4. x \in Monitor
      BY <1>1, <2>5
    <3>5. q \in Seq(UserTask)
      BY <2>1, <3>4, QueuedFacts DEF MonInv, MonTypeOK
    <3> HIDE DEF q
    <3> QED BY <1>1, <2>3, <3>1, <3>3, <3>4, <3>5 DEF MonInv, MonTypeOK, WaitersHaveHolder
  <2> QED BY <2>4, <2>5
<1> QED BY <1>2, <1>3

-----------------------------------------------------------------------------
(***************************************************************************)
(* The tasks that wait: those in the waiting queues of monitors and events *)
(* are the parked ones.                                                    *)
(***************************************************************************)
\* An inserted task is in the queue once.
LEMMA QueuedOnce ==
  ASSUME NEW q \in Seq(UserTask), NEW t \in UserTask,
         NoDuplicates(q), t \notin ToSet(q)
  PROVE  /\ NoDuplicates(Queued(q, t)) /\ ToSet(Queued(q, t)) = ToSet(q) \cup {t}
         /\ Queued(q, t) \in Seq(UserTask)
<1> DEFINE Stays == {i \in 1 .. Len(q) : ~ PrioCmp(rtsys, t, q[i])}
           k == 1 + Max({0} \cup Stays)
<1>1. Queued(q, t) = InsertAt(q, k, t)
  BY DEF Queued, InsertSorted
<1>2. k \in 1 .. Len(q) + 1
  <2>1. Stays \in SUBSET (1 .. Len(q))
    OBVIOUS
  <2> HIDE DEF Stays
  <2> QED BY <2>1, InsertPosition
<1> HIDE DEF k
<1> QED BY <1>1, <1>2, InsertAtSet

\* prioRaised and tempPrio of a task change.
WithTempPrio(s, t, p) == [s EXCEPT !.tempPrio[t] = p]

LEMMA SetTempPrioFacts ==
  ASSUME NEW s, Sound(s, ActiveUsers(s), {}), NEW t \in UserTask,
         NEW p, p \in Int \/ p = None, NEW r, r = WithTempPrio(s, t, p)
  PROVE  Served(s, r) /\ ActiveUsers(r) = ActiveUsers(s) /\ Parks(r) = Parks(s)
<1> DEFINE tp == [s.tempPrio EXCEPT ![t] = p]
<1>1. s \in RTsysType /\ s.tempPrio \in [UserTask -> Int \cup {None}]
  BY DEF Sound, RTsysType
<1>2. tp \in [UserTask -> Int \cup {None}]
  BY <1>1
<1>3. r = [s EXCEPT !.tempPrio = tp]
  BY <1>1 DEF RTsysType, WithTempPrio
<1> HIDE DEF tp
<1>4. /\ r \in RTsysType /\ r.state = s.state /\ r.readyQ = s.readyQ /\ r.timeQ = s.timeQ
      /\ SameJobs(s, r)
  BY <1>1, <1>2, <1>3 DEF RTsysType, SameJobs
<1>5. SameQueues(s, r)
  BY <1>4 DEF SameQueues, SameJobs, Runnable, Waits
<1>6. ActiveUsers(r) = ActiveUsers(s)
  BY <1>4 DEF SameJobs, ActiveUsers
<1>7. Sound(r, ActiveUsers(r), {})
  BY <1>4, <1>5, <1>6, SameQueuesSound
<1>8. Parks(r) = Parks(s)
  BY <1>4 DEF Parks, Parked, Waits, Ready
<1> QED BY <1>4, <1>6, <1>7, <1>8 DEF Served, SameJobs, SameClock

LEMMA ReshuffledFacts ==
  ASSUME NEW s, Sound(s, ActiveUsers(s), {}), NEW t \in UserTask,
         NEW r, r = Reshuffled(s, t)
  PROVE  Served(s, r) /\ ActiveUsers(r) = ActiveUsers(s) /\ Parks(r) = Parks(s)
<1>1. s \in RTsysType /\ s.currentCPU \in CPU
      /\ Placed(s, ActiveUsers(s) \cup ActiveHandlers(s))
  BY RecordFields DEF Sound
<1>2. CASE t \in ToSet(s.readyQ[s.currentCPU])
  <2>1. t \in ActiveUsers(s) \cup ActiveHandlers(s) /\ Affinity[t] = s.currentCPU
    BY <1>1, <1>2 DEF Placed
  <2>2. t \in ActiveUsers(s) /\ t \notin Parks(s)
    BY <1>2, <2>1, TaskSorts DEF ActiveUsers, ActiveHandlers, Parks, Parked, Ready
  <2>3. r = MakeReady(s, t)
    BY <1>2 DEF Reshuffled
  <2> QED BY <2>2, <2>3, MakeReadyFrees
<1>3. CASE t \notin ToSet(s.readyQ[s.currentCPU])
  <2>1. r = s
    BY <1>3 DEF Reshuffled
  <2> QED BY <2>1 DEF Served, SameClock
<1> QED BY <1>2, <1>3

LEMMA InheritFacts ==
  ASSUME NEW s, Sound(s, ActiveUsers(s), {}), NEW holder \in UserTask, NEW t \in UserTask,
         NEW r, r = Inherit(s, holder, t)
  PROVE  Served(s, r) /\ Parks(r) = Parks(s)
<1>1. CASE Prio(s, holder) > OwnPrio(s, t)
  <2> DEFINE p == OwnPrio(s, t)
             d == WithTempPrio(s, holder, p)
  <2>1. p \in Int
    BY AttributesAssumption, RecordFields, TaskSorts
       DEF AttributesAssumption, OwnPrio, Sound
  <2>2. r = Reshuffled(d, holder)
    BY <1>1 DEF Inherit, WithTempPrio
  <2> HIDE DEF p
  <2>3. Served(s, d) /\ Parks(d) = Parks(s)
    BY <2>1, SetTempPrioFacts
  <2> HIDE DEF d
  <2>4. Served(d, r) /\ Parks(r) = Parks(d)
    BY <2>2, <2>3, ReshuffledFacts DEF Served
  <2> QED BY <2>3, <2>4, ServedTransitive
<1>2. CASE ~ (Prio(s, holder) > OwnPrio(s, t))
  <2>1. r = s
    BY <1>2 DEF Inherit
  <2> QED BY <2>1 DEF Served, SameClock
<1> QED BY <1>1, <1>2

\* all waiting queues, those of the monitors mq and those of the events eq
Both(mq, eq) == [x \in Monitor \cup Event |-> IF x \in Monitor THEN mq[x] ELSE eq[x]]

LEMMA BothFacts ==
  ASSUME NEW mq, NEW eq
  PROVE  /\ DOMAIN Both(mq, eq) = Monitor \cup Event
         /\ \A x \in Monitor : Both(mq, eq)[x] = mq[x] /\ x \notin Event
         /\ \A e \in Event : Both(mq, eq)[e] = eq[e] /\ e \notin Monitor
BY MonitorAssumption DEF MonitorAssumption, Both

QueuedInv == IInv /\ MonInv /\ WaitIn(rtsys, Both(monitorQ, eventQ))

\* A task is parked and joins a queue at its place.
LEMMA WaiterQueued ==
  ASSUME NEW s, NEW r, NEW Q, NEW R, WaitIn(s, Q), DOMAIN R = DOMAIN Q,
         NEW x \in DOMAIN Q, Q[x] \in Seq(UserTask), NEW t \in UserTask, t \notin Parks(s),
         \A y \in DOMAIN Q : y # x => R[y] = Q[y],
         R[x] = Queued(Q[x], t), Parks(r) = Parks(s) \cup {t}
  PROVE  WaitIn(r, R)
<1>1. t \notin WaitingIn(Q) /\ Apart(Q) /\ Parks(s) = WaitingIn(Q)
  BY DEF WaitIn
<1>2. NoDuplicates(Q[x]) /\ t \notin ToSet(Q[x])
  BY <1>1 DEF Apart, WaitingIn
<1>3. NoDuplicates(R[x]) /\ ToSet(R[x]) = ToSet(Q[x]) \cup {t}
  BY <1>2, QueuedOnce
<1>4. WaitingIn(R) = WaitingIn(Q) \cup {t} /\ Apart(R)
  BY <1>1, <1>3, JoinQueue
<1> QED BY <1>1, <1>4 DEF WaitIn

\* ttEnterMonitor: the caller of a held monitor joins its queue.
LEMMA EnterQueued ==
  ASSUME QueuedInv, NEW x \in Monitor, EnterMonitor(x)
  PROVE  IInv' /\ WaitIn(rtsys', Both(monitorQ', eventQ'))
<1> DEFINE t == Current
           Q == Both(monitorQ, eventQ)
           R == Both(monitorQ', eventQ')
           s == Blocked(rtsys, t)
<1>1. /\ Calling("ttEnterMonitor") /\ NotBlocked /\ t \in UserTask /\ UNCHANGED pc
      /\ "ttKillJob" \notin Primitives /\ IInv /\ WaitIn(rtsys, Q)
      /\ monitorQ \in [Monitor -> Seq(UserTask)] /\ eventQ' = eventQ
      /\ heldBy[x] \in UserTask \cup {None}
  BY MonitorAssumption DEF EnterMonitor, QueuedInv, MonInv, MonTypeOK, MonitorAssumption
<1>2. /\ Sound(rtsys, ActiveUsers(rtsys), {}) /\ t \in ActiveUsers(rtsys)
      /\ t \notin Parks(rtsys)
  BY <1>1, CallerFacts
<1>3. CASE heldBy[x] # None
  <2>1. /\ rtsys' = Inherit(s, heldBy[x], t)
        /\ monitorQ' = [monitorQ EXCEPT ![x] = Queued(@, t)]
    BY <1>3 DEF EnterMonitor
  <2>2. /\ DOMAIN R = DOMAIN Q /\ x \in DOMAIN Q /\ Q[x] \in Seq(UserTask)
        /\ \A y \in DOMAIN Q : y # x => R[y] = Q[y]
        /\ R[x] = Queued(Q[x], t)
    <3> HIDE DEF t, Q, R
    <3>1. \A y \in Monitor : y # x => monitorQ'[y] = monitorQ[y]
      BY <1>1, <2>1
    <3>2. monitorQ'[x] = Queued(monitorQ[x], t)
      BY <1>1, <2>1
    <3> QED BY <1>1, <3>1, <3>2, BothFacts DEF Q, R
  <2> HIDE DEF t, Q, R
  <2>3. Served(rtsys, s) /\ Parks(s) = Parks(rtsys) \cup {t}
    BY <1>1, <1>2, BlockedFacts
  <2> HIDE DEF s
  <2>4. Served(s, rtsys') /\ Parks(rtsys') = Parks(s)
    BY <1>1, <1>3, <2>1, <2>3, InheritFacts DEF Served
  <2>5. Served(rtsys, rtsys')
    BY <2>3, <2>4, ServedTransitive
  <2>6. WaitIn(rtsys', R)
    BY <1>1, <1>2, <2>2, <2>3, <2>4, WaiterQueued
  <2> QED BY <1>1, <2>5, <2>6, CallKeeps DEF R
<1>4. CASE heldBy[x] = None
  <2>1. rtsys' = rtsys /\ monitorQ' = monitorQ
    BY <1>4 DEF EnterMonitor
  <2>2. Served(rtsys, rtsys')
    BY <1>2, <2>1 DEF Served, SameClock
  <2> QED BY <1>1, <2>1, <2>2, CallKeeps
<1> QED BY <1>3, <1>4

\* ttExitMonitor: the heir of a monitor leaves its queue and is released.
LEMMA LeaveQueued ==
  ASSUME NEW s, Sound(s, ActiveUsers(s), {}), NEW x \in Monitor, NEW t \in UserTask,
         Leave(s, x, t), NEW eq \in [Event -> Seq(UserTask)],
         monitorQ \in [Monitor -> Seq(UserTask)], WaitIn(s, Both(monitorQ, eq))
  PROVE  Served(s, rtsys') /\ WaitIn(rtsys', Both(monitorQ', eq))
<1> DEFINE d == WithTempPrio(s, t, None)
           r == Reshuffled(d, t)
           heir == First(monitorQ[x])
           Q == Both(monitorQ, eq)
           R == Both(monitorQ', eq)
<1>1. /\ rtsys' = IF heir = None THEN r ELSE MakeReady(r, heir)
      /\ monitorQ' = [monitorQ EXCEPT ![x] = IF heir = None THEN @ ELSE Tail(@)]
  BY DEF Leave, WithTempPrio
<1>2. Served(s, d) /\ Parks(d) = Parks(s)
  BY SetTempPrioFacts
<1> HIDE DEF d
<1>3. Served(d, r) /\ Parks(r) = Parks(d)
  BY <1>2, ReshuffledFacts DEF Served
<1> HIDE DEF r
<1>4. Served(s, r) /\ Parks(r) = Parks(s) /\ Sound(r, ActiveUsers(r), {}) /\ WaitIn(r, Q)
  <2>1. Served(s, r) /\ Parks(r) = Parks(s)
    BY <1>2, <1>3, ServedTransitive
  <2> QED BY <2>1, WaitersStay DEF Served
<1>5. CASE monitorQ[x] = << >>
  <2>1. heir = None
    BY <1>5 DEF First
  <2>2. rtsys' = r /\ monitorQ' = monitorQ
    BY <1>1, <2>1
  <2> QED BY <1>4, <2>2
<1>6. CASE monitorQ[x] # << >>
  <2>1. x \in DOMAIN Q /\ Q[x] = monitorQ[x] /\ Q[x] \in Seq(UserTask) /\ Q[x] # << >>
    BY <1>6, BothFacts
  <2>2. heir = Head(Q[x])
    BY <1>6, <2>1, SequenceFacts DEF First
  <2> HIDE DEF heir, Q, R
  <2>3. heir \in UserTask /\ heir \in ActiveUsers(r)
    BY <1>4, <2>1, <2>2, HeadWaits
  <2>4. heir # None
    BY <2>3, TasksAssumption DEF TasksAssumption, Task
  <2>5. rtsys' = MakeReady(r, heir) /\ monitorQ' = [monitorQ EXCEPT ![x] = Tail(@)]
    BY <1>1, <2>4
  <2>6. Served(r, rtsys') /\ Parks(rtsys') = Parks(r) \ {heir}
    BY <1>4, <2>3, <2>5, MakeReadyFrees
  <2>7. /\ DOMAIN R = DOMAIN Q /\ \A y \in DOMAIN Q : y # x => R[y] = Q[y]
        /\ R[x] = Tail(Q[x])
    <3>1. \A y \in Monitor : y # x => monitorQ'[y] = monitorQ[y]
      BY <2>5
    <3>2. monitorQ'[x] = Tail(monitorQ[x])
      BY <2>5
    <3>3. DOMAIN R = Monitor \cup Event /\ DOMAIN Q = Monitor \cup Event
      BY BothFacts DEF Q, R
    <3>4. \A y \in Monitor : R[y] = monitorQ'[y] /\ Q[y] = monitorQ[y]
      BY BothFacts DEF Q, R
    <3>5. \A y \in Event : R[y] = eq[y] /\ Q[y] = eq[y]
      BY BothFacts DEF Q, R
    <3> QED BY <3>1, <3>2, <3>3, <3>4, <3>5
  <2>8. WaitIn(rtsys', R)
    BY <1>4, <2>1, <2>2, <2>6, <2>7, WaiterLeaves
  <2>9. Served(s, rtsys')
    BY <1>4, <2>6, ServedTransitive
  <2> QED BY <2>8, <2>9 DEF R
<1> QED BY <1>5, <1>6

LEMMA ExitQueued ==
  ASSUME QueuedInv, NEW x \in Monitor, ExitMonitor(x)
  PROVE  IInv' /\ WaitIn(rtsys', Both(monitorQ', eventQ'))
<1> DEFINE t == Current
<1>1. /\ Calling("ttExitMonitor") /\ NotBlocked
      /\ "ttKillJob" \notin Primitives /\ IInv /\ WaitIn(rtsys, Both(monitorQ, eventQ))
      /\ monitorQ \in [Monitor -> Seq(UserTask)] /\ eventQ \in [Event -> Seq(UserTask)]
      /\ heldBy[x] \in UserTask \cup {None}
  BY MonitorAssumption DEF ExitMonitor, QueuedInv, MonInv, MonTypeOK, MonitorAssumption
<1>2. Sound(rtsys, ActiveUsers(rtsys), {}) /\ t \in Task
  BY <1>1, CallerFacts
<1>3. CASE heldBy[x] = t
  <2>1. t \in UserTask
    BY <1>1, <1>2, <1>3, TasksAssumption DEF TasksAssumption
  <2>2. Leave(rtsys, x, t) /\ eventQ' = eventQ /\ UNCHANGED pc
    BY <1>3 DEF ExitMonitor
  <2> HIDE DEF t
  <2>3. Served(rtsys, rtsys') /\ WaitIn(rtsys', Both(monitorQ', eventQ))
    BY <1>1, <1>2, <2>1, <2>2, LeaveQueued
  <2> QED BY <1>1, <2>2, <2>3, CallKeeps
<1>4. CASE heldBy[x] # t
  <2>1. Abort /\ monitorQ' = monitorQ /\ eventQ' = eventQ
    BY <1>4 DEF ExitMonitor, monVars
  <2>2. IInv' /\ Parks(rtsys') = Parks(rtsys)
    BY <1>1, <2>1, AbortKeeps
  <2> QED BY <1>1, <2>1, <2>2, WaitersStay
<1> QED BY <1>3, <1>4

\* ttWait: the caller joins the queue of the event, and its monitor is left.
LEMMA WaitQueued ==
  ASSUME QueuedInv, NEW e \in Event, Wait(e)
  PROVE  IInv' /\ WaitIn(rtsys', Both(monitorQ', eventQ'))
<1> DEFINE t == Current
           x == EventMonitor[e]
           Q == Both(monitorQ, eventQ)
           R == Both(monitorQ, eventQ')
           s == Blocked(rtsys, t)
<1>1. /\ Calling("ttWait") /\ NotBlocked /\ t \in UserTask
      /\ "ttKillJob" \notin Primitives /\ IInv /\ WaitIn(rtsys, Q)
      /\ monitorQ \in [Monitor -> Seq(UserTask)] /\ eventQ \in [Event -> Seq(UserTask)]
      /\ x \in Monitor \cup {None} /\ None \notin Monitor
  BY MonitorAssumption DEF Wait, QueuedInv, MonInv, MonTypeOK, MonitorAssumption
<1>2. /\ Sound(rtsys, ActiveUsers(rtsys), {}) /\ t \in ActiveUsers(rtsys)
      /\ t \notin Parks(rtsys)
  BY <1>1, CallerFacts
<1>3. CASE x # None /\ heldBy[x] # t
  <2>1. Abort /\ monitorQ' = monitorQ /\ eventQ' = eventQ
    BY <1>3 DEF Wait, monVars
  <2>2. IInv' /\ Parks(rtsys') = Parks(rtsys)
    BY <1>1, <2>1, AbortKeeps
  <2> QED BY <1>1, <2>1, <2>2, WaitersStay
<1>4. CASE ~ (x # None /\ heldBy[x] # t)
  <2>1. eventQ' = [eventQ EXCEPT ![e] = Queued(@, t)] /\ UNCHANGED pc
    BY <1>4 DEF Wait
  <2>2. IF x = None THEN rtsys' = s /\ monitorQ' = monitorQ ELSE Leave(s, x, t)
    BY <1>4 DEF Wait
  <2> HIDE DEF t, Q, R, x
  <2>3. Served(rtsys, s) /\ Parks(s) = Parks(rtsys) \cup {t}
    BY <1>1, <1>2, BlockedFacts
  <2> HIDE DEF s
  <2>4. /\ DOMAIN R = DOMAIN Q /\ e \in DOMAIN Q /\ Q[e] \in Seq(UserTask)
        /\ \A y \in DOMAIN Q : y # e => R[y] = Q[y]
        /\ R[e] = Queued(Q[e], t)
    <3>1. \A y \in Event : y # e => eventQ'[y] = eventQ[y]
      BY <1>1, <2>1
    <3>2. eventQ'[e] = Queued(eventQ[e], t)
      BY <1>1, <2>1
    <3>3. DOMAIN R = Monitor \cup Event /\ DOMAIN Q = Monitor \cup Event
      BY BothFacts DEF Q, R
    <3>4. \A y \in Monitor : R[y] = monitorQ[y] /\ Q[y] = monitorQ[y]
      BY BothFacts DEF Q, R
    <3>5. \A y \in Event : R[y] = eventQ'[y] /\ Q[y] = eventQ[y]
      BY BothFacts DEF Q, R
    <3> QED BY <1>1, <3>1, <3>2, <3>3, <3>4, <3>5
  <2>5. WaitIn(s, R)
    BY <1>1, <1>2, <2>3, <2>4, WaiterQueued
  <2>6. CASE x = None
    <3>1. rtsys' = s /\ monitorQ' = monitorQ
      BY <2>2, <2>6
    <3> QED BY <1>1, <2>1, <2>3, <2>5, <3>1, CallKeeps DEF R
  <2>7. CASE x # None
    <3>1. eventQ' \in [Event -> Seq(UserTask)]
      <4>1. Queued(eventQ[e], t) \in Seq(UserTask)
        BY <1>1, QueuedFacts
      <4> QED BY <1>1, <2>1, <4>1
    <3>2. Leave(s, x, t) /\ x \in Monitor /\ WaitIn(s, Both(monitorQ, eventQ'))
      BY <1>1, <2>2, <2>5, <2>7 DEF R
    <3>3. Served(s, rtsys') /\ WaitIn(rtsys', Both(monitorQ', eventQ'))
      BY <1>1, <2>3, <3>1, <3>2, LeaveQueued DEF Served
    <3>4. Served(rtsys, rtsys')
      BY <2>3, <3>3, ServedTransitive
    <3> QED BY <1>1, <2>1, <3>3, <3>4, CallKeeps
  <2> QED BY <2>6, <2>7
<1> QED BY <1>3, <1>4

\* A task goes from one queue to another.
LEMMA WaiterMoves ==
  ASSUME NEW s, NEW Q, NEW R, WaitIn(s, Q), DOMAIN R = DOMAIN Q,
         NEW x \in DOMAIN Q, NEW y \in DOMAIN Q, x # y,
         Q[x] \in Seq(UserTask), Q[y] \in Seq(UserTask), Q[x] # << >>,
         \A z \in DOMAIN Q \ {x, y} : R[z] = Q[z],
         R[x] = Tail(Q[x]), R[y] = Queued(Q[y], Head(Q[x]))
  PROVE  WaitIn(s, R)
<1> DEFINE t == Head(Q[x])
           M == [z \in DOMAIN Q |-> IF z = x THEN Tail(Q[x]) ELSE Q[z]]
<1>1. Apart(Q) /\ Parks(s) = WaitingIn(Q) /\ NoDuplicates(Q[x]) /\ NoDuplicates(Q[y])
  BY DEF WaitIn, Apart
<1>2. t \in ToSet(Q[x]) /\ t \in UserTask
  BY HeadFacts
<1>3. /\ DOMAIN M = DOMAIN Q /\ M[x] = Tail(Q[x])
      /\ \A z \in DOMAIN Q : z # x => M[z] = Q[z]
  OBVIOUS
<1> HIDE DEF t, M
<1>4. NoDuplicates(M[x]) /\ ToSet(M[x]) = ToSet(Q[x]) \ {t}
  BY <1>1, <1>3, TailOnce DEF t
<1>5. WaitingIn(M) = WaitingIn(Q) \ {t} /\ Apart(M) /\ t \in WaitingIn(Q)
  BY <1>1, <1>2, <1>3, <1>4, LeaveQueue
<1>6. M[y] = Q[y] /\ t \notin ToSet(M[y])
  BY <1>3, <1>5 DEF WaitingIn
<1>7. NoDuplicates(R[y]) /\ ToSet(R[y]) = ToSet(M[y]) \cup {t}
  BY <1>1, <1>2, <1>6, QueuedOnce DEF t
<1>8. DOMAIN R = DOMAIN M /\ y \in DOMAIN M /\ \A z \in DOMAIN M : z # y => R[z] = M[z]
  BY <1>3
<1>9. WaitingIn(R) = WaitingIn(M) \cup {t} /\ Apart(R)
  BY <1>5, <1>7, <1>8, JoinQueue
<1> QED BY <1>1, <1>5, <1>9 DEF WaitIn

LEMMA NotifyQueued ==
  ASSUME QueuedInv, NEW e \in Event, Notify(e)
  PROVE  IInv' /\ WaitIn(rtsys', Both(monitorQ', eventQ'))
<1> DEFINE x == EventMonitor[e]
           t == Head(eventQ[e])
           Q == Both(monitorQ, eventQ)
           R == Both(monitorQ', eventQ')
<1>1. /\ Calling("ttNotify") /\ NotBlocked /\ UNCHANGED pc
      /\ "ttKillJob" \notin Primitives /\ IInv /\ WaitIn(rtsys, Q)
      /\ monitorQ \in [Monitor -> Seq(UserTask)] /\ eventQ \in [Event -> Seq(UserTask)]
      /\ x \in Monitor \cup {None}
  BY MonitorAssumption DEF Notify, QueuedInv, MonInv, MonTypeOK, MonitorAssumption
<1>2. Sound(rtsys, ActiveUsers(rtsys), {})
  BY <1>1, CallerFacts
<1>3. CASE eventQ[e] = << >>
  <2>1. rtsys' = rtsys /\ monitorQ' = monitorQ /\ eventQ' = eventQ
    BY <1>3 DEF Notify
  <2>2. Served(rtsys, rtsys')
    BY <1>2, <2>1 DEF Served, SameClock
  <2> QED BY <1>1, <2>1, <2>2, CallKeeps
<1>4. CASE eventQ[e] # << >>
  <2>1. eventQ' = [eventQ EXCEPT ![e] = Tail(@)]
    BY <1>4 DEF Notify
  <2>2. x = None => rtsys' = MakeReady(rtsys, t) /\ monitorQ' = monitorQ
    BY <1>4 DEF Notify
  <2>3. x # None => /\ rtsys' = [rtsys EXCEPT !.state[t] = "WAITING"]
                    /\ monitorQ' = [monitorQ EXCEPT ![x] = Queued(@, t)]
    BY <1>4 DEF Notify
  <2>4. DOMAIN R = Monitor \cup Event /\ DOMAIN Q = Monitor \cup Event
    BY BothFacts
  <2>5. \A y \in Monitor : R[y] = monitorQ'[y] /\ Q[y] = monitorQ[y] /\ y \notin Event
    BY BothFacts
  <2>6. \A y \in Event : R[y] = eventQ'[y] /\ Q[y] = eventQ[y]
    BY BothFacts
  <2>7. t = Head(Q[e]) /\ e \in DOMAIN Q /\ Q[e] \in Seq(UserTask) /\ Q[e] # << >>
    BY <1>1, <1>4, <2>4, <2>6
  <2>8. R[e] = Tail(Q[e]) /\ \A y \in Event : y # e => R[y] = Q[y]
    BY <1>1, <2>1, <2>6
  <2> HIDE DEF t, Q, R, x
  <2>9. t \in UserTask /\ t \in ActiveUsers(rtsys) /\ t \in Parks(rtsys)
    BY <1>1, <1>2, <2>7, HeadWaits
  <2>10. CASE x = None
    <3>1. Served(rtsys, rtsys') /\ Parks(rtsys') = Parks(rtsys) \ {t}
      BY <1>2, <2>2, <2>9, <2>10, MakeReadyFrees
    <3>2. DOMAIN R = DOMAIN Q /\ \A y \in DOMAIN Q : y # e => R[y] = Q[y]
      BY <2>2, <2>4, <2>5, <2>8, <2>10
    <3>3. /\ e \in DOMAIN Q /\ Q[e] \in Seq(UserTask) /\ Q[e] # << >> /\ R[e] = Tail(Q[e])
          /\ Parks(rtsys') = Parks(rtsys) \ {Head(Q[e])} /\ WaitIn(rtsys, Q)
      BY <1>1, <2>7, <2>8, <3>1
    <3>4. WaitIn(rtsys', R)
      BY <3>2, <3>3, WaiterLeaves
    <3> QED BY <1>1, <3>1, <3>4, CallKeeps DEF R
  <2>11. CASE x # None
    <3>1. rtsys' = rtsys
      <4>1. rtsys \in RTsysType /\ rtsys.state \in [Task -> State] /\ t \in Task
        BY <1>2, <2>9, RecordFields, TaskSorts DEF Sound
      <4>2. rtsys.state[t] = "WAITING"
        BY <2>9 DEF Parks, Parked, Waits
      <4>3. [rtsys.state EXCEPT ![t] = "WAITING"] = rtsys.state
        BY <4>1, <4>2
      <4>4. rtsys' = [rtsys EXCEPT !.state = rtsys.state]
        BY <2>3, <2>11, <4>3
      <4> QED BY <4>1, <4>4 DEF RTsysType
    <3>2. Served(rtsys, rtsys')
      BY <1>2, <3>1 DEF Served, SameClock
    <3>3. x \in Monitor /\ x # e /\ x \in DOMAIN Q /\ Q[x] \in Seq(UserTask)
      BY <1>1, <2>4, <2>5, <2>11
    <3>4. /\ R[x] = Queued(Q[x], Head(Q[e]))
          /\ \A y \in Monitor : y # x => R[y] = Q[y]
      BY <1>1, <2>3, <2>5, <2>7, <2>11, <3>3
    <3>5. DOMAIN R = DOMAIN Q /\ \A y \in DOMAIN Q \ {e, x} : R[y] = Q[y]
      BY <2>4, <2>8, <3>4
    <3>6. /\ e \in DOMAIN Q /\ Q[e] \in Seq(UserTask) /\ Q[e] # << >> /\ R[e] = Tail(Q[e])
          /\ R[x] = Queued(Q[x], Head(Q[e])) /\ WaitIn(rtsys, Q)
      BY <1>1, <2>7, <2>8, <3>4
    <3>7. WaitIn(rtsys, R)
      BY <3>3, <3>5, <3>6, WaiterMoves
    <3> QED BY <1>1, <3>1, <3>2, <3>7, CallKeeps DEF R
  <2> QED BY <2>10, <2>11
<1> QED BY <1>3, <1>4

\* Readying waiting tasks one by one releases them all.
LEMMA AllReadied ==
  ASSUME NEW s, Sound(s, ActiveUsers(s), {}), NEW q \in Seq(UserTask),
         ToSet(q) \subseteq Parks(s), NEW r, r = FoldLeft(MakeReady, s, q)
  PROVE  Served(s, r) /\ Parks(r) = Parks(s) \ ToSet(q)
<1>1. DOMAIN q = 1 .. Len(q) /\ Len(q) \in Nat
  BY LenProperties
<1>2. PICK a : StepByStep("ready", s, q, a, Len(q)) /\ a[Len(q)] = r
  BY <1>1, ReadiedOneByOne
<1> DEFINE Upto(k) == {q[i] : i \in 1 .. k}
           Good(k) == /\ Served(s, a[k]) /\ ActiveUsers(a[k]) = ActiveUsers(s)
                      /\ Parks(a[k]) = Parks(s) \ Upto(k)
           Fails == {k \in Nat : k <= Len(q) /\ ~ Good(k)}
<1>3. Good(0)
  <2>1. a[0] = s /\ Upto(0) = {}
    BY <1>2 DEF StepByStep
  <2> HIDE DEF Upto
  <2> QED BY <2>1 DEF Served, SameClock
<1>4. ASSUME NEW k \in 1 .. Len(q), Good(k - 1) PROVE Good(k)
  <2>1. a[k] = MakeReady(a[k - 1], q[k])
    BY <1>2 DEF StepByStep, NotifyOne
  <2>2. q[k] \in UserTask /\ q[k] \in ActiveUsers(s)
    <3>1. q[k] \in UserTask /\ q[k] \in ToSet(q)
      BY <1>1, ElementOfSeq DEF ToSet
    <3> QED BY <3>1, ParksActive
  <2>3. Upto(k) = Upto(k - 1) \cup {q[k]}
    <3>1. \A i : i \in 1 .. k <=> i \in 1 .. k - 1 \/ i = k
      BY <1>1
    <3> QED BY <3>1
  <2> HIDE DEF Upto
  <2>4. Sound(a[k - 1], ActiveUsers(a[k - 1]), {}) /\ q[k] \in ActiveUsers(a[k - 1])
    BY <1>4, <2>2 DEF Served
  <2>5. /\ Served(a[k - 1], a[k]) /\ ActiveUsers(a[k]) = ActiveUsers(a[k - 1])
        /\ Parks(a[k]) = Parks(a[k - 1]) \ {q[k]}
    BY <2>1, <2>2, <2>4, MakeReadyFrees
  <2> QED BY <1>4, <2>3, <2>5, ServedTransitive
<1> HIDE DEF Good
<1>5. Fails = {}
  <2> SUFFICES ASSUME Fails # {} PROVE FALSE
    OBVIOUS
  <2>1. PICK k \in Fails : \A j \in Fails : k <= j
    <3>1. Fails \in SUBSET Nat
      OBVIOUS
    <3> HIDE DEF Fails
    <3> QED BY <3>1, MinInSet
  <2>2. k \in Nat /\ k <= Len(q) /\ ~ Good(k) /\ k # 0
    BY <1>3, <2>1
  <2>3. k \in 1 .. Len(q) /\ k - 1 \in Nat /\ k - 1 <= Len(q) /\ ~ (k <= k - 1)
    BY <1>1, <2>2
  <2>4. Good(k - 1)
    BY <2>1, <2>3
  <2> QED BY <1>4, <2>2, <2>3, <2>4
<1>6. Good(Len(q))
  BY <1>1, <1>5
<1>7. Upto(Len(q)) = ToSet(q)
  BY <1>1 DEF ToSet
<1> QED BY <1>2, <1>6, <1>7 DEF Good

\* Inserting other tasks one by one into a queue adds them all.
LEMMA AllQueued ==
  ASSUME NEW b \in Seq(UserTask), NEW q \in Seq(UserTask), NEW r, r = FoldLeft(Queued, b, q)
  PROVE  /\ r \in Seq(UserTask)
         /\ NoDuplicates(b) /\ NoDuplicates(q) /\ ToSet(b) \cap ToSet(q) = {} =>
              NoDuplicates(r) /\ ToSet(r) = ToSet(b) \cup ToSet(q)
<1> DEFINE Apt == NoDuplicates(b) /\ NoDuplicates(q) /\ ToSet(b) \cap ToSet(q) = {}
<1>1. DOMAIN q = 1 .. Len(q) /\ Len(q) \in Nat
  BY LenProperties
<1>2. PICK a : StepByStep("queue", b, q, a, Len(q)) /\ a[Len(q)] = r
  BY <1>1, QueuedOneByOne
<1> DEFINE Upto(k) == {q[i] : i \in 1 .. k}
           Good(k) == /\ a[k] \in Seq(UserTask)
                      /\ Apt => NoDuplicates(a[k]) /\ ToSet(a[k]) = ToSet(b) \cup Upto(k)
           Fails == {k \in Nat : k <= Len(q) /\ ~ Good(k)}
<1>3. Good(0)
  <2>1. a[0] = b /\ Upto(0) = {}
    BY <1>2 DEF StepByStep
  <2> HIDE DEF Upto
  <2> QED BY <2>1
<1>4. ASSUME NEW k \in 1 .. Len(q), Good(k - 1) PROVE Good(k)
  <2>1. a[k] = Queued(a[k - 1], q[k])
    BY <1>2 DEF StepByStep, NotifyOne
  <2>2. q[k] \in UserTask /\ q[k] \in ToSet(q)
    BY <1>1, ElementOfSeq DEF ToSet
  <2>3. Upto(k) = Upto(k - 1) \cup {q[k]}
    <3>1. \A i : i \in 1 .. k <=> i \in 1 .. k - 1 \/ i = k
      BY <1>1
    <3> QED BY <3>1
  <2>4. Apt => q[k] \notin Upto(k - 1)
    <3>1. \A i \in 1 .. k - 1 : i \in 1 .. Len(q) /\ i # k
      BY <1>1
    <3> QED BY <3>1 DEF NoDuplicates
  <2> HIDE DEF Upto
  <2>5. a[k] \in Seq(UserTask)
    BY <1>4, <2>1, <2>2, QueuedFacts
  <2>6. ASSUME Apt PROVE NoDuplicates(a[k]) /\ ToSet(a[k]) = ToSet(b) \cup Upto(k)
    <3>1. /\ a[k - 1] \in Seq(UserTask) /\ NoDuplicates(a[k - 1])
          /\ ToSet(a[k - 1]) = ToSet(b) \cup Upto(k - 1)
      BY <1>4, <2>6
    <3>2. q[k] \notin ToSet(a[k - 1])
      BY <2>2, <2>4, <2>6, <3>1
    <3>3. NoDuplicates(a[k]) /\ ToSet(a[k]) = ToSet(a[k - 1]) \cup {q[k]}
      BY <2>1, <2>2, <3>1, <3>2, QueuedOnce
    <3> QED BY <2>3, <3>1, <3>3
  <2> QED BY <2>5, <2>6
<1> HIDE DEF Good
<1>5. Fails = {}
  <2> SUFFICES ASSUME Fails # {} PROVE FALSE
    OBVIOUS
  <2>1. PICK k \in Fails : \A j \in Fails : k <= j
    <3>1. Fails \in SUBSET Nat
      OBVIOUS
    <3> HIDE DEF Fails
    <3> QED BY <3>1, MinInSet
  <2>2. k \in Nat /\ k <= Len(q) /\ ~ Good(k) /\ k # 0
    BY <1>3, <2>1
  <2>3. k \in 1 .. Len(q) /\ k - 1 \in Nat /\ k - 1 <= Len(q) /\ ~ (k <= k - 1)
    BY <1>1, <2>2
  <2>4. Good(k - 1)
    BY <2>1, <2>3
  <2> QED BY <1>4, <2>2, <2>3, <2>4
<1>6. Good(Len(q))
  BY <1>1, <1>5
<1>7. Upto(Len(q)) = ToSet(q)
  BY <1>1 DEF ToSet
<1> QED BY <1>2, <1>6, <1>7 DEF Good

\* A queue is emptied.
LEMMA QueueEmptied ==
  ASSUME NEW s, NEW r, NEW Q, NEW R, WaitIn(s, Q), DOMAIN R = DOMAIN Q,
         NEW x \in DOMAIN Q, R[x] = << >>, \A y \in DOMAIN Q : y # x => R[y] = Q[y],
         Parks(r) = Parks(s) \ ToSet(Q[x])
  PROVE  WaitIn(r, R)
<1>1. Apart(Q) /\ Parks(s) = WaitingIn(Q)
  BY DEF WaitIn
<1>2. NoDuplicates(R[x]) /\ ToSet(R[x]) = {}
  BY DEF NoDuplicates, ToSet
<1>3. \A y \in DOMAIN Q : y # x => /\ ToSet(R[y]) = ToSet(Q[y]) /\ NoDuplicates(R[y])
                                   /\ ToSet(Q[y]) \cap ToSet(Q[x]) = {}
  BY <1>1 DEF Apart
<1>4. WaitingIn(R) = WaitingIn(Q) \ ToSet(Q[x])
  BY <1>2, <1>3 DEF WaitingIn
<1>5. \A y \in DOMAIN Q : NoDuplicates(R[y])
  BY <1>2, <1>3
<1>6. \A y, z \in DOMAIN Q : y # z => ToSet(R[y]) \cap ToSet(R[z]) = {}
  BY <1>1, <1>2, <1>3 DEF Apart
<1> QED BY <1>1, <1>4, <1>5, <1>6 DEF WaitIn, Apart

\* All tasks of a queue go to another.
LEMMA WaitersMove ==
  ASSUME NEW s, NEW Q, NEW R, WaitIn(s, Q), DOMAIN R = DOMAIN Q,
         NEW x \in DOMAIN Q, NEW y \in DOMAIN Q, x # y,
         Q[x] \in Seq(UserTask), Q[y] \in Seq(UserTask),
         \A z \in DOMAIN Q \ {x, y} : R[z] = Q[z],
         R[x] = << >>, R[y] = FoldLeft(Queued, Q[y], Q[x])
  PROVE  WaitIn(s, R)
<1>1. Apart(Q) /\ Parks(s) = WaitingIn(Q)
  BY DEF WaitIn
<1>2. NoDuplicates(R[x]) /\ ToSet(R[x]) = {}
  BY DEF NoDuplicates, ToSet
<1>3. NoDuplicates(Q[x]) /\ NoDuplicates(Q[y]) /\ ToSet(Q[y]) \cap ToSet(Q[x]) = {}
  BY <1>1 DEF Apart
<1>4. NoDuplicates(R[y]) /\ ToSet(R[y]) = ToSet(Q[y]) \cup ToSet(Q[x])
  BY <1>3, AllQueued
<1>5. \A z \in DOMAIN Q : z # x /\ z # y =>
        /\ ToSet(R[z]) = ToSet(Q[z]) /\ NoDuplicates(R[z])
        /\ ToSet(Q[z]) \cap ToSet(Q[x]) = {} /\ ToSet(Q[z]) \cap ToSet(Q[y]) = {}
  BY <1>1 DEF Apart
<1>6. WaitingIn(R) = WaitingIn(Q)
  BY <1>2, <1>4, <1>5 DEF WaitingIn
<1>7. \A z \in DOMAIN Q : NoDuplicates(R[z])
  BY <1>2, <1>4, <1>5
<1>8. \A z, u \in DOMAIN Q : z # u => ToSet(R[z]) \cap ToSet(R[u]) = {}
  BY <1>1, <1>2, <1>4, <1>5 DEF Apart
<1> QED BY <1>1, <1>6, <1>7, <1>8 DEF WaitIn, Apart

\* state = WAITING of parked tasks
AllWaiting(s, T) ==
  [s EXCEPT !.state = [t \in Task |-> IF t \in T THEN "WAITING" ELSE s.state[t]]]

LEMMA StillWaiting ==
  ASSUME NEW s, s \in RTsysType, NEW T, T \subseteq Parks(s)
  PROVE  AllWaiting(s, T) = s
<1> DEFINE st == [t \in Task |-> IF t \in T THEN "WAITING" ELSE s.state[t]]
<1>1. s.state \in [Task -> State]
  BY RecordFields
<1>2. \A t \in T : s.state[t] = "WAITING"
  BY DEF Parks, Parked, Waits
<1>3. st = s.state
  BY <1>1, <1>2
<1> HIDE DEF st
<1>4. AllWaiting(s, T) = [s EXCEPT !.state = s.state]
  BY <1>3 DEF st, AllWaiting
<1> QED BY <1>4 DEF RTsysType

LEMMA NotifyAllQueued ==
  ASSUME QueuedInv, NEW e \in Event, NotifyAll(e)
  PROVE  IInv' /\ WaitIn(rtsys', Both(monitorQ', eventQ'))
<1> DEFINE x == EventMonitor[e]
           ts == eventQ[e]
           Q == Both(monitorQ, eventQ)
           R == Both(monitorQ', eventQ')
<1>1. /\ Calling("ttNotifyAll") /\ NotBlocked /\ UNCHANGED pc
      /\ "ttKillJob" \notin Primitives /\ IInv /\ WaitIn(rtsys, Q)
      /\ monitorQ \in [Monitor -> Seq(UserTask)] /\ eventQ \in [Event -> Seq(UserTask)]
      /\ x \in Monitor \cup {None}
  BY MonitorAssumption DEF NotifyAll, QueuedInv, MonInv, MonTypeOK, MonitorAssumption
<1>2. Sound(rtsys, ActiveUsers(rtsys), {})
  BY <1>1, CallerFacts
<1>3. eventQ' = [eventQ EXCEPT ![e] = << >>]
  BY DEF NotifyAll
<1>4. x = None => rtsys' = FoldLeft(MakeReady, rtsys, ts) /\ monitorQ' = monitorQ
  BY DEF NotifyAll
<1>5. x # None =>
        /\ rtsys' = AllWaiting(rtsys, ToSet(ts))
        /\ monitorQ' = [monitorQ EXCEPT ![x] = FoldLeft(Queued, @, ts)]
  BY DEF NotifyAll, AllWaiting
<1>6. DOMAIN R = Monitor \cup Event /\ DOMAIN Q = Monitor \cup Event
  BY BothFacts
<1>7. \A y \in Monitor : R[y] = monitorQ'[y] /\ Q[y] = monitorQ[y] /\ y \notin Event
  BY BothFacts
<1>8. \A y \in Event : R[y] = eventQ'[y] /\ Q[y] = eventQ[y]
  BY BothFacts
<1>9. /\ e \in DOMAIN Q /\ Q[e] = ts /\ ts \in Seq(UserTask)
      /\ R[e] = << >> /\ \A y \in Event : y # e => R[y] = Q[y]
  BY <1>1, <1>3, <1>6, <1>8
<1> HIDE DEF ts, Q, R, x
<1>10. ToSet(ts) \subseteq Parks(rtsys)
  BY <1>1, <1>9 DEF WaitIn, WaitingIn
<1>11. CASE x = None
  <2>1. Served(rtsys, rtsys') /\ Parks(rtsys') = Parks(rtsys) \ ToSet(Q[e])
    BY <1>2, <1>4, <1>9, <1>10, <1>11, AllReadied
  <2>2. DOMAIN R = DOMAIN Q /\ \A y \in DOMAIN Q : y # e => R[y] = Q[y]
    BY <1>4, <1>6, <1>7, <1>9, <1>11
  <2>3. WaitIn(rtsys, Q) /\ e \in DOMAIN Q /\ R[e] = << >>
    BY <1>1, <1>9
  <2>4. WaitIn(rtsys', R)
    BY <2>1, <2>2, <2>3, QueueEmptied
  <2> QED BY <1>1, <2>1, <2>4, CallKeeps DEF R
<1>12. CASE x # None
  <2>1. rtsys' = rtsys
    <3>1. rtsys \in RTsysType /\ rtsys' = AllWaiting(rtsys, ToSet(ts))
      BY <1>2, <1>5, <1>12 DEF Sound
    <3> QED BY <1>10, <3>1, StillWaiting
  <2>2. Served(rtsys, rtsys')
    BY <1>2, <2>1 DEF Served, SameClock
  <2>3. x \in Monitor /\ x # e /\ x \in DOMAIN Q /\ Q[x] \in Seq(UserTask)
    BY <1>1, <1>6, <1>7, <1>12
  <2>4. R[x] = FoldLeft(Queued, Q[x], Q[e]) /\ \A y \in Monitor : y # x => R[y] = Q[y]
    BY <1>1, <1>5, <1>7, <1>9, <1>12, <2>3
  <2>5. DOMAIN R = DOMAIN Q /\ \A y \in DOMAIN Q \ {e, x} : R[y] = Q[y]
    BY <1>6, <1>9, <2>4
  <2>6. WaitIn(rtsys, Q) /\ e \in DOMAIN Q /\ Q[e] \in Seq(UserTask) /\ R[e] = << >>
    BY <1>1, <1>9
  <2>7. WaitIn(rtsys, R)
    BY <2>3, <2>4, <2>5, <2>6, WaitersMove
  <2> QED BY <1>1, <2>1, <2>2, <2>7, CallKeeps DEF R
<1> QED BY <1>11, <1>12

\* ttNotifyAll leaves nobody in the queue of a monitor that is not held.
LEMMA NotifyAllStep ==
  ASSUME MonInv, NEW e \in Event, NotifyAll(e)
  PROVE  MonInv'
<1> DEFINE x == EventMonitor[e]
           q == FoldLeft(Queued, monitorQ[x], eventQ[e])
<1>1. heldBy' = heldBy /\ x \in Monitor \cup {None}
  BY MonitorAssumption DEF NotifyAll, MonitorAssumption
<1>2. eventQ' \in [Event -> Seq(UserTask)]
  <2>1. eventQ' = [eventQ EXCEPT ![e] = << >>] /\ << >> \in Seq(UserTask)
    BY DEF NotifyAll
  <2> QED BY <2>1 DEF MonInv, MonTypeOK
<1>3. CASE x = None
  <2>1. monitorQ' = monitorQ
    BY <1>3 DEF NotifyAll
  <2> QED BY <1>1, <1>2, <2>1 DEF MonInv, MonTypeOK, WaitersHaveHolder
<1>4. CASE x # None
  <2>1. monitorQ' = [monitorQ EXCEPT ![x] = q]
    BY <1>4 DEF NotifyAll
  <2>2. Current \in UserTask /\ heldBy[x] = Current
    BY <1>4 DEF NotifyAll, MayNotify
  <2>3. heldBy[x] # None
    BY <2>2, TasksAssumption DEF TasksAssumption, Task
  <2>4. x \in Monitor
    BY <1>1, <1>4
  <2>5. q \in Seq(UserTask)
    BY <2>4, AllQueued DEF MonInv, MonTypeOK
  <2> HIDE DEF q
  <2> QED BY <1>1, <1>2, <2>1, <2>3, <2>4, <2>5 DEF MonInv, MonTypeOK, WaitersHaveHolder
<1> QED BY <1>3, <1>4

LEMMA MonInvStep ==
  ASSUME MonInv, [MonNext]_<<vars, monVars>>
  PROVE  MonInv'
<1>1. CASE UNCHANGED monVars
  BY <1>1 DEF monVars, MonInv, MonTypeOK, WaitersHaveHolder
<1>2. ASSUME NEW x \in Monitor, EnterMonitor(x) PROVE MonInv'
  BY <1>2, EnterStep
<1>3. ASSUME NEW x \in Monitor, ExitMonitor(x) PROVE MonInv'
  <2>1. CASE heldBy[x] = Current
    <3>1. Leave(rtsys, x, Current) /\ eventQ' = eventQ
      BY <1>3, <2>1 DEF ExitMonitor
    <3> QED BY <3>1, LeaveStep DEF MonInv, MonTypeOK
  <2>2. CASE heldBy[x] # Current
    BY <1>1, <1>3, <2>2 DEF ExitMonitor
  <2> QED BY <2>1, <2>2
<1>4. ASSUME NEW e \in Event, Wait(e) PROVE MonInv'
  BY <1>4, WaitStep
<1>5. ASSUME NEW e \in Event, Notify(e) PROVE MonInv'
  BY <1>5, NotifyStep
<1>6. ASSUME NEW e \in Event, NotifyAll(e) PROVE MonInv'
  BY <1>6, NotifyAllStep
<1> QED BY <1>1, <1>2, <1>3, <1>4, <1>5, <1>6 DEF MonNext

LEMMA QueuedStep ==
  ASSUME QueuedInv, [MonNext]_<<vars, monVars>>
  PROVE  QueuedInv'
<1>1. MonInv'
  BY MonInvStep DEF QueuedInv
<1>2. "ttKillJob" \notin Primitives /\ IInv /\ WaitIn(rtsys, Both(monitorQ, eventQ))
  BY MonitorAssumption DEF MonitorAssumption, QueuedInv
<1>3. CASE (OtherStep \/ UNCHANGED vars) /\ UNCHANGED monVars
  <2>1. IInv' /\ Parks(rtsys') = Parks(rtsys) /\ monitorQ' = monitorQ /\ eventQ' = eventQ
    BY <1>2, <1>3, OtherSteps DEF monVars
  <2>2. WaitIn(rtsys', Both(monitorQ', eventQ'))
    BY <1>2, <2>1, WaitersStay
  <2> QED BY <1>1, <2>1, <2>2 DEF QueuedInv
<1>4. ASSUME NEW x \in Monitor, EnterMonitor(x) \/ ExitMonitor(x) PROVE QueuedInv'
  BY <1>1, <1>4, EnterQueued, ExitQueued DEF QueuedInv
<1>5. ASSUME NEW e \in Event, Wait(e) \/ Notify(e) \/ NotifyAll(e) PROVE QueuedInv'
  BY <1>1, <1>5, WaitQueued, NotifyQueued, NotifyAllQueued DEF QueuedInv
<1> QED BY <1>1, <1>3, <1>4, <1>5 DEF MonNext

LEMMA MonInitial ==
  ASSUME MonInit
  PROVE  MonInv /\ QueuedInv
<1>1. MonInv
  BY DEF MonInit, MonInv, MonTypeOK, WaitersHaveHolder
<1> DEFINE Q == Both(monitorQ, eventQ)
<1>2. Init /\ \A x \in DOMAIN Q : Q[x] = << >>
  BY BothFacts DEF MonInit
<1> HIDE DEF Q
<1>3. IInv /\ WaitIn(rtsys, Q)
  BY <1>2, NobodyWaitsAtFirst
<1> QED BY <1>1, <1>3 DEF QueuedInv, Q

-----------------------------------------------------------------------------
(***************************************************************************)
(* Priority inheritance.  Every queue of a monitor is sorted by the keys   *)
(* of its tasks, those who wait hold no monitor and have inherited         *)
(* nothing, and the holder has inherited what it takes.                    *)
(***************************************************************************)
\* By which key the default priority functions compare tasks, but for EDF.
OwnKey == [t \in UserTask |-> IF Policy = "FP" THEN Priority[t] ELSE Deadline[t]]

\* the priority that a task runs at
Key(s, t) == IF s.tempPrio[t] = None THEN OwnKey[t] ELSE s.tempPrio[t]

\* Unless EDF compares absolute deadlines, the key of a task never changes.
LEMMA KeyFacts ==
  ASSUME Policy # "EDF"
  PROVE  /\ OwnKey \in [UserTask -> Int]
         /\ \A s, t : t \in UserTask => OwnPrio(s, t) = OwnKey[t] /\ Prio(s, t) = Key(s, t)
<1>1. Policy \in {"FP", "DM"} /\ Priority \in [Task -> Int] /\ Deadline \in [UserTask -> Int]
  BY AttributesAssumption DEF AttributesAssumption
<1>2. OwnKey \in [UserTask -> Int]
  BY <1>1, TaskSorts DEF OwnKey
<1>3. ASSUME NEW s, NEW t \in UserTask PROVE OwnPrio(s, t) = OwnKey[t]
  BY <1>1 DEF OwnPrio, OwnKey
<1> QED BY <1>2, <1>3 DEF Prio, Key

\* A task that inherits nothing and is not running keeps its place.
Idles(t) == rtsys.tempPrio[t] = None /\ t # rtsys.runningUser[rtsys.currentCPU]

\* A task joins a queue of idle ones where its key belongs,
LEMMA QueuedInOrder ==
  ASSUME Policy # "EDF", NEW q \in Seq(UserTask), InOrder(OwnKey, q), NEW t \in UserTask,
         rtsys.tempPrio[t] = None, \A u \in ToSet(q) : Idles(u)
  PROVE  InOrder(OwnKey, Queued(q, t))
<1> DEFINE Stays == {i \in 1 .. Len(q) : ~ PrioCmp(rtsys, t, q[i])}
           Light == {i \in 1 .. Len(q) : ~ (OwnKey[t] < OwnKey[q[i]])}
           k == 1 + Max({0} \cup Light)
<1>1. Queued(q, t) = InsertAt(q, 1 + Max({0} \cup Stays), t)
  BY DEF Queued, InsertSorted
<1>2. ASSUME NEW i \in 1 .. Len(q)
      PROVE  PrioCmp(rtsys, t, q[i]) <=> OwnKey[t] < OwnKey[q[i]]
  <2>1. q[i] \in UserTask /\ q[i] \in ToSet(q)
    BY ElementOfSeq, LenProperties DEF ToSet
  <2>2. Prio(rtsys, t) = OwnKey[t] /\ Prio(rtsys, q[i]) = OwnKey[q[i]]
    BY <2>1, KeyFacts DEF Key, Idles
  <2> QED BY <2>1, <2>2, TaskSorts DEF PrioCmp, Idles
<1>3. Stays = Light
  BY <1>2
<1>4. k = 1 + Max({0} \cup Light)
  OBVIOUS
<1>5. Queued(q, t) = InsertAt(q, k, t)
  <2> HIDE DEF Stays, Light
  <2> QED BY <1>1, <1>3
<1> HIDE DEF k
<1>6. InOrder(OwnKey, InsertAt(q, k, t))
  BY <1>4, KeyFacts, InsertInOrder
<1> QED BY <1>5, <1>6

\* and so do the tasks of a whole queue, one after the other.
LEMMA AllQueuedInOrder ==
  ASSUME Policy # "EDF", NEW b \in Seq(UserTask), NEW q \in Seq(UserTask),
         NoDuplicates(b), NoDuplicates(q), ToSet(b) \cap ToSet(q) = {},
         InOrder(OwnKey, b), \A u \in ToSet(b) \cup ToSet(q) : Idles(u),
         NEW r, r = FoldLeft(Queued, b, q)
  PROVE  InOrder(OwnKey, r)
<1>1. DOMAIN q = 1 .. Len(q) /\ Len(q) \in Nat
  BY LenProperties
<1>2. PICK a : StepByStep("queue", b, q, a, Len(q)) /\ a[Len(q)] = r
  BY <1>1, QueuedOneByOne
<1> DEFINE Upto(k) == {q[i] : i \in 1 .. k}
           Good(k) == /\ a[k] \in Seq(UserTask) /\ NoDuplicates(a[k])
                      /\ ToSet(a[k]) = ToSet(b) \cup Upto(k) /\ InOrder(OwnKey, a[k])
           Fails == {k \in Nat : k <= Len(q) /\ ~ Good(k)}
<1>3. Good(0)
  <2>1. a[0] = b /\ Upto(0) = {}
    BY <1>2 DEF StepByStep
  <2> HIDE DEF Upto
  <2> QED BY <2>1
<1>4. ASSUME NEW k \in 1 .. Len(q), Good(k - 1) PROVE Good(k)
  <2>1. a[k] = Queued(a[k - 1], q[k])
    BY <1>2 DEF StepByStep, NotifyOne
  <2>2. q[k] \in UserTask /\ q[k] \in ToSet(q)
    BY <1>1, ElementOfSeq DEF ToSet
  <2>3. Upto(k) = Upto(k - 1) \cup {q[k]}
    <3>1. \A i : i \in 1 .. k <=> i \in 1 .. k - 1 \/ i = k
      BY <1>1
    <3> QED BY <3>1
  <2>4. q[k] \notin Upto(k - 1) /\ Upto(k - 1) \subseteq ToSet(q)
    <3>1. \A i \in 1 .. k - 1 : i \in 1 .. Len(q) /\ i # k
      BY <1>1
    <3> QED BY <1>1, <3>1 DEF NoDuplicates, ToSet
  <2> HIDE DEF Upto
  <2>5. q[k] \notin ToSet(a[k - 1])
    BY <1>4, <2>2, <2>4
  <2>6. /\ NoDuplicates(a[k]) /\ ToSet(a[k]) = ToSet(a[k - 1]) \cup {q[k]}
        /\ a[k] \in Seq(UserTask)
    BY <1>4, <2>1, <2>2, <2>5, QueuedOnce
  <2>7. (\A u \in ToSet(a[k - 1]) : Idles(u)) /\ rtsys.tempPrio[q[k]] = None
    BY <1>4, <2>2, <2>4 DEF Idles
  <2>8. InOrder(OwnKey, a[k])
    BY <1>4, <2>1, <2>2, <2>7, QueuedInOrder
  <2> QED BY <1>4, <2>3, <2>6, <2>8
<1> HIDE DEF Good
<1>5. Fails = {}
  <2> SUFFICES ASSUME Fails # {} PROVE FALSE
    OBVIOUS
  <2>1. PICK k \in Fails : \A j \in Fails : k <= j
    <3>1. Fails \in SUBSET Nat
      OBVIOUS
    <3> HIDE DEF Fails
    <3> QED BY <3>1, MinInSet
  <2>2. k \in Nat /\ k <= Len(q) /\ ~ Good(k) /\ k # 0
    BY <1>3, <2>1
  <2>3. k \in 1 .. Len(q) /\ k - 1 \in Nat /\ k - 1 <= Len(q) /\ ~ (k <= k - 1)
    BY <1>1, <2>2
  <2>4. Good(k - 1)
    BY <2>1, <2>3
  <2> QED BY <1>4, <2>2, <2>3, <2>4
<1>6. Good(Len(q))
  BY <1>1, <1>5
<1> QED BY <1>2, <1>6 DEF Good

\* ttNotifyAll of a free event gives nobody a priority.
LEMMA AllReadiedLeaves ==
  ASSUME NEW s, NEW q \in Seq(UserTask), NEW r, r = FoldLeft(MakeReady, s, q)
  PROVE  Undisturbed(s, r)
<1>1. DOMAIN q = 1 .. Len(q) /\ Len(q) \in Nat
  BY LenProperties
<1>2. PICK a : StepByStep("ready", s, q, a, Len(q)) /\ a[Len(q)] = r
  BY <1>1, ReadiedOneByOne
<1> DEFINE Good(k) == Undisturbed(s, a[k])
           Fails == {k \in Nat : k <= Len(q) /\ ~ Good(k)}
<1>3. Good(0)
  BY <1>2, UndisturbedReflexive DEF StepByStep
<1>4. ASSUME NEW k \in 1 .. Len(q), Good(k - 1) PROVE Good(k)
  <2>1. a[k] = MakeReady(a[k - 1], q[k])
    BY <1>2 DEF StepByStep, NotifyOne
  <2> QED BY <1>4, <2>1, MakeReadyLeaves, UndisturbedTransitive
<1> HIDE DEF Good
<1>5. Fails = {}
  <2> SUFFICES ASSUME Fails # {} PROVE FALSE
    OBVIOUS
  <2>1. PICK k \in Fails : \A j \in Fails : k <= j
    <3>1. Fails \in SUBSET Nat
      OBVIOUS
    <3> HIDE DEF Fails
    <3> QED BY <3>1, MinInSet
  <2>2. k \in Nat /\ k <= Len(q) /\ ~ Good(k) /\ k # 0
    BY <1>3, <2>1
  <2>3. k \in 1 .. Len(q) /\ k - 1 \in Nat /\ k - 1 <= Len(q) /\ ~ (k <= k - 1)
    BY <1>1, <2>2
  <2>4. Good(k - 1)
    BY <2>1, <2>3
  <2> QED BY <1>4, <2>2, <2>3, <2>4
<1>6. Good(Len(q))
  BY <1>1, <1>5
<1> QED BY <1>2, <1>6 DEF Good

\* A task that blocks keeps its priority and those of others.
LEMMA BlockedLeaves ==
  ASSUME NEW s, NEW t
  PROVE  Undisturbed(s, Blocked(s, t))
<1> DEFINE u == Unlink(s, t)
           a == [u EXCEPT !.state[t] = "WAITING"]
<1>1. Blocked(s, t) = SuspendHook(a, t)
  BY DEF Blocked
<1>2. Undisturbed(s, u)
  BY UnlinkLeaves
<1> HIDE DEF u
<1>3. Undisturbed(u, a)
  BY DEF Undisturbed, HasCPUs
<1> HIDE DEF a
<1>4. Undisturbed(a, SuspendHook(a, t))
  BY HooksLeave
<1> QED BY <1>1, <1>2, <1>3, <1>4, UndisturbedTransitive

\* prioRaised and tempPrio of one task change, and no task on a CPU.
Reprioritised(s, r, t, p) ==
  /\ HasCPUs(r) /\ r.running = s.running /\ r.runningUser = s.runningUser
  /\ r.tempPrio = [s.tempPrio EXCEPT ![t] = p]

\* A task gets a priority and its place in the ready queue.
LEMMA ReprioritisedFacts ==
  ASSUME NEW s, HasCPUs(s), NEW t, NEW p
  PROVE  Reprioritised(s, Reshuffled([s EXCEPT !.tempPrio[t] = p], t), t, p)
<1> DEFINE d == [s EXCEPT !.tempPrio[t] = p]
           r == Reshuffled(d, t)
<1>1. Reprioritised(s, d, t, p)
  BY DEF Reprioritised, HasCPUs
<1> HIDE DEF d
<1>2. Undisturbed(d, r)
  BY MakeReadyLeaves, UndisturbedReflexive DEF Reshuffled
<1> HIDE DEF r
<1>3. Reprioritised(s, r, t, p)
  BY <1>1, <1>2 DEF Undisturbed, Reprioritised
<1> QED BY <1>3 DEF d, r

\* ttEnterMonitor: the holder inherits.
LEMMA InheritPrio ==
  ASSUME NEW s, HasCPUs(s), NEW holder, NEW t, NEW r, r = Inherit(s, holder, t)
  PROVE  IF Prio(s, holder) > OwnPrio(s, t)
         THEN Reprioritised(s, r, holder, OwnPrio(s, t)) ELSE r = s
<1>1. CASE Prio(s, holder) > OwnPrio(s, t)
  BY <1>1, ReprioritisedFacts DEF Inherit
<1>2. CASE ~ (Prio(s, holder) > OwnPrio(s, t))
  BY <1>2 DEF Inherit
<1> QED BY <1>1, <1>2

\* ttExitMonitor: the task that leaves is back at its own priority.
LEMMA LeavePrio ==
  ASSUME NEW s, HasCPUs(s), NEW x, NEW t, Leave(s, x, t)
  PROVE  Reprioritised(s, rtsys', t, None)
<1> DEFINE r == Reshuffled([s EXCEPT !.tempPrio[t] = None], t)
           heir == First(monitorQ[x])
<1>1. rtsys' = r \/ rtsys' = MakeReady(r, heir)
  BY DEF Leave
<1>2. Reprioritised(s, r, t, None)
  BY ReprioritisedFacts
<1> HIDE DEF r, heir
<1>3. Undisturbed(r, MakeReady(r, heir))
  BY MakeReadyLeaves
<1> QED BY <1>1, <1>2, <1>3 DEF Undisturbed, Reprioritised

HoldsNone(t) == \A x \in Monitor : heldBy[x] # t

\* No task holds two monitors, and those that wait for one hold none.
OneHeld ==
  /\ \A x, y \in Monitor : x # y /\ heldBy[x] # None => heldBy[x] # heldBy[y]
  /\ \A x \in Monitor : \A t \in ToSet(monitorQ[x]) : HoldsNone(t)
  /\ \A e \in Event : EventMonitor[e] # None => \A t \in ToSet(eventQ[e]) : HoldsNone(t)

\* HolderInherits, in terms of the keys
KeysInherited ==
  /\ \A x \in Monitor : \A t \in ToSet(monitorQ[x]) \ notified :
       Key(rtsys, heldBy[x]) <= OwnKey[t]
  /\ \A t \in UserTask : rtsys.tempPrio[t] # None => ~ HoldsNone(t)

MonitorsInOrder == \A x \in Monitor : InOrder(OwnKey, monitorQ[x])

Inheritance == UsersRun(rtsys) /\ OneHeld /\ MonitorsInOrder /\ KeysInherited

InheritInv == QueuedInv /\ Inheritance

\* What a caller finds.
LEMMA InheritInvFacts ==
  ASSUME InheritInv
  PROVE  /\ rtsys \in RTsysType /\ HasCPUs(rtsys)
         /\ rtsys.tempPrio \in [UserTask -> Int \cup {None}]
         /\ Sound(rtsys, ActiveUsers(rtsys), {}) /\ IInv /\ WaitersHaveHolder
         /\ heldBy \in [Monitor -> UserTask \cup {None}]
         /\ monitorQ \in [Monitor -> Seq(UserTask)] /\ eventQ \in [Event -> Seq(UserTask)]
         /\ \A x \in Monitor : /\ ToSet(monitorQ[x]) \subseteq Parks(rtsys)
                               /\ NoDuplicates(monitorQ[x])
         /\ \A e \in Event : /\ ToSet(eventQ[e]) \subseteq Parks(rtsys)
                             /\ NoDuplicates(eventQ[e])
         /\ \A x \in Monitor, e \in Event : ToSet(monitorQ[x]) \cap ToSet(eventQ[e]) = {}
         /\ None \notin UserTask /\ None \notin Int /\ Parks(rtsys) \subseteq UserTask
<1>1. IInv /\ MonInv /\ WaitIn(rtsys, Both(monitorQ, eventQ))
  BY DEF InheritInv, QueuedInv
<1>2. rtsys \in RTsysType /\ Sound(rtsys, ActiveUsers(rtsys), {})
  BY <1>1, IInvFacts
<1>3. HasCPUs(rtsys) /\ rtsys.tempPrio \in [UserTask -> Int \cup {None}]
  BY <1>2 DEF RTsysType, HasCPUs
<1>4. \A x \in Monitor : /\ ToSet(monitorQ[x]) \subseteq Parks(rtsys)
                         /\ NoDuplicates(monitorQ[x])
  BY <1>1, BothFacts DEF WaitIn, WaitingIn, Apart
<1>5. \A e \in Event : ToSet(eventQ[e]) \subseteq Parks(rtsys) /\ NoDuplicates(eventQ[e])
  BY <1>1, BothFacts DEF WaitIn, WaitingIn, Apart
<1>6. ASSUME NEW x \in Monitor, NEW e \in Event
      PROVE  ToSet(monitorQ[x]) \cap ToSet(eventQ[e]) = {}
  <2> DEFINE Q == Both(monitorQ, eventQ)
  <2>1. /\ x \in DOMAIN Q /\ e \in DOMAIN Q /\ x # e
        /\ Q[x] = monitorQ[x] /\ Q[e] = eventQ[e]
    BY BothFacts
  <2>2. Apart(Q)
    BY <1>1 DEF WaitIn
  <2> HIDE DEF Q
  <2> QED BY <2>1, <2>2 DEF Apart
<1>7. None \notin UserTask /\ None \notin Int /\ Parks(rtsys) \subseteq UserTask
  BY TaskSorts, MonitorAssumption DEF MonitorAssumption, Parks
<1> QED BY <1>1, <1>2, <1>3, <1>4, <1>5, <1>6, <1>7 DEF MonInv, MonTypeOK

\* Whoever waits is idle while another task calls.
LEMMA CallerIdles ==
  ASSUME InheritInv, NEW primitive, Calling(primitive), NotBlocked, Current \in UserTask
  PROVE  /\ rtsys.runningUser[rtsys.currentCPU] = Current /\ Current \notin Parks(rtsys)
         /\ \A x \in Monitor : \A t \in ToSet(monitorQ[x]) : Idles(t)
         /\ \A e \in Event : EventMonitor[e] # None =>
              \A t \in ToSet(eventQ[e]) : Idles(t)
<1>1. /\ "ttKillJob" \notin Primitives /\ IInv /\ rtsys.currentCPU \in CPU
      /\ Current \notin Parks(rtsys)
  BY MonitorAssumption, InheritInvFacts, IInvFacts, CallerFacts DEF MonitorAssumption
<1>2. rtsys.runningUser[rtsys.currentCPU] = Current
  BY <1>1 DEF InheritInv, Inheritance, UsersRun, Current
<1>3. ASSUME NEW t \in Parks(rtsys), HoldsNone(t) PROVE Idles(t)
  <2>1. t \in UserTask /\ t # Current
    BY <1>1, InheritInvFacts
  <2>2. rtsys.tempPrio[t] = None
    BY <1>3, <2>1 DEF InheritInv, Inheritance, KeysInherited
  <2> QED BY <1>2, <2>1, <2>2 DEF Idles
<1>4. \A x \in Monitor : \A t \in ToSet(monitorQ[x]) : t \in Parks(rtsys) /\ HoldsNone(t)
  BY InheritInvFacts DEF InheritInv, Inheritance, OneHeld
<1>5. \A e \in Event : EventMonitor[e] # None =>
        \A t \in ToSet(eventQ[e]) : t \in Parks(rtsys) /\ HoldsNone(t)
  BY InheritInvFacts DEF InheritInv, Inheritance, OneHeld
<1> QED BY <1>1, <1>2, <1>3, <1>4, <1>5

\* The keys of tasks tell about their priorities.
LEMMA KeysFromPrios ==
  ASSUME Policy # "EDF", InheritInv
  PROVE  HolderInherits
<1>1. ASSUME NEW x \in Monitor, NEW t \in ToSet(monitorQ[x]) \ notified
      PROVE  Prio(rtsys, heldBy[x]) <= OwnPrio(rtsys, t)
  <2>1. t \in UserTask
    BY InheritInvFacts
  <2>2. heldBy[x] \in UserTask
    <3>1. monitorQ[x] # << >>
      BY <1>1 DEF ToSet
    <3> QED BY <3>1, InheritInvFacts DEF WaitersHaveHolder
  <2>3. Key(rtsys, heldBy[x]) <= OwnKey[t]
    BY <1>1 DEF InheritInv, Inheritance, KeysInherited
  <2> QED BY <2>1, <2>2, <2>3, KeyFacts
<1>2. ASSUME NEW t \in UserTask, rtsys.tempPrio[t] # None PROVE \E x \in Monitor : heldBy[x] = t
  BY <1>2 DEF InheritInv, Inheritance, KeysInherited, HoldsNone
<1> QED BY <1>1, <1>2 DEF HolderInherits

\* The CPUs run what they ran.
LEMMA ReprioritisedRuns ==
  ASSUME NEW s, NEW r, UsersRun(s), r.running = s.running, r.runningUser = s.runningUser
  PROVE  UsersRun(r)
BY DEF UsersRun

\* ttEnterMonitor
LEMMA EnterInherits ==
  ASSUME Policy # "EDF", InheritInv, NEW x \in Monitor, EnterMonitor(x)
  PROVE  Inheritance'
<1> DEFINE t == Current
           s == Blocked(rtsys, t)
           h == heldBy[x]
<1>1. /\ Calling("ttEnterMonitor") /\ NotBlocked /\ t \in UserTask /\ HoldsNone(t)
      /\ eventQ' = eventQ /\ notified' = notified
  BY DEF EnterMonitor, HoldsNone
<1>2. /\ t \notin Parks(rtsys) /\ rtsys.tempPrio[t] = None
      /\ UsersRun(rtsys) /\ OneHeld /\ MonitorsInOrder /\ KeysInherited
  <2>1. UsersRun(rtsys) /\ OneHeld /\ MonitorsInOrder /\ KeysInherited
    BY DEF InheritInv, Inheritance
  <2>2. rtsys.tempPrio[t] = None
    BY <1>1, <2>1 DEF KeysInherited
  <2> QED BY <1>1, <2>1, <2>2, CallerIdles
<1>3. CASE h = None
  <2>1. heldBy' = [heldBy EXCEPT ![x] = t] /\ rtsys' = rtsys /\ monitorQ' = monitorQ
    BY <1>3 DEF EnterMonitor
  <2>2. monitorQ[x] = << >> /\ ToSet(<< >>) = {}
    BY <1>3, InheritInvFacts DEF WaitersHaveHolder, ToSet
  <2>3. \A y \in Monitor : heldBy'[y] = IF y = x THEN t ELSE heldBy[y]
    BY <2>1, InheritInvFacts
  <2>4. \A y \in Monitor : t \notin ToSet(monitorQ[y])
    BY <1>2, InheritInvFacts
  <2>5. \A e \in Event : t \notin ToSet(eventQ[e])
    BY <1>2, InheritInvFacts
  <2>6. \A u : u # t /\ HoldsNone(u) => \A y \in Monitor : heldBy'[y] # u
    BY <2>3 DEF HoldsNone
  <2> HIDE DEF t
  <2>7. OneHeld'
    <3>1. \A y, z \in Monitor : y # z /\ heldBy'[y] # None => heldBy'[y] # heldBy'[z]
      BY <1>1, <1>2, <2>3 DEF OneHeld, HoldsNone
    <3>2. \A y \in Monitor : \A u \in ToSet(monitorQ'[y]) : HoldsNone(u)'
      BY <1>2, <2>1, <2>4, <2>6 DEF OneHeld, HoldsNone
    <3>3. \A e \in Event : EventMonitor[e] # None => \A u \in ToSet(eventQ'[e]) : HoldsNone(u)'
      BY <1>1, <1>2, <2>5, <2>6 DEF OneHeld, HoldsNone
    <3> QED BY <3>1, <3>2, <3>3 DEF OneHeld
  <2>8. KeysInherited'
    <3>1. ASSUME NEW y \in Monitor, NEW u \in ToSet(monitorQ'[y]) \ notified'
          PROVE  Key(rtsys', heldBy'[y]) <= OwnKey[u]
      <4>1. y # x
        BY <2>1, <2>2, <3>1
      <4> QED BY <1>1, <1>2, <2>1, <2>3, <3>1, <4>1 DEF KeysInherited
    <3>2. ASSUME NEW u \in UserTask, rtsys'.tempPrio[u] # None PROVE ~ HoldsNone(u)'
      <4>1. PICK y \in Monitor : heldBy[y] = u
        BY <1>2, <2>1, <3>2 DEF KeysInherited, HoldsNone
      <4>2. y # x
        BY <1>3, <3>2, <4>1, InheritInvFacts
      <4> QED BY <2>3, <4>1, <4>2 DEF HoldsNone
    <3> QED BY <3>1, <3>2 DEF KeysInherited
  <2> QED BY <1>2, <2>1, <2>7, <2>8 DEF Inheritance, MonitorsInOrder
<1>4. CASE h # None
  <2> DEFINE p == OwnPrio(s, t)
             q == Queued(monitorQ[x], t)
  <2>1. rtsys' = Inherit(s, h, t) /\ monitorQ' = [monitorQ EXCEPT ![x] = q] /\ heldBy' = heldBy
    BY <1>4 DEF EnterMonitor
  <2>2. h \in UserTask /\ h # t
    BY <1>1, <1>4, InheritInvFacts DEF HoldsNone
  <2>3. /\ HasCPUs(s) /\ s.tempPrio = rtsys.tempPrio /\ s.running = rtsys.running
        /\ s.runningUser = rtsys.runningUser
    BY InheritInvFacts, BlockedLeaves DEF Undisturbed
  <2>4. /\ IF Key(rtsys, h) > OwnKey[t] THEN Reprioritised(s, rtsys', h, OwnKey[t])
           ELSE rtsys' = s
    <3>1. Prio(s, h) = Key(rtsys, h) /\ OwnPrio(s, t) = OwnKey[t]
      BY <1>1, <2>2, <2>3, KeyFacts DEF Key
    <3> HIDE DEF s
    <3> QED BY <2>1, <2>3, <3>1, InheritPrio
  <2> HIDE DEF s
  <2>5. UsersRun(rtsys')
    BY <1>2, <2>3, <2>4, ReprioritisedRuns DEF Reprioritised
  <2>6. /\ InOrder(OwnKey, q) /\ ToSet(q) = ToSet(monitorQ[x]) \cup {t}
    <3>1. /\ monitorQ[x] \in Seq(UserTask) /\ InOrder(OwnKey, monitorQ[x])
          /\ NoDuplicates(monitorQ[x]) /\ t \notin ToSet(monitorQ[x])
      BY <1>2, InheritInvFacts DEF MonitorsInOrder
    <3>2. \A u \in ToSet(monitorQ[x]) : Idles(u)
      BY <1>1, CallerIdles
    <3> QED BY <1>1, <1>2, <3>1, <3>2, QueuedInOrder, QueuedOnce
  <2> HIDE DEF q, t, h
  <2>7. \A y \in Monitor : monitorQ'[y] = IF y = x THEN q ELSE monitorQ[y]
    BY <2>1, InheritInvFacts
  <2>8. /\ OwnKey \in [UserTask -> Int] /\ Key(rtsys, h) \in Int
        /\ \A u \in UserTask : Key(rtsys, u) \in Int
    BY <2>2, KeyFacts, InheritInvFacts DEF Key
  <2>9. /\ Key(rtsys', h) <= OwnKey[t] /\ Key(rtsys', h) <= Key(rtsys, h)
        /\ Key(rtsys', h) \in Int
        /\ \A u \in UserTask : u # h => rtsys'.tempPrio[u] = rtsys.tempPrio[u]
    <3>1. CASE Key(rtsys, h) > OwnKey[t]
      <4>1. rtsys'.tempPrio = [rtsys.tempPrio EXCEPT ![h] = OwnKey[t]]
        BY <2>3, <2>4, <3>1 DEF Reprioritised
      <4>2. Key(rtsys', h) = OwnKey[t]
        BY <1>1, <2>2, <2>8, <4>1, InheritInvFacts DEF Key
      <4> QED BY <1>1, <2>8, <3>1, <4>1, <4>2, InheritInvFacts
    <3>2. CASE ~ (Key(rtsys, h) > OwnKey[t])
      <4>1. rtsys'.tempPrio = rtsys.tempPrio
        BY <2>3, <2>4, <3>2
      <4> QED BY <1>1, <2>8, <3>2, <4>1 DEF Key
    <3> QED BY <3>1, <3>2
  <2>10. OneHeld'
    BY <1>1, <1>2, <2>1, <2>6, <2>7 DEF OneHeld, HoldsNone
  <2>11. KeysInherited'
    <3>1. ASSUME NEW y \in Monitor, NEW u \in ToSet(monitorQ'[y]) \ notified'
          PROVE  Key(rtsys', heldBy[y]) <= OwnKey[u]
      <4>1. CASE y # x
        <5>1. u \in ToSet(monitorQ[y]) \ notified /\ u \in UserTask
          BY <1>1, <2>7, <3>1, <4>1, InheritInvFacts
        <5>2. heldBy[y] \in UserTask
          <6>1. monitorQ[y] # << >>
            BY <5>1 DEF ToSet
          <6> QED BY <6>1, InheritInvFacts DEF WaitersHaveHolder
        <5>3. heldBy[y] # h
          BY <1>2, <1>4, <4>1 DEF OneHeld, h
        <5>4. Key(rtsys', heldBy[y]) = Key(rtsys, heldBy[y])
          BY <2>9, <5>2, <5>3 DEF Key
        <5> QED BY <1>2, <5>1, <5>4 DEF KeysInherited
      <4>2. CASE y = x /\ u = t
        BY <2>9, <4>2 DEF h
      <4>3. CASE y = x /\ u # t
        <5>1. u \in ToSet(monitorQ[x]) \ notified /\ u \in UserTask
          BY <1>1, <2>6, <2>7, <3>1, <4>3, InheritInvFacts
        <5>2. Key(rtsys, h) <= OwnKey[u] /\ OwnKey[u] \in Int
          BY <1>2, <2>8, <5>1 DEF KeysInherited, h
        <5> QED BY <2>8, <2>9, <4>3, <5>2 DEF h
      <4> QED BY <4>1, <4>2, <4>3
    <3>2. ASSUME NEW u \in UserTask, rtsys'.tempPrio[u] # None PROVE ~ HoldsNone(u)'
      <4>1. u = h \/ rtsys.tempPrio[u] # None
        BY <2>9, <3>2
      <4>2. ~ HoldsNone(u)
        BY <1>2, <4>1 DEF KeysInherited, HoldsNone, h
      <4> QED BY <2>1, <4>2 DEF HoldsNone
    <3> QED BY <2>1, <3>1, <3>2 DEF KeysInherited
  <2>12. MonitorsInOrder'
    BY <1>2, <2>6, <2>7 DEF MonitorsInOrder
  <2> QED BY <2>5, <2>10, <2>11, <2>12 DEF Inheritance
<1> QED BY <1>3, <1>4

\* No task waits for two monitors.
LEMMA MonitorsApart ==
  ASSUME InheritInv
  PROVE  \A x, y \in Monitor : x # y => ToSet(monitorQ[x]) \cap ToSet(monitorQ[y]) = {}
<1> DEFINE Q == Both(monitorQ, eventQ)
<1>1. /\ Monitor \subseteq DOMAIN Q /\ \A x \in Monitor : Q[x] = monitorQ[x]
  BY BothFacts
<1>2. Apart(Q)
  BY DEF InheritInv, QueuedInv, WaitIn
<1> HIDE DEF Q
<1> QED BY <1>1, <1>2 DEF Apart

\* The first of an ordered queue is the most urgent one, and the rest is ordered.
LEMMA TailInOrder ==
  ASSUME NEW S, NEW W, NEW q \in Seq(S), q # << >>, InOrder(W, q), W[q[1]] <= W[q[1]]
  PROVE  InOrder(W, Tail(q)) /\ \A e \in ToSet(q) : W[Head(q)] <= W[e]
<1> DEFINE r == Tail(q)
<1>1. /\ r \in Seq(S) /\ Len(r) = Len(q) - 1 /\ Len(q) \in Nat /\ Len(q) >= 1
      /\ \A i \in 1 .. Len(q) - 1 : r[i] = q[i + 1]
      /\ Head(q) = q[1] /\ DOMAIN q = 1 .. Len(q)
  BY HeadTailProperties, LenProperties, HeadFacts
<1> SUFFICES InOrder(W, r) /\ \A e \in ToSet(q) : W[Head(q)] <= W[e]
  OBVIOUS
<1> HIDE DEF r
<1>2. InOrder(W, r)
  <2> SUFFICES ASSUME NEW i \in 1 .. Len(r), NEW j \in 1 .. Len(r), i < j
               PROVE  W[r[i]] <= W[r[j]]
    BY DEF InOrder
  <2>1. /\ r[i] = q[i + 1] /\ r[j] = q[j + 1] /\ i + 1 < j + 1
        /\ i + 1 \in 1 .. Len(q) /\ j + 1 \in 1 .. Len(q)
    BY <1>1
  <2> QED BY <2>1 DEF InOrder
<1>3. ASSUME NEW e \in ToSet(q) PROVE W[q[1]] <= W[e]
  <2>1. PICK i \in 1 .. Len(q) : q[i] = e
    BY <1>1 DEF ToSet
  <2>2. 1 \in 1 .. Len(q)
    BY <1>1
  <2>3. i = 1 \/ 1 < i
    BY <1>1
  <2> QED BY <2>1, <2>2, <2>3 DEF InOrder
<1> QED BY <1>1, <1>2, <1>3

\* ttExitMonitor, and ttWait, whose caller joins the queue of an event
LEMMA LeaveInherits ==
  ASSUME Policy # "EDF", InheritInv, NEW s, HasCPUs(s), s.tempPrio = rtsys.tempPrio,
         s.running = rtsys.running, s.runningUser = rtsys.runningUser,
         NEW x \in Monitor, NEW t \in UserTask, heldBy[x] = t, Leave(s, x, t),
         t \notin Parks(rtsys),
         \A e \in Event : EventMonitor[e] # None =>
           ToSet(eventQ'[e]) \subseteq ToSet(eventQ[e]) \cup {t}
  PROVE  Inheritance'
<1> DEFINE heir == First(monitorQ[x])
<1>1. /\ heldBy' = [heldBy EXCEPT ![x] = heir]
      /\ monitorQ' = [monitorQ EXCEPT ![x] = IF heir = None THEN @ ELSE Tail(@)]
      /\ notified' = notified \ {heir}
  BY DEF Leave
<1>2. /\ rtsys'.tempPrio = [rtsys.tempPrio EXCEPT ![t] = None]
      /\ rtsys'.running = rtsys.running /\ rtsys'.runningUser = rtsys.runningUser
  BY LeavePrio DEF Reprioritised
<1>3. UsersRun(rtsys) /\ OneHeld /\ MonitorsInOrder /\ KeysInherited
  BY DEF InheritInv, Inheritance
<1>4. UsersRun(rtsys')
  BY <1>2, <1>3, ReprioritisedRuns
<1>5. /\ \A u \in UserTask : rtsys'.tempPrio[u] = IF u = t THEN None ELSE rtsys.tempPrio[u]
      /\ \A y \in Monitor : heldBy'[y] = IF y = x THEN heir ELSE heldBy[y]
      /\ \A y \in Monitor : y # x => monitorQ'[y] = monitorQ[y]
  BY <1>1, <1>2, InheritInvFacts
<1>6. /\ heir = None => monitorQ'[x] = monitorQ[x] /\ ToSet(monitorQ[x]) = {}
      /\ heir # None => /\ heir \in ToSet(monitorQ[x])
                        /\ ToSet(monitorQ'[x]) = ToSet(monitorQ[x]) \ {heir}
                        /\ \A u \in ToSet(monitorQ[x]) : OwnKey[heir] <= OwnKey[u]
      /\ InOrder(OwnKey, monitorQ'[x])
  <2>1. /\ monitorQ[x] \in Seq(UserTask) /\ NoDuplicates(monitorQ[x])
        /\ InOrder(OwnKey, monitorQ[x]) /\ OwnKey \in [UserTask -> Int]
    BY <1>3, InheritInvFacts, KeyFacts DEF MonitorsInOrder
  <2>2. CASE monitorQ[x] = << >>
    <3>1. heir = None /\ ToSet(<< >>) = {}
      BY <2>2 DEF First, ToSet
    <3>2. monitorQ'[x] = monitorQ[x]
      BY <1>1, <3>1, InheritInvFacts
    <3> HIDE DEF heir
    <3> QED BY <2>1, <2>2, <3>1, <3>2
  <2>3. CASE monitorQ[x] # << >>
    <3>1. /\ heir = Head(monitorQ[x]) /\ heir = monitorQ[x][1] /\ heir \in UserTask
          /\ heir \in ToSet(monitorQ[x]) /\ heir # None
      BY <2>1, <2>3, HeadFacts, InheritInvFacts DEF First
    <3> HIDE DEF heir
    <3>2. monitorQ'[x] = Tail(monitorQ[x])
      BY <1>1, <3>1, InheritInvFacts
    <3>3. OwnKey[monitorQ[x][1]] <= OwnKey[monitorQ[x][1]]
      BY <2>1, <3>1
    <3>4. InOrder(OwnKey, Tail(monitorQ[x])) /\
          \A u \in ToSet(monitorQ[x]) : OwnKey[Head(monitorQ[x])] <= OwnKey[u]
      BY <2>1, <2>3, <3>3, TailInOrder
    <3>5. ToSet(Tail(monitorQ[x])) = ToSet(monitorQ[x]) \ {Head(monitorQ[x])}
      BY <2>1, <2>3, TailOnce
    <3> QED BY <3>1, <3>2, <3>4, <3>5
  <2> QED BY <2>2, <2>3
<1> HIDE DEF heir
<1>7. heir # None =>
        /\ heir \in UserTask /\ heir # t /\ HoldsNone(heir)
        /\ rtsys.tempPrio[heir] = None
        /\ \A y \in Monitor : y # x => heir \notin ToSet(monitorQ[y])
        /\ \A e \in Event : heir \notin ToSet(eventQ[e])
  <2> SUFFICES ASSUME heir # None
               PROVE  /\ heir \in UserTask /\ heir # t /\ HoldsNone(heir)
                      /\ rtsys.tempPrio[heir] = None
                      /\ \A y \in Monitor : y # x => heir \notin ToSet(monitorQ[y])
                      /\ \A e \in Event : heir \notin ToSet(eventQ[e])
    OBVIOUS
  <2>1. heir \in ToSet(monitorQ[x]) /\ heir \in Parks(rtsys) /\ heir \in UserTask
    BY <1>6, InheritInvFacts
  <2>2. HoldsNone(heir) /\ rtsys.tempPrio[heir] = None
    BY <1>3, <2>1 DEF OneHeld, KeysInherited
  <2>3. \A y \in Monitor : y # x => heir \notin ToSet(monitorQ[y])
    BY <2>1, MonitorsApart
  <2>4. \A e \in Event : heir \notin ToSet(eventQ[e])
    BY <2>1, InheritInvFacts
  <2> QED BY <2>1, <2>2, <2>3, <2>4
<1>8. t # None /\ \A y \in Monitor : y # x => heldBy[y] # t
  BY <1>3, InheritInvFacts DEF OneHeld
<1>9. OneHeld'
  <2>1. \A y, z \in Monitor : y # z /\ heldBy'[y] # None => heldBy'[y] # heldBy'[z]
    BY <1>3, <1>5, <1>7 DEF OneHeld, HoldsNone
  <2>2. ASSUME NEW u, HoldsNone(u) \/ u = t, u # heir \/ u = t PROVE HoldsNone(u)'
    BY <1>5, <1>7, <1>8, <2>2 DEF HoldsNone
  <2>3. ASSUME NEW y \in Monitor, NEW u \in ToSet(monitorQ'[y]) PROVE HoldsNone(u)'
    <3>1. u \in ToSet(monitorQ[y]) /\ u # heir
      BY <1>5, <1>6, <1>7, <2>3, InheritInvFacts
    <3> QED BY <1>3, <2>2, <3>1 DEF OneHeld
  <2>4. ASSUME NEW e \in Event, EventMonitor[e] # None, NEW u \in ToSet(eventQ'[e])
        PROVE  HoldsNone(u)'
    <3>1. u = t \/ u \in ToSet(eventQ[e])
      BY <2>4
    <3>2. u \in ToSet(eventQ[e]) => HoldsNone(u) /\ u # heir
      BY <1>3, <1>7, <2>4, InheritInvFacts DEF OneHeld
    <3> QED BY <2>2, <3>1, <3>2
  <2> QED BY <2>1, <2>3, <2>4 DEF OneHeld
<1>10. KeysInherited'
  <2>1. ASSUME NEW y \in Monitor, NEW u \in ToSet(monitorQ'[y]) \ notified'
        PROVE  Key(rtsys', heldBy'[y]) <= OwnKey[u]
    <3>1. CASE y = x
      <4>1. heir # None /\ u \in ToSet(monitorQ[x])
        BY <1>6, <2>1, <3>1
      <4>2. Key(rtsys', heir) = OwnKey[heir]
        BY <1>5, <1>7, <4>1 DEF Key
      <4> QED BY <1>5, <1>6, <3>1, <4>1, <4>2
    <3>2. CASE y # x
      <4>1. u \in ToSet(monitorQ[y]) /\ u \notin notified
        BY <1>1, <1>5, <1>6, <1>7, <2>1, <3>2, InheritInvFacts
      <4>2. heldBy'[y] = heldBy[y] /\ heldBy[y] \in UserTask /\ heldBy[y] # t
        <5>1. monitorQ[y] # << >>
          BY <4>1 DEF ToSet
        <5> QED BY <1>5, <1>8, <3>2, <5>1, InheritInvFacts DEF WaitersHaveHolder
      <4>3. Key(rtsys', heldBy[y]) = Key(rtsys, heldBy[y])
        BY <1>5, <4>2 DEF Key
      <4> QED BY <1>3, <4>1, <4>2, <4>3 DEF KeysInherited
    <3> QED BY <3>1, <3>2
  <2>2. ASSUME NEW u \in UserTask, rtsys'.tempPrio[u] # None PROVE ~ HoldsNone(u)'
    <3>1. u # t /\ rtsys.tempPrio[u] # None
      BY <1>5, <2>2
    <3>2. PICK y \in Monitor : heldBy[y] = u
      BY <1>3, <3>1 DEF KeysInherited, HoldsNone
    <3> QED BY <1>5, <3>1, <3>2 DEF HoldsNone
  <2> QED BY <2>1, <2>2 DEF KeysInherited
<1>11. MonitorsInOrder'
  BY <1>3, <1>5, <1>6 DEF MonitorsInOrder
<1> QED BY <1>4, <1>9, <1>10, <1>11 DEF Inheritance

\* A step that gives no monitor to anybody and sends only notified tasks to
\* the queues of monitors
LEMMA InheritanceStays ==
  ASSUME InheritInv, PriosKept(rtsys, rtsys'), heldBy' = heldBy, notified \subseteq notified',
         MonitorsInOrder',
         \A x \in Monitor : \A t \in ToSet(monitorQ'[x]) :
           t \in ToSet(monitorQ[x]) \/ (t \in notified' /\ HoldsNone(t)),
         \A e \in Event : EventMonitor[e] # None => ToSet(eventQ'[e]) \subseteq ToSet(eventQ[e])
  PROVE  Inheritance'
<1>1. UsersRun(rtsys) /\ OneHeld /\ KeysInherited
  BY DEF InheritInv, Inheritance
<1>2. UsersRun(rtsys') /\ rtsys'.tempPrio = rtsys.tempPrio
  BY <1>1 DEF PriosKept
<1>3. \A t : HoldsNone(t) => HoldsNone(t)'
  BY DEF HoldsNone
<1>4. OneHeld'
  <2>1. \A x, y \in Monitor : x # y /\ heldBy'[x] # None => heldBy'[x] # heldBy'[y]
    BY <1>1 DEF OneHeld
  <2>2. \A x \in Monitor : \A t \in ToSet(monitorQ'[x]) : HoldsNone(t)'
    BY <1>1, <1>3 DEF OneHeld
  <2>3. \A e \in Event : EventMonitor[e] # None => \A t \in ToSet(eventQ'[e]) : HoldsNone(t)'
    BY <1>1, <1>3 DEF OneHeld
  <2> QED BY <2>1, <2>2, <2>3 DEF OneHeld
<1>5. KeysInherited'
  <2>1. ASSUME NEW x \in Monitor, NEW t \in ToSet(monitorQ'[x]) \ notified'
        PROVE  Key(rtsys', heldBy'[x]) <= OwnKey[t]
    <3>1. t \in ToSet(monitorQ[x]) \ notified
      BY <2>1
    <3>2. Key(rtsys', heldBy'[x]) = Key(rtsys, heldBy[x])
      BY <1>2 DEF Key
    <3> QED BY <1>1, <3>1, <3>2 DEF KeysInherited
  <2>2. ASSUME NEW t \in UserTask, rtsys'.tempPrio[t] # None PROVE ~ HoldsNone(t)'
    BY <1>1, <1>2, <2>2 DEF KeysInherited, HoldsNone
  <2> QED BY <2>1, <2>2 DEF KeysInherited
<1> QED BY <1>2, <1>4, <1>5 DEF Inheritance

\* and one that leaves the queues of monitors alone
LEMMA MonitorsStay ==
  ASSUME InheritInv, PriosKept(rtsys, rtsys'), heldBy' = heldBy, notified' = notified,
         monitorQ' = monitorQ,
         \A e \in Event : EventMonitor[e] # None => ToSet(eventQ'[e]) \subseteq ToSet(eventQ[e])
  PROVE  Inheritance'
<1>1. MonitorsInOrder'
  BY DEF InheritInv, Inheritance, MonitorsInOrder
<1> QED BY <1>1, InheritanceStays

\* Undisturbed tasks keep their priorities.
LEMMA UndisturbedKeeps ==
  ASSUME InheritInv, NEW r, Undisturbed(rtsys, r)
  PROVE  PriosKept(rtsys, r)
BY InheritInvFacts, UndisturbedRuns DEF PriosKept, Undisturbed

\* ttExitMonitor
LEMMA ExitInherits ==
  ASSUME Policy # "EDF", InheritInv, NEW x \in Monitor, ExitMonitor(x)
  PROVE  Inheritance'
<1>1. /\ Calling("ttExitMonitor") /\ NotBlocked /\ "ttKillJob" \notin Primitives /\ IInv
  BY MonitorAssumption, InheritInvFacts DEF ExitMonitor, MonitorAssumption
<1>2. Current \in Task
  BY <1>1, CallerFacts
<1>3. CASE heldBy[x] = Current
  <2>1. Leave(rtsys, x, Current) /\ eventQ' = eventQ
    BY <1>3 DEF ExitMonitor
  <2>2. Current \in UserTask
    BY <1>2, <1>3, InheritInvFacts, TaskSorts
  <2>3. Current \notin Parks(rtsys)
    BY <1>1, <2>2, CallerIdles
  <2> QED BY <1>3, <2>1, <2>2, <2>3, InheritInvFacts, LeaveInherits
<1>4. CASE heldBy[x] # Current
  <2>1. Abort /\ UNCHANGED monVars
    BY <1>4 DEF ExitMonitor
  <2>2. Undisturbed(rtsys, rtsys')
    BY <2>1, UndisturbedReflexive DEF Abort
  <2> QED BY <2>1, <2>2, UndisturbedKeeps, MonitorsStay DEF monVars
<1> QED BY <1>3, <1>4

\* ttWait
LEMMA WaitInherits ==
  ASSUME Policy # "EDF", InheritInv, NEW e \in Event, Wait(e)
  PROVE  Inheritance'
<1> DEFINE x == EventMonitor[e]
           t == Current
           s == Blocked(rtsys, t)
<1>1. /\ Calling("ttWait") /\ t \in UserTask /\ NotBlocked
      /\ x \in Monitor \cup {None}
  BY MonitorAssumption DEF Wait, MonitorAssumption
<1>2. CASE x # None /\ heldBy[x] # t
  <2>1. Abort /\ UNCHANGED monVars
    BY <1>2 DEF Wait
  <2>2. Undisturbed(rtsys, rtsys')
    BY <2>1, UndisturbedReflexive DEF Abort
  <2> QED BY <2>1, <2>2, UndisturbedKeeps, MonitorsStay DEF monVars
<1>3. CASE x = None
  <2>1. rtsys' = s /\ UNCHANGED <<heldBy, monitorQ, notified>>
        /\ eventQ' = [eventQ EXCEPT ![e] = Queued(@, t)]
    BY <1>3 DEF Wait
  <2>2. \A y \in Event : EventMonitor[y] # None => ToSet(eventQ'[y]) \subseteq ToSet(eventQ[y])
    BY <1>3, <2>1, InheritInvFacts
  <2>3. PriosKept(rtsys, rtsys')
    BY <2>1, BlockedLeaves, UndisturbedKeeps
  <2> QED BY <2>1, <2>2, <2>3, MonitorsStay
<1>4. CASE x # None /\ heldBy[x] = t
  <2>1. Leave(s, x, t) /\ eventQ' = [eventQ EXCEPT ![e] = Queued(@, t)]
    BY <1>4 DEF Wait
  <2>2. t \notin Parks(rtsys)
    BY <1>1, CallerIdles
  <2>3. t \notin ToSet(eventQ[e])
    BY <2>2, InheritInvFacts
  <2>4. ToSet(Queued(eventQ[e], t)) = ToSet(eventQ[e]) \cup {t}
    BY <1>1, <2>3, InheritInvFacts, QueuedOnce
  <2>5. \A y \in Event : ToSet(eventQ'[y]) \subseteq ToSet(eventQ[y]) \cup {t}
    BY <2>1, <2>4, InheritInvFacts
  <2>6. Undisturbed(rtsys, s) /\ HasCPUs(rtsys)
    BY BlockedLeaves, InheritInvFacts
  <2>7. /\ HasCPUs(s) /\ s.tempPrio = rtsys.tempPrio
        /\ s.running = rtsys.running /\ s.runningUser = rtsys.runningUser
    BY <2>6 DEF Undisturbed
  <2>8. x \in Monitor
    BY <1>1, <1>4
  <2> HIDE DEF s, t, x
  <2> QED BY <1>1, <1>4, <2>1, <2>2, <2>5, <2>7, <2>8, LeaveInherits
<1> QED BY <1>2, <1>3, <1>4

\* The queue of a monitor still is in order when notified tasks join it.
LEMMA OthersInOrder ==
  ASSUME InheritInv, NEW x \in Monitor, NEW q, monitorQ' = [monitorQ EXCEPT ![x] = q],
         InOrder(OwnKey, q)
  PROVE  MonitorsInOrder'
<1>1. \A y \in Monitor : monitorQ'[y] = IF y = x THEN q ELSE monitorQ[y]
  BY InheritInvFacts
<1>2. MonitorsInOrder
  BY DEF InheritInv, Inheritance
<1>3. \A y \in Monitor : InOrder(OwnKey, monitorQ'[y])
  BY <1>1, <1>2 DEF MonitorsInOrder
<1>4. OwnKey' = OwnKey
  BY DEF OwnKey
<1> QED BY <1>3 DEF MonitorsInOrder, OwnKey

\* ttNotify
LEMMA NotifyInherits ==
  ASSUME Policy # "EDF", InheritInv, NEW e \in Event, Notify(e)
  PROVE  Inheritance'
<1> DEFINE x == EventMonitor[e]
           t == Head(eventQ[e])
           q == Queued(monitorQ[x], t)
<1>1. /\ Calling("ttNotify") /\ NotBlocked /\ heldBy' = heldBy
      /\ x \in Monitor \cup {None} /\ MayNotify(e)
  BY MonitorAssumption DEF Notify, MonitorAssumption
<1>2. CASE eventQ[e] = << >>
  <2>1. UNCHANGED <<rtsys, monitorQ, notified, eventQ>>
    BY <1>2 DEF Notify
  <2>2. Undisturbed(rtsys, rtsys')
    BY <2>1, UndisturbedReflexive
  <2> QED BY <1>1, <2>1, <2>2, UndisturbedKeeps, MonitorsStay
<1>3. CASE eventQ[e] # << >>
  <2>1. eventQ' = [eventQ EXCEPT ![e] = Tail(@)]
    BY <1>3 DEF Notify
  <2>2. /\ t \in UserTask /\ t \in ToSet(eventQ[e])
        /\ ToSet(Tail(eventQ[e])) = ToSet(eventQ[e]) \ {t}
    BY <1>3, InheritInvFacts, HeadFacts, TailOnce
  <2>3. \A y \in Event : ToSet(eventQ'[y]) \subseteq ToSet(eventQ[y])
    BY <2>1, <2>2, InheritInvFacts
  <2>4. CASE x = None
    <3>1. rtsys' = MakeReady(rtsys, t) /\ UNCHANGED <<monitorQ, notified>>
      BY <1>3, <2>4 DEF Notify
    <3>2. PriosKept(rtsys, rtsys')
      BY <3>1, MakeReadyLeaves, UndisturbedKeeps
    <3> QED BY <1>1, <2>3, <3>1, <3>2, MonitorsStay
  <2>5. CASE x # None
    <3>1. /\ rtsys' = [rtsys EXCEPT !.state[t] = "WAITING"]
          /\ monitorQ' = [monitorQ EXCEPT ![x] = q] /\ notified' = notified \cup {t}
      BY <1>3, <2>5 DEF Notify
    <3>2. x \in Monitor /\ Current \in UserTask
      BY <1>1, <2>5 DEF MayNotify
    <3>3. Undisturbed(rtsys, rtsys')
      BY <3>1 DEF Undisturbed, HasCPUs
    <3>4. /\ Idles(t) /\ \A u \in ToSet(monitorQ[x]) : Idles(u)
      BY <1>1, <2>2, <2>5, <3>2, CallerIdles
    <3>5. InOrder(OwnKey, monitorQ[x]) /\ HoldsNone(t)
      BY <2>2, <2>5, <3>2 DEF InheritInv, Inheritance, MonitorsInOrder, OneHeld
    <3>6. t \notin ToSet(monitorQ[x])
      BY <2>2, <3>2, InheritInvFacts
    <3>7. ToSet(q) = ToSet(monitorQ[x]) \cup {t}
      BY <2>2, <3>2, <3>6, InheritInvFacts, QueuedOnce
    <3>8. InOrder(OwnKey, q)
      <4>1. monitorQ[x] \in Seq(UserTask) /\ rtsys.tempPrio[t] = None
        BY <3>2, <3>4, InheritInvFacts DEF Idles
      <4> QED BY <2>2, <3>4, <3>5, <4>1, QueuedInOrder
    <3>9. MonitorsInOrder'
      BY <3>1, <3>2, <3>8, OthersInOrder
    <3>10. \A y \in Monitor : monitorQ'[y] = IF y = x THEN q ELSE monitorQ[y]
      BY <3>1, InheritInvFacts
    <3>11. PriosKept(rtsys, rtsys')
      BY <3>3, UndisturbedKeeps
    <3> HIDE DEF q, t, x
    <3>12. \A y \in Monitor : \A u \in ToSet(monitorQ'[y]) :
             u \in ToSet(monitorQ[y]) \/ (u \in notified' /\ HoldsNone(u))
      BY <3>1, <3>5, <3>7, <3>10
    <3> QED BY <1>1, <2>3, <3>1, <3>9, <3>11, <3>12, InheritanceStays
  <2> QED BY <2>4, <2>5
<1> QED BY <1>2, <1>3

\* ttNotifyAll
LEMMA NotifyAllInherits ==
  ASSUME Policy # "EDF", InheritInv, NEW e \in Event, NotifyAll(e)
  PROVE  Inheritance'
<1> DEFINE x == EventMonitor[e]
           ts == eventQ[e]
           q == FoldLeft(Queued, monitorQ[x], ts)
<1>1. /\ Calling("ttNotifyAll") /\ NotBlocked /\ heldBy' = heldBy
      /\ x \in Monitor \cup {None} /\ MayNotify(e)
      /\ eventQ' = [eventQ EXCEPT ![e] = << >>]
  BY MonitorAssumption DEF NotifyAll, MonitorAssumption
<1>2. ts \in Seq(UserTask) /\ NoDuplicates(ts)
  BY InheritInvFacts
<1>3. \A y \in Event : ToSet(eventQ'[y]) \subseteq ToSet(eventQ[y])
  <2>1. ToSet(<< >>) = {}
    BY DEF ToSet
  <2> QED BY <1>1, <2>1, InheritInvFacts
<1>4. CASE x = None
  <2>1. rtsys' = FoldLeft(MakeReady, rtsys, ts) /\ UNCHANGED <<monitorQ, notified>>
    BY <1>4 DEF NotifyAll
  <2>2. Undisturbed(rtsys, rtsys')
    BY <1>2, <2>1, AllReadiedLeaves
  <2> QED BY <1>1, <1>3, <2>1, <2>2, UndisturbedKeeps, MonitorsStay
<1>5. CASE x # None
  <2>1. /\ rtsys' = AllWaiting(rtsys, ToSet(ts))
        /\ monitorQ' = [monitorQ EXCEPT ![x] = q] /\ notified' = notified \cup ToSet(ts)
    BY <1>5 DEF NotifyAll, AllWaiting
  <2>2. x \in Monitor /\ Current \in UserTask
    BY <1>1, <1>5 DEF MayNotify
  <2>3. Undisturbed(rtsys, rtsys')
    BY <2>1 DEF AllWaiting, Undisturbed, HasCPUs
  <2>4. \A u \in ToSet(monitorQ[x]) \cup ToSet(ts) : Idles(u)
    BY <1>1, <1>5, <2>2, CallerIdles
  <2>5. InOrder(OwnKey, monitorQ[x]) /\ \A u \in ToSet(ts) : HoldsNone(u)
    BY <1>5, <2>2 DEF InheritInv, Inheritance, MonitorsInOrder, OneHeld
  <2>6. /\ monitorQ[x] \in Seq(UserTask) /\ NoDuplicates(monitorQ[x])
        /\ ToSet(monitorQ[x]) \cap ToSet(ts) = {}
    BY <2>2, InheritInvFacts
  <2>7. ToSet(q) = ToSet(monitorQ[x]) \cup ToSet(ts)
    BY <1>2, <2>6, AllQueued
  <2>8. InOrder(OwnKey, q)
    BY <1>2, <2>4, <2>5, <2>6, AllQueuedInOrder
  <2>9. MonitorsInOrder'
    BY <2>1, <2>2, <2>8, OthersInOrder
  <2>10. \A y \in Monitor : monitorQ'[y] = IF y = x THEN q ELSE monitorQ[y]
    BY <2>1, InheritInvFacts
  <2>11. PriosKept(rtsys, rtsys')
    BY <2>3, UndisturbedKeeps
  <2> HIDE DEF q, ts, x
  <2>12. \A y \in Monitor : \A u \in ToSet(monitorQ'[y]) :
           u \in ToSet(monitorQ[y]) \/ (u \in notified' /\ HoldsNone(u))
    BY <2>1, <2>5, <2>7, <2>10
  <2> QED BY <1>1, <1>3, <2>1, <2>9, <2>11, <2>12, InheritanceStays
<1> QED BY <1>4, <1>5

\* Every step of the system keeps the invariant.
LEMMA InheritStep ==
  ASSUME Policy # "EDF", InheritInv, [MonNext]_<<vars, monVars>>
  PROVE  InheritInv'
<1>1. QueuedInv'
  BY QueuedStep DEF InheritInv
<1>2. CASE (OtherStep \/ UNCHANGED vars) /\ UNCHANGED monVars
  <2>1. PriosKept(rtsys, rtsys')
    BY <1>2, MonitorAssumption, InheritInvFacts, OtherStepsKeepPrios DEF MonitorAssumption
  <2>2. Inheritance'
    BY <1>2, <2>1, MonitorsStay DEF monVars
  <2> QED BY <1>1, <2>2 DEF InheritInv
<1>3. ASSUME NEW x \in Monitor, EnterMonitor(x) \/ ExitMonitor(x) PROVE InheritInv'
  BY <1>1, <1>3, EnterInherits, ExitInherits DEF InheritInv
<1>4. ASSUME NEW e \in Event, Wait(e) \/ Notify(e) \/ NotifyAll(e) PROVE InheritInv'
  BY <1>1, <1>4, WaitInherits, NotifyInherits, NotifyAllInherits DEF InheritInv
<1> QED BY <1>2, <1>3, <1>4 DEF MonNext

\* Nobody holds a monitor at first.
LEMMA NobodyInheritsAtFirst ==
  ASSUME MonInit
  PROVE  InheritInv
<1>1. QueuedInv
  BY MonInitial
<1>2. /\ heldBy = [x \in Monitor |-> None] /\ monitorQ = [x \in Monitor |-> << >>]
      /\ eventQ = [e \in Event |-> << >>] /\ Init
  BY DEF MonInit
<1>3. ToSet(<< >>) = {}
  BY DEF ToSet
<1>4. UsersRun(rtsys) /\ \A t \in UserTask : rtsys.tempPrio[t] = None
  <2>1. PICK q : rtsys = InitialRTsys(q)
    BY <1>2 DEF Init
  <2>2. /\ \A c \in CPU : rtsys.running[c] = None
        /\ \A t \in UserTask : rtsys.tempPrio[t] = None
    BY <2>1, TaskSorts DEF InitialRTsys
  <2> QED BY <2>2, TaskSorts DEF UsersRun
<1>5. OneHeld
  BY <1>2, <1>3 DEF OneHeld
<1>6. MonitorsInOrder
  BY <1>2 DEF MonitorsInOrder, InOrder
<1>7. KeysInherited
  BY <1>2, <1>3, <1>4 DEF KeysInherited
<1> QED BY <1>1, <1>4, <1>5, <1>6, <1>7 DEF InheritInv, Inheritance

-----------------------------------------------------------------------------
\* Tasks never wait for a monitor that nobody holds: the test for a waiting task
\* in ttExitMonitor and the hand-over there leave none behind, and a notified
\* task joins the queue of a monitor that the notifying task holds.
THEOREM MonitorIsHeld == MonSpec => []WaitersHaveHolder
<1>1. MonInit => MonInv
  BY MonInitial
<1>2. MonInv /\ [MonNext]_<<vars, monVars>> => MonInv'
  BY MonInvStep
<1>3. MonInv => WaitersHaveHolder
  BY DEF MonInv
<1> QED BY <1>1, <1>2, <1>3, PTL DEF MonSpec

\* A task that blocks in ttEnterMonitor or ttWait, or goes from the queue of an
\* event to that of its monitor, neither keeps its CPU nor gets lost: each
\* active job is in one ready, time or waiting queue and its state says which.
THEOREM MonitorQueueing == MonSpec => []MonitorJobsAreQueued
<1>1. MonInit => QueuedInv
  BY MonInitial
<1>2. QueuedInv /\ [MonNext]_<<vars, monVars>> => QueuedInv'
  BY QueuedStep
<1>3. QueuedInv => MonitorJobsAreQueued
  <2> SUFFICES ASSUME QueuedInv PROVE MonitorJobsAreQueued
    OBVIOUS
  <2>1. WaitIn(rtsys, Queues) /\ IInv /\ "ttKillJob" \notin Primitives
    BY MonitorAssumption DEF MonitorAssumption, QueuedInv, Queues, Both
  <2> QED BY <2>1, EveryJobHasAQueue DEF MonitorJobsAreQueued
<1> QED BY <1>1, <1>2, <1>3, PTL DEF MonSpec

\* Priority inheritance bounds the blocking: the holder of a monitor runs at a
\* priority no lower than that of every task it keeps out, whatever sequence of
\* ttEnterMonitor, ttExitMonitor, ttWait and ttNotify led there, and nobody keeps
\* an inherited priority without a monitor.  Not so under EDF, where the next
\* job of a task that still holds a monitor has a later deadline.
THEOREM HolderHasPriority ==
  ASSUME Policy # "EDF" PROVE MonSpec => []HolderInherits
<1>1. MonInit => InheritInv
  BY NobodyInheritsAtFirst
<1>2. InheritInv /\ [MonNext]_<<vars, monVars>> => InheritInv'
  BY InheritStep
<1>3. InheritInv => HolderInherits
  BY KeysFromPrios
<1> QED BY <1>1, <1>2, <1>3, PTL DEF MonSpec
=============================================================================
