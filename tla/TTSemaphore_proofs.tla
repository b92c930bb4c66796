------------------------- MODULE TTSemaphore_proofs -------------------------
(***************************************************************************)
(* Proofs about semaphores: whatever the tasks, the scheduling and the     *)
(* programs are, value and waitingQ agree and the semaphores are counting  *)
(* semaphores with FIFO queues.  The invariant is inductive because only   *)
(* Take and Give change value and waitingQ, and they change both.  With    *)
(* the kernel's invariant, the tasks in waitingQ are moreover those that   *)
(* are in no ready or time queue.                                          *)
(***************************************************************************)
EXTENDS TTSemaphore, TTKernel_proofs

SemTypeOK ==
  /\ value \in [Semaphore -> Int]
  /\ waitingQ \in [Semaphore -> Seq(UserTask)]

SemInv == SemTypeOK /\ WaitersMatchValue

LEMMA SequenceFacts ==
  ASSUME NEW S, NEW q \in Seq(S), NEW e \in S
  PROVE  /\ Append(q, e) \in Seq(S) /\ Len(Append(q, e)) = Len(q) + 1
         /\ Len(q) \in Nat /\ (q = << >> <=> Len(q) = 0)
         /\ q # << >> => Tail(q) \in Seq(S) /\ Len(Tail(q)) = Len(q) - 1
  OBVIOUS

\* What a step does to value and waitingQ.
SemStep ==
  \/ UNCHANGED semVars
  \/ \E x \in Semaphore :
       /\ value[x] > 0
       /\ value' = [value EXCEPT ![x] = @ - 1] /\ UNCHANGED waitingQ
  \/ \E x \in Semaphore, t \in UserTask :
       /\ value[x] <= 0
       /\ value' = [value EXCEPT ![x] = @ - 1]
       /\ waitingQ' = [waitingQ EXCEPT ![x] = Append(@, t)]
  \/ \E x \in Semaphore :
       /\ value[x] < MaxVal[x]
       /\ value[x] + 1 > 0 \/ waitingQ[x] = << >>
       /\ value' = [value EXCEPT ![x] = @ + 1] /\ UNCHANGED waitingQ
  \/ \E x \in Semaphore :
       /\ value[x] < 0 /\ waitingQ[x] # << >>
       /\ value' = [value EXCEPT ![x] = @ + 1]
       /\ waitingQ' = [waitingQ EXCEPT ![x] = Tail(@)]

LEMMA StepShape ==
  ASSUME SemTypeOK, [SemNext]_<<vars, semVars>>
  PROVE  SemStep
<1>1. CASE OtherStep /\ UNCHANGED semVars
  BY <1>1 DEF SemStep
<1>2. ASSUME NEW x \in Semaphore, Take(x) PROVE SemStep
  <2>1. Current \in UserTask /\ value[x] \in Int
    BY <1>2 DEF Take, SemTypeOK
  <2>2. value' = [value EXCEPT ![x] = @ - 1]
    BY <1>2 DEF Take
  <2>3. CASE value[x] - 1 < 0
    <3>1. waitingQ' = [waitingQ EXCEPT ![x] = Append(@, Current)] /\ value[x] <= 0
      BY <1>2, <2>1, <2>3 DEF Take
    <3> QED BY <2>1, <2>2, <3>1 DEF SemStep
  <2>4. CASE ~ (value[x] - 1 < 0)
    <3>1. UNCHANGED waitingQ /\ value[x] > 0
      BY <1>2, <2>1, <2>4 DEF Take
    <3> QED BY <2>2, <3>1 DEF SemStep
  <2> QED BY <2>3, <2>4
<1>3. ASSUME NEW x \in Semaphore, Give(x) PROVE SemStep
  <2>1. value[x] \in Int /\ MaxVal[x] \in Nat
    BY SemaphoreAssumption DEF SemTypeOK, SemaphoreAssumption
  <2>2. CASE value[x] >= MaxVal[x]
    BY <1>3, <2>2 DEF Give, SemStep, semVars
  <2>3. CASE value[x] < MaxVal[x] /\ value[x] + 1 <= 0 /\ waitingQ[x] # << >>
    BY <1>3, <2>1, <2>3 DEF Give, SemStep
  <2>4. CASE value[x] < MaxVal[x] /\ ~ (value[x] + 1 <= 0 /\ waitingQ[x] # << >>)
    BY <1>3, <2>1, <2>4 DEF Give, SemStep
  <2> QED BY <2>1, <2>2, <2>3, <2>4
<1>4. CASE UNCHANGED <<vars, semVars>>
  BY <1>4 DEF SemStep
<1> QED BY <1>1, <1>2, <1>3, <1>4 DEF SemNext

LEMMA SemInvStep ==
  ASSUME SemInv, SemStep
  PROVE  SemInv' /\ [Counting!Next]_(Counting!vars)
<1> DEFINE u == [x \in Semaphore |-> IF value[x] > 0 THEN value[x] ELSE 0]
<1>1. /\ value \in [Semaphore -> Int] /\ waitingQ \in [Semaphore -> Seq(UserTask)]
      /\ MaxVal \in [Semaphore -> Nat]
      /\ \A y \in Semaphore : Len(waitingQ[y]) = IF value[y] < 0 THEN 0 - value[y] ELSE 0
  BY SemaphoreAssumption DEF SemInv, SemTypeOK, WaitersMatchValue, SemaphoreAssumption
<1>u. u' = [x \in Semaphore |-> IF value'[x] > 0 THEN value'[x] ELSE 0]
  OBVIOUS
<1>2. CASE UNCHANGED semVars
  BY <1>1, <1>2 DEF semVars, SemInv, SemTypeOK, WaitersMatchValue, Counting!vars
<1>3. ASSUME NEW x \in Semaphore, value[x] > 0,
             value' = [value EXCEPT ![x] = @ - 1], UNCHANGED waitingQ
      PROVE  SemInv' /\ Counting!Next
  <2>1. SemInv'
    <3>1. SemTypeOK'
      BY <1>1, <1>3 DEF SemTypeOK
    <3>2. ASSUME NEW y \in Semaphore
          PROVE  Len(waitingQ'[y]) = IF value'[y] < 0 THEN 0 - value'[y] ELSE 0
      BY <1>1, <1>3
    <3> QED BY <3>1, <3>2 DEF SemInv, WaitersMatchValue
  <2>2. u[x] > 0 /\ u' = [u EXCEPT ![x] = @ - 1]
    <3>1. ASSUME NEW y \in Semaphore
          PROVE  u'[y] = IF y = x THEN u[x] - 1 ELSE u[y]
      BY <1>1, <1>3
    <3>2. u[x] > 0
      BY <1>1, <1>3
    <3> QED BY <1>u, <3>1, <3>2
  <2>3. Counting!TakeUnit(x)
    BY <1>3, <2>2 DEF Counting!TakeUnit
  <2> QED BY <2>1, <2>3 DEF Counting!Next
<1>4. ASSUME NEW x \in Semaphore, NEW t \in UserTask, value[x] <= 0,
             value' = [value EXCEPT ![x] = @ - 1],
             waitingQ' = [waitingQ EXCEPT ![x] = Append(@, t)]
      PROVE  SemInv' /\ Counting!Next
  <2>1. SemInv'
    <3>1. /\ Append(waitingQ[x], t) \in Seq(UserTask)
          /\ Len(Append(waitingQ[x], t)) = Len(waitingQ[x]) + 1
      BY <1>1, SequenceFacts
    <3>2. SemTypeOK'
      BY <1>1, <1>4, <3>1 DEF SemTypeOK
    <3>3. ASSUME NEW y \in Semaphore
          PROVE  Len(waitingQ'[y]) = IF value'[y] < 0 THEN 0 - value'[y] ELSE 0
      BY <1>1, <1>4, <3>1
    <3> QED BY <3>2, <3>3 DEF SemInv, WaitersMatchValue
  <2>2. u[x] = 0 /\ u' = u
    BY <1>1, <1>4
  <2>3. Counting!Wait(x, t)
    BY <1>4, <2>2 DEF Counting!Wait
  <2> QED BY <2>1, <2>3 DEF Counting!Next
<1>5. ASSUME NEW x \in Semaphore, value[x] < MaxVal[x],
             value[x] + 1 > 0 \/ waitingQ[x] = << >>,
             value' = [value EXCEPT ![x] = @ + 1], UNCHANGED waitingQ
      PROVE  SemInv' /\ Counting!Next
  <2>1. value[x] >= 0 /\ waitingQ[x] = << >>
    <3>1. waitingQ[x] = << >> <=> Len(waitingQ[x]) = 0
      BY <1>1
    <3> QED BY <1>1, <1>5, <3>1
  <2>2. SemInv'
    <3>1. SemTypeOK'
      BY <1>1, <1>5 DEF SemTypeOK
    <3>2. ASSUME NEW y \in Semaphore
          PROVE  Len(waitingQ'[y]) = IF value'[y] < 0 THEN 0 - value'[y] ELSE 0
      BY <1>1, <1>5, <2>1
    <3> QED BY <3>1, <3>2 DEF SemInv, WaitersMatchValue
  <2>3. u[x] < MaxVal[x] /\ u' = [u EXCEPT ![x] = @ + 1]
    <3>1. ASSUME NEW y \in Semaphore
          PROVE  u'[y] = IF y = x THEN u[x] + 1 ELSE u[y]
      BY <1>1, <1>5, <2>1
    <3>2. u[x] < MaxVal[x]
      BY <1>1, <1>5, <2>1
    <3> QED BY <1>u, <3>1, <3>2
  <2>4. Counting!AddUnit(x)
    BY <1>5, <2>1, <2>3 DEF Counting!AddUnit
  <2> QED BY <2>2, <2>4 DEF Counting!Next
<1>6. ASSUME NEW x \in Semaphore, value[x] < 0, waitingQ[x] # << >>,
             value' = [value EXCEPT ![x] = @ + 1],
             waitingQ' = [waitingQ EXCEPT ![x] = Tail(@)]
      PROVE  SemInv' /\ Counting!Next
  <2>1. Tail(waitingQ[x]) \in Seq(UserTask) /\ Len(Tail(waitingQ[x])) = Len(waitingQ[x]) - 1
    BY <1>1, <1>6
  <2>2. SemInv'
    <3>1. SemTypeOK'
      BY <1>1, <1>6, <2>1 DEF SemTypeOK
    <3>2. ASSUME NEW y \in Semaphore
          PROVE  Len(waitingQ'[y]) = IF value'[y] < 0 THEN 0 - value'[y] ELSE 0
      BY <1>1, <1>6, <2>1
    <3> QED BY <3>1, <3>2 DEF SemInv, WaitersMatchValue
  <2>3. u' = u
    BY <1>1, <1>6
  <2>4. Counting!HandOver(x)
    BY <1>6, <2>3 DEF Counting!HandOver
  <2> QED BY <2>2, <2>4 DEF Counting!Next
<1> QED BY <1>2, <1>3, <1>4, <1>5, <1>6 DEF SemStep

LEMMA SemInitial ==
  ASSUME SemInit
  PROVE  SemInv /\ Counting!Init
<1>1. InitVal \in [Semaphore -> Nat] /\ value = InitVal
      /\ waitingQ = [x \in Semaphore |-> << >>]
  BY SemaphoreAssumption DEF SemInit, SemaphoreAssumption
<1>2. SemInv
  BY <1>1 DEF SemInv, SemTypeOK, WaitersMatchValue
<1>3. [x \in Semaphore |-> IF value[x] > 0 THEN value[x] ELSE 0] = InitVal
  BY <1>1
<1> QED BY <1>1, <1>2, <1>3 DEF Counting!Init

-----------------------------------------------------------------------------
(***************************************************************************)
(* The tasks that wait: those in the waiting queues are the parked ones.   *)
(***************************************************************************)
QueuedInv == IInv /\ SemTypeOK /\ WaitIn(rtsys, waitingQ)

\* The waiting queue of x gains a caller that was in none.
LEMMA TakeQueued ==
  ASSUME QueuedInv, NEW x \in Semaphore, Take(x)
  PROVE  IInv' /\ WaitIn(rtsys', waitingQ')
<1> DEFINE t == Current
<1>1. /\ Calling("ttTake") /\ NotBlocked /\ t \in UserTask /\ UNCHANGED pc
      /\ "ttKillJob" \notin Primitives /\ IInv /\ WaitIn(rtsys, waitingQ)
      /\ waitingQ \in [Semaphore -> Seq(UserTask)]
  BY SemaphoreAssumption DEF Take, QueuedInv, SemTypeOK, SemaphoreAssumption
<1>2. /\ Sound(rtsys, ActiveUsers(rtsys), {}) /\ t \in ActiveUsers(rtsys)
      /\ t \notin Parks(rtsys)
  BY <1>1, CallerFacts
<1>3. CASE value[x] - 1 < 0
  <2>1. /\ rtsys' = Blocked(rtsys, t)
        /\ waitingQ' = [waitingQ EXCEPT ![x] = Append(@, t)]
    BY <1>3 DEF Take
  <2> HIDE DEF t
  <2>2. Served(rtsys, rtsys') /\ Parks(rtsys') = Parks(rtsys) \cup {t}
    BY <1>1, <1>2, <2>1, BlockedFacts
  <2>3. /\ DOMAIN waitingQ' = DOMAIN waitingQ /\ x \in DOMAIN waitingQ
        /\ waitingQ[x] \in Seq(UserTask)
        /\ \A y \in DOMAIN waitingQ : y # x => waitingQ'[y] = waitingQ[y]
        /\ waitingQ'[x] = Append(waitingQ[x], t)
    BY <1>1, <2>1
  <2>4. WaitIn(rtsys', waitingQ')
    BY <1>1, <1>2, <2>2, <2>3, WaiterJoins
  <2> QED BY <1>1, <2>2, <2>4, CallKeeps
<1>4. CASE ~ (value[x] - 1 < 0)
  <2>1. rtsys' = rtsys /\ waitingQ' = waitingQ
    BY <1>4 DEF Take
  <2>2. Served(rtsys, rtsys')
    BY <1>2, <2>1 DEF Served, SameClock
  <2> QED BY <1>1, <2>1, <2>2, CallKeeps
<1> QED BY <1>3, <1>4

\* The head of the waiting queue of x leaves it and is released.
LEMMA GiveQueued ==
  ASSUME QueuedInv, NEW x \in Semaphore, Give(x)
  PROVE  IInv' /\ WaitIn(rtsys', waitingQ')
<1>1. /\ Calling("ttGive") /\ NotBlocked /\ UNCHANGED pc
      /\ "ttKillJob" \notin Primitives /\ IInv /\ WaitIn(rtsys, waitingQ)
      /\ waitingQ \in [Semaphore -> Seq(UserTask)]
  BY SemaphoreAssumption DEF Give, QueuedInv, SemTypeOK, SemaphoreAssumption
<1>2. Sound(rtsys, ActiveUsers(rtsys), {})
  BY <1>1, CallerFacts
<1>3. CASE waitingQ[x] # << >> /\ rtsys' = MakeReady(rtsys, Head(waitingQ[x]))
           /\ waitingQ' = [waitingQ EXCEPT ![x] = Tail(@)]
  <2> DEFINE t == Head(waitingQ[x])
  <2>1. x \in DOMAIN waitingQ /\ waitingQ[x] \in Seq(UserTask) /\ waitingQ[x] # << >>
    BY <1>1, <1>3
  <2>2. t \in UserTask /\ t \in ActiveUsers(rtsys) /\ rtsys' = MakeReady(rtsys, t)
    BY <1>1, <1>2, <1>3, <2>1, HeadWaits
  <2>3. Served(rtsys, rtsys') /\ Parks(rtsys') = Parks(rtsys) \ {t}
    BY <1>2, <2>2, MakeReadyFrees
  <2>4. /\ DOMAIN waitingQ' = DOMAIN waitingQ
        /\ \A y \in DOMAIN waitingQ : y # x => waitingQ'[y] = waitingQ[y]
        /\ waitingQ'[x] = Tail(waitingQ[x])
    BY <1>1, <1>3
  <2>5. WaitIn(rtsys', waitingQ')
    BY <1>1, <2>1, <2>3, <2>4, WaiterLeaves
  <2> QED BY <1>1, <2>3, <2>5, CallKeeps
<1>4. CASE rtsys' = rtsys /\ waitingQ' = waitingQ
  <2>1. Served(rtsys, rtsys')
    BY <1>2, <1>4 DEF Served, SameClock
  <2> QED BY <1>1, <1>4, <2>1, CallKeeps
<1> QED BY <1>3, <1>4 DEF Give

LEMMA QueuedStep ==
  ASSUME SemInv, QueuedInv, [SemNext]_<<vars, semVars>>
  PROVE  SemInv' /\ QueuedInv'
<1>1. SemInv' /\ SemTypeOK'
  BY StepShape, SemInvStep DEF SemInv
<1>2. "ttKillJob" \notin Primitives /\ IInv /\ WaitIn(rtsys, waitingQ)
  BY SemaphoreAssumption DEF SemaphoreAssumption, QueuedInv
<1>3. CASE (OtherStep \/ UNCHANGED vars) /\ UNCHANGED semVars
  <2>1. IInv' /\ Parks(rtsys') = Parks(rtsys) /\ waitingQ' = waitingQ
    BY <1>2, <1>3, OtherSteps DEF semVars
  <2>2. WaitIn(rtsys', waitingQ')
    BY <1>2, <2>1, WaitersStay
  <2> QED BY <1>1, <2>1, <2>2 DEF QueuedInv
<1>4. ASSUME NEW x \in Semaphore, Take(x) \/ Give(x) PROVE QueuedInv'
  BY <1>1, <1>4, TakeQueued, GiveQueued DEF QueuedInv
<1> QED BY <1>1, <1>3, <1>4 DEF SemNext

-----------------------------------------------------------------------------
\* Below zero, value counts the tasks in waitingQ; otherwise no task waits.  So
\* the test of ttGive that its comment calls probably unnecessary is: waitingQ
\* is empty whenever value becomes positive.
THEOREM SemaphoreAccounting == SemSpec => []WaitersMatchValue
<1>1. SemInit => SemInv
  BY SemInitial
<1>2. SemInv /\ [SemNext]_<<vars, semVars>> => SemInv'
  BY StepShape, SemInvStep DEF SemInv
<1>3. SemInv => WaitersMatchValue
  BY DEF SemInv
<1> QED BY <1>1, <1>2, <1>3, PTL DEF SemSpec

\* Semaphores implement counting semaphores: units are conserved up to MaxVal,
\* no task waits while there are units, and waiting tasks are served in order.
THEOREM SemaphoreRefinement == SemSpec => CountingSemaphore
<1>1. SemInit => SemInv /\ Counting!Init
  BY SemInitial
<1>2. SemInv /\ [SemNext]_<<vars, semVars>> => SemInv' /\ [Counting!Next]_(Counting!vars)
  BY StepShape, SemInvStep DEF SemInv
<1> QED BY <1>1, <1>2, PTL DEF SemSpec, CountingSemaphore, Counting!Spec

\* A task that blocks in ttTake neither keeps its CPU nor gets lost: each active
\* job is in one ready, time or waiting queue and its state says which.
THEOREM SemaphoreQueueing == SemSpec => []SemaphoreJobsAreQueued
<1>1. SemInit => SemInv /\ QueuedInv
  <2> SUFFICES ASSUME SemInit PROVE SemInv /\ QueuedInv
    OBVIOUS
  <2>1. SemInv /\ Init /\ waitingQ = [x \in Semaphore |-> << >>]
    BY SemInitial DEF SemInit
  <2>2. IInv /\ WaitIn(rtsys, waitingQ)
    BY <2>1, NobodyWaitsAtFirst
  <2> QED BY <2>1, <2>2 DEF QueuedInv, SemInv
<1>2. SemInv /\ QueuedInv /\ [SemNext]_<<vars, semVars>> => SemInv' /\ QueuedInv'
  BY QueuedStep
<1>3. QueuedInv => SemaphoreJobsAreQueued
  BY EveryJobHasAQueue, SemaphoreAssumption
     DEF SemaphoreAssumption, QueuedInv, SemaphoreJobsAreQueued
<1> QED BY <1>1, <1>2, <1>3, PTL DEF SemSpec
=============================================================================
