---------------------------- MODULE TTSemaphore ----------------------------
(***************************************************************************)
(* Semaphores (createsemaphore.cpp, take.cpp, give.cpp) on the TrueTime    *)
(* kernel.  ttKillJob is left out: it takes a waiting task off waitingQ    *)
(* without giving back the unit the task is counted for.                   *)
(***************************************************************************)
EXTENDS TTSync

CONSTANTS Semaphore, InitVal, MaxVal     \* [Semaphore -> Int]

ASSUME SemaphoreAssumption ==
  /\ InitVal \in [Semaphore -> Nat] /\ MaxVal \in [Semaphore -> Nat]
  /\ "ttKillJob" \notin Primitives

VARIABLES value, waitingQ

semVars == <<value, waitingQ>>

SemInit ==
  /\ Init
  /\ value = InitVal
  /\ waitingQ = [x \in Semaphore |-> << >>]

\* Mutants: the task blocks when the last unit is taken; it overtakes others.
TakeLastBlocks(x) ==
  /\ Calling("ttTake") /\ Current \in UserTask /\ NotBlocked
  /\ value' = [value EXCEPT ![x] = @ - 1]
  /\ IF value'[x] <= 0
     THEN /\ rtsys' = Blocked(rtsys, Current)
          /\ waitingQ' = [waitingQ EXCEPT ![x] = Append(@, Current)]
     ELSE UNCHANGED <<rtsys, waitingQ>>
  /\ UNCHANGED pc

TakeAhead(x) ==
  /\ Calling("ttTake") /\ Current \in UserTask /\ NotBlocked
  /\ value' = [value EXCEPT ![x] = @ - 1]
  /\ IF value[x] - 1 < 0
     THEN /\ rtsys' = Blocked(rtsys, Current)
          /\ waitingQ' = [waitingQ EXCEPT ![x] = <<Current>> \o @]
     ELSE UNCHANGED <<rtsys, waitingQ>>
  /\ UNCHANGED pc

Take(x) ==
  /\ Calling("ttTake") /\ Current \in UserTask /\ NotBlocked
  /\ value' = [value EXCEPT ![x] = @ - 1]
  /\ IF value[x] - 1 < 0
     THEN /\ rtsys' = Blocked(rtsys, Current)
          /\ waitingQ' = [waitingQ EXCEPT ![x] = Append(@, Current)]
     ELSE UNCHANGED <<rtsys, waitingQ>>
  /\ UNCHANGED pc

\* Mutants: the released task goes to the end of the ready queue; it stays in
\* waitingQ.
GiveUnsorted(x) ==
  /\ Calling("ttGive") /\ NotBlocked
  /\ value[x] < 0 /\ waitingQ[x] # << >>
  /\ value' = [value EXCEPT ![x] = @ + 1]
  /\ LET t == Head(waitingQ[x])
     IN  rtsys' = [rtsys EXCEPT !.readyQ[Affinity[t]] = Append(@, t), !.state[t] = "READY"]
  /\ waitingQ' = [waitingQ EXCEPT ![x] = Tail(@)]
  /\ UNCHANGED pc
GiveCopies(x) ==
  /\ Calling("ttGive") /\ NotBlocked
  /\ value[x] < MaxVal[x]
  /\ value' = [value EXCEPT ![x] = @ + 1]
  /\ IF value[x] < 0 /\ waitingQ[x] # << >>
     THEN rtsys' = MakeReady(rtsys, Head(waitingQ[x]))
     ELSE UNCHANGED rtsys
  /\ UNCHANGED <<pc, waitingQ>>

Give(x) ==
  /\ Calling("ttGive") /\ NotBlocked
  /\ IF value[x] >= MaxVal[x]
     THEN UNCHANGED <<rtsys, value, waitingQ>>
     ELSE /\ value' = [value EXCEPT ![x] = @ + 1]
          /\ IF value[x] + 1 <= 0 /\ waitingQ[x] # << >>
             THEN /\ rtsys' = MakeReady(rtsys, Head(waitingQ[x]))
                  /\ waitingQ' = [waitingQ EXCEPT ![x] = Tail(@)]
             ELSE UNCHANGED <<rtsys, waitingQ>>
  /\ UNCHANGED pc

SemNext ==
  \/ OtherStep /\ UNCHANGED semVars
  \/ \E x \in Semaphore : Take(x) \/ Give(x)

SemSpec == SemInit /\ [][SemNext]_<<vars, semVars>>

-----------------------------------------------------------------------------
\* Below zero, value counts the waiting tasks, and otherwise none waits: no
\* task is left waiting when a unit is available (ttTake, ttGive).
WaitersMatchValue ==
  \A x \in Semaphore :
    Len(waitingQ[x]) = IF value[x] < 0 THEN 0 - value[x] ELSE 0

\* Each active job is in one ready, time or waiting queue and its state says
\* which: a task that blocks neither keeps its CPU nor gets lost.
SemaphoreJobsAreQueued == EveryJobIsIn(waitingQ)

\* Semaphores implement the counting semaphore with a FIFO queue.
Counting == INSTANCE TTCounting WITH
  units <- [x \in Semaphore |-> IF value[x] > 0 THEN value[x] ELSE 0],
  waiting <- waitingQ
CountingSemaphore == Counting!Spec
=============================================================================
