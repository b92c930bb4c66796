------------------------------ MODULE TTKernel ------------------------------
(***************************************************************************)
(* The TrueTime real-time kernel (src/truetime-2.0/kernel): runKernel, the *)
(* ready queues, the time queue, the default scheduling hooks, the job     *)
(* queues of tasks and interrupt handlers, and the primitives a code       *)
(* segment calls to create jobs, to kill them, to sleep and to jump.       *)
(*                                                                         *)
(* rtsys is the kernel's global RTsys structure; the other variables are   *)
(* the locals of a runKernel call and where in that call execution is.     *)
(* Times are integers in units in which TT_TIME_RESOLUTION is negligible;  *)
(* clock drift and offset, the CPU scaling and the energy level have their *)
(* default values.  A code segment is arbitrary code: any few primitives   *)
(* of Primitives, then an execution time or FINISHED.                      *)
(***************************************************************************)
EXTENDS Integers, Sequences, FiniteSets, SequencesExt

CONSTANTS
  UserTask, Handler,   \* the tasks and the interrupt handlers
  KernelHandler,       \* the handler that simulates context switches
  External,            \* handlers attached to a trigger or a network port
  None,                \* a null pointer
  NbrOfCPUs,
  Affinity,            \* [Task -> CPU], set before the simulation starts
  NonPreemptible,      \* tasks marked by ttNonPreemptible
  Policy,              \* prioFcn: "FP", "DM" or "EDF"
  Priority,            \* [Task -> Int]
  Deadline, WCET,      \* [UserTask -> Nat], relative deadline and budget
  StartTime, Period,   \* [UserTask -> Int], negative StartTime: no timer
  DLHandler, WCETHandler,   \* [UserTask -> Handler \cup {None}]
  ContextSwitchTime,
  Primitives,          \* the primitives that code segments call
  ExecTimes,           \* the execution times that code segments return
  SleepTimes,          \* how long a code segment asks to sleep
  NewDeadlines,        \* how far off the deadlines are that code segments set
  MaxSegment,          \* bound: code functions finish by this segment
  MaxCalls,            \* bound: primitives called in one segment
  MaxPending,          \* bound: invocations of one task awaiting service
  MaxTime,             \* bound: the simulation stop time
  MaxIter,             \* TT_MAX_ITER
  MaxTimestep          \* TT_MAX_TIMESTEP

Task     == UserTask \cup Handler
CPU      == 0 .. NbrOfCPUs - 1
Activation(t)  == <<"activation", t>>
DLTimer(t)     == <<"deadline", t>>
WCETTimer(t)   == <<"wcet", t>>
Timer    == {"activation", "deadline", "wcet"} \X UserTask
QItem    == UserTask \cup Timer       \* what the time queue holds
State    == {"SLEEPING", "READY", "RUNNING", "WAITING"}

ASSUME TasksAssumption ==
  /\ IsFiniteSet(UserTask) /\ IsFiniteSet(Handler)
  /\ UserTask \cap Handler = {}
  /\ Task \cap Timer = {}
  /\ None \notin Task \cup Timer
  /\ KernelHandler \in Handler \cup {None}
  /\ External \subseteq Handler \ {KernelHandler}
  /\ NonPreemptible \subseteq Task
ASSUME AttributesAssumption ==
  /\ NbrOfCPUs \in Nat \ {0}
  /\ Affinity \in [Task -> CPU]
  /\ Policy \in {"FP", "DM", "EDF"}
  /\ Priority \in [Task -> Int]
  /\ Deadline \in [UserTask -> Int] /\ WCET \in [UserTask -> Int]
  /\ StartTime \in [UserTask -> Int] /\ Period \in [UserTask -> Nat]
  /\ DLHandler \in [UserTask -> Handler \cup {None}]
  /\ WCETHandler \in [UserTask -> Handler \cup {None}]
  /\ ContextSwitchTime \in Nat
  /\ ContextSwitchTime > 0 => KernelHandler # None
ASSUME BoundsAssumption ==
  /\ ExecTimes \subseteq Nat /\ SleepTimes \subseteq Int /\ NewDeadlines \subseteq Int
  /\ MaxSegment \in Nat /\ MaxCalls \in Nat /\ MaxPending \in Nat
  /\ MaxTime \in Nat /\ MaxIter \in Nat /\ MaxTimestep \in Nat \ {0}

VARIABLES
  rtsys,        \* the RTsys structure
  pc,           \* where runKernel is; "idle" between calls, "aborted" at the end
  timeElapsed,  \* runKernel: time since the last call, 0 after the first pass
  niter,        \* runKernel: passes of the outer loop
  next,         \* runKernel: the saved next pointer of the time queue scan
  calls         \* primitives called so far by the code segment being run

vars == <<rtsys, pc, timeElapsed, niter, next, calls>>

-----------------------------------------------------------------------------
(***************************************************************************)
(* Lists (linkedlist.cpp).  A node is in at most one list, so moveToList   *)
(* first removes it from wherever it is.                                   *)
(***************************************************************************)

\* List::insertSorted: n goes right behind the last element it does not beat.
InsertSorted(q, n, Beats(_, _)) ==
  InsertAt(q, 1 + Max({0} \cup {i \in 1 .. Len(q) : ~ Beats(n, q[i])}), n)

First(q) == IF q = << >> THEN None ELSE q[1]

\* Node::getNext of n, an entry of q
NextOf(q, n) ==
  LET i == SelectInSeq(q, LAMBDA m : m = n)
  IN  IF i < Len(q) THEN q[i + 1] ELSE None

\* Node::remove.  Tasks only ever enter the ready queue of their own CPU.
Unlink(s, n) ==
  LET r == [s EXCEPT !.timeQ = RemoveFirst(@, n)]
  IN  IF n \in Timer THEN r ELSE [r EXCEPT !.readyQ[Affinity[n]] = RemoveFirst(@, n)]

Wakeup(s, n) == IF n \in Timer THEN s.expiry[n] ELSE s.release[n]

\* prioFcn, and what prioCmp compares: tempPrio while prioRaised
OwnPrio(s, t) == CASE Policy = "FP"  -> Priority[t]
                   [] Policy = "DM"  -> Deadline[t]
                   [] Policy = "EDF" -> s.absDeadline[t]
Prio(s, t) == IF s.tempPrio[t] = None THEN OwnPrio(s, t) ELSE s.tempPrio[t]

\* Mutants of PrioCmp: running tasks are preempted; equal priority goes ahead too.
PrioCmpPreempts(s, n, m) ==
  \/ n \in Handler /\ m \in UserTask
  \/ n \in UserTask /\ m \in UserTask /\ Prio(s, n) < Prio(s, m)
  \/ n \in Handler /\ m \in Handler /\ Priority[n] < Priority[m]
PrioCmpLoose(s, n, m) ==
  \/ n \in Handler /\ m \in UserTask
  \/ /\ n \in UserTask /\ m \in UserTask
     /\ ~ (m = s.runningUser[s.currentCPU] /\ m \in NonPreemptible)
     /\ Prio(s, n) <= Prio(s, m)
  \/ /\ n \in Handler /\ m \in Handler
     /\ ~ (s.state[m] = "RUNNING" /\ m \in NonPreemptible)
     /\ Priority[n] <= Priority[m]

\* n, about to be inserted, goes ahead of m, which is in the queue.
PrioCmp(s, n, m) ==
  \/ n \in Handler /\ m \in UserTask
  \/ /\ n \in UserTask /\ m \in UserTask
     /\ ~ (m = s.runningUser[s.currentCPU] /\ m \in NonPreemptible)
     /\ Prio(s, n) < Prio(s, m)
  \/ /\ n \in Handler /\ m \in Handler
     /\ ~ (s.state[m] = "RUNNING" /\ m \in NonPreemptible)
     /\ Priority[n] < Priority[m]

\* Mutant: into the ready queue of the CPU at hand instead of the task's own.
MoveToReadyQHere(s, t) ==
  LET d == Unlink(s, t)
      Beats(n, m) == PrioCmp(d, n, m)
  IN  [d EXCEPT !.readyQ[s.currentCPU] = InsertSorted(@, t, Beats)]

MoveToReadyQ(s, t) ==
  LET d == Unlink(s, t)
      Beats(n, m) == PrioCmp(d, n, m)
  IN  [d EXCEPT !.readyQ[Affinity[t]] = InsertSorted(@, t, Beats)]

\* Mutant: the state is not set.
MakeReadyStateless(s, t) == MoveToReadyQ(s, t)

MakeReady(s, t) == [MoveToReadyQ(s, t) EXCEPT !.state[t] = "READY"]

MoveToTimeQ(s, n) ==
  LET d == Unlink(s, n)
      Beats(m, p) == Wakeup(d, m) < Wakeup(d, p)
  IN  [d EXCEPT !.timeQ = InsertSorted(@, n, Beats)]

Arm(s, timer, time) == MoveToTimeQ([s EXCEPT !.expiry[timer] = time], timer)

-----------------------------------------------------------------------------
(***************************************************************************)
(* invoke_task and the default hooks.                                      *)
(***************************************************************************)

\* Mutant: the pending invocation is not counted.
EnqueueUncounted(s, t) == [s EXCEPT !.pending[t] = Append(@, s.time)]

\* invoke_task while a job of t is active: the invocation waits its turn.
Enqueue(s, t) == [s EXCEPT !.pending[t] = Append(@, s.time),
                           !.nbrInvocations[t] = @ + 1]

InvokeHandler(s, h) ==
  IF s.nbrInvocations[h] = 0
  THEN [MakeReady(s, h) EXCEPT !.nbrInvocations[h] = 1]
  ELSE Enqueue(s, h)

ContextSwitch(s) ==
  IF ContextSwitchTime > 0 THEN InvokeHandler(s, KernelHandler) ELSE s

ReleaseHook(s, t) ==
  LET b == ContextSwitch([s EXCEPT !.absDeadline[t] = s.arrival[t] + Deadline[t],
                                   !.budget[t] = WCET[t]])
  IN  IF DLHandler[t] = None THEN b ELSE Arm(b, DLTimer(t), b.absDeadline[t])

\* the part that start_hook and resume_hook share
ArmBudget(s, t) ==
  IF WCETHandler[t] # None /\ s.budget[t] > 0
  THEN Arm(s, WCETTimer(t), s.time + s.budget[t]) ELSE s

StartHook(s, t)   == ArmBudget(s, t)
ResumeHook(s, t)  == ArmBudget(s, t)
\* Mutants: a timer is left armed.
SuspendHookArmed(s, t) == ContextSwitch(s)
FinishHookArmed(s, t)  == ContextSwitch(Unlink(s, WCETTimer(t)))

SuspendHook(s, t) == ContextSwitch(Unlink(s, WCETTimer(t)))
FinishHook(s, t)  == ContextSwitch(Unlink(Unlink(s, DLTimer(t)), WCETTimer(t)))

InvokeUserTask(s, t) ==
  IF s.nbrInvocations[t] = 0
  THEN LET r == ReleaseHook([s EXCEPT !.arrival[t] = s.time,
                                      !.release[t] = s.time], t)
       IN  [MakeReady(r, t) EXCEPT !.nbrInvocations[t] = @ + 1]
  ELSE Enqueue(s, t)

InvokeTask(s, t) ==
  IF t \in UserTask THEN InvokeUserTask(s, t) ELSE InvokeHandler(s, t)

TimerTask(tm) == CASE tm[1] = "activation" -> tm[2]
                   [] tm[1] = "deadline"   -> DLHandler[tm[2]]
                   [] tm[1] = "wcet"       -> WCETHandler[tm[2]]
IsPeriodic(tm) == tm[1] = "activation" /\ Period[tm[2]] > 0

-----------------------------------------------------------------------------
(***************************************************************************)
(* Initial state: ttInitKernel, ttCreateTask, ttCreateHandler and the      *)
(* ttAttach... primitives have run and the activation timers are queued,   *)
(* equal start times in the order of the ttCreateTask calls.               *)
(***************************************************************************)
Started == {Activation(t) : t \in {u \in UserTask : StartTime[u] >= 0}}

InitialTimeQs ==
  {q \in [1 .. Cardinality(Started) -> Started] :
     \A i, j \in DOMAIN q : i < j => /\ q[i] # q[j]
                                     /\ StartTime[q[i][2]] <= StartTime[q[j][2]]}

InitialRTsys(q) ==
  [time |-> 0, prevHit |-> 0, nextHit |-> 0, currentCPU |-> 0,
   state |-> [t \in Task |-> "SLEEPING"],
   segment |-> [t \in Task |-> 0],
   nextSegment |-> [t \in Task |-> 1],
   execTime |-> [t \in Task |-> 0],
   nbrInvocations |-> [t \in Task |-> 0],
   pending |-> [t \in Task |-> << >>],
   arrival |-> [t \in UserTask |-> 0],   \* uninitialised until the first release
   release |-> [t \in UserTask |-> 0],
   absDeadline |-> [t \in UserTask |-> Deadline[t]],
   budget |-> [t \in UserTask |-> Deadline[t]],
   tempPrio |-> [t \in UserTask |-> None],   \* None: prioRaised is false
   expiry |-> [tm \in Timer |-> IF tm[1] = "activation" THEN StartTime[tm[2]] ELSE 0],
   readyQ |-> [c \in CPU |-> << >>],
   timeQ |-> q,
   running |-> [c \in CPU |-> None],
   runningUser |-> [c \in CPU |-> None]]

Init ==
  /\ \E q \in InitialTimeQs : rtsys = InitialRTsys(q)
  /\ pc = "idle"
  /\ timeElapsed = 0
  /\ niter = 0
  /\ next = None
  /\ calls = 0

-----------------------------------------------------------------------------
(***************************************************************************)
(* mdlOutputs at the next hit calls runKernel.                             *)
(***************************************************************************)
RunKernel ==
  /\ pc = "idle"
  /\ rtsys.nextHit <= MaxTime
  /\ rtsys' = [rtsys EXCEPT !.time = rtsys.nextHit, !.prevHit = rtsys.nextHit,
                            !.currentCPU = 0]
  /\ timeElapsed' = rtsys.nextHit - rtsys.prevHit
  /\ niter' = 1
  /\ pc' = "count"
  /\ UNCHANGED <<next, calls>>

\* mdlZeroCrossings: a trigger or a network packet invokes handler h at time t.
\* Several of them in one call, each a step, come before runKernel handles the
\* first, and one may come just when runKernel is due.
Interrupt(h, t) ==
  /\ pc = "idle"
  /\ rtsys.nbrInvocations[h] < MaxPending
  /\ t >= rtsys.time /\ t <= rtsys.nextHit /\ t <= MaxTime
  /\ LET s == InvokeHandler([rtsys EXCEPT !.time = t], h)
     IN  rtsys' = IF s.nbrInvocations[h] = 1 THEN [s EXCEPT !.nextHit = t] ELSE s
  /\ UNCHANGED <<pc, timeElapsed, niter, next, calls>>

-----------------------------------------------------------------------------
(***************************************************************************)
(* First loop of a pass: per CPU, charge the elapsed time to the running   *)
(* task and start its next segment when the current one is over.           *)
(***************************************************************************)

\* Mutant: one CPU too many.
NextCPUTooFar(s) ==
  IF s.currentCPU < NbrOfCPUs
  THEN rtsys' = [s EXCEPT !.currentCPU = @ + 1] /\ pc' = "count" /\ UNCHANGED next
  ELSE rtsys' = s /\ pc' = "timers" /\ next' = First(s.timeQ)

\* Go on to the next CPU, or to the scan of the time queue, with rtsys' = s.
NextCPU(s) ==
  IF s.currentCPU < NbrOfCPUs - 1
  THEN /\ rtsys' = [s EXCEPT !.currentCPU = @ + 1]
       /\ pc' = "count"
       /\ UNCHANGED next
  ELSE /\ rtsys' = s
       /\ pc' = "timers"
       /\ next' = First(s.timeQ)

Current == rtsys.running[rtsys.currentCPU]    \* rtsys->running

Charge(s, t) ==
  LET r == [s EXCEPT !.state[t] = IF @ = "RUNNING" THEN "READY" ELSE @,
                     !.execTime[t] = @ - timeElapsed]
  IN  IF t \in UserTask THEN [r EXCEPT !.budget[t] = @ - timeElapsed] ELSE r

SkipCPU ==
  /\ pc = "count" /\ Current = None
  /\ NextCPU(rtsys)
  /\ UNCHANGED <<timeElapsed, niter, calls>>

CountDown ==
  /\ pc = "count" /\ Current # None
  /\ rtsys.execTime[Current] > timeElapsed
  /\ NextCPU(Charge(rtsys, Current))
  /\ UNCHANGED <<timeElapsed, niter, calls>>

StartSegment ==
  /\ pc = "count" /\ Current # None
  /\ rtsys.execTime[Current] <= timeElapsed
  /\ rtsys' = LET s == Charge(rtsys, Current)
              IN  [s EXCEPT !.segment[Current] = s.nextSegment[Current],
                            !.nextSegment[Current] = s.nextSegment[Current] + 1]
  /\ pc' = "segment"
  /\ calls' = 0
  /\ UNCHANGED <<timeElapsed, niter, next>>

-----------------------------------------------------------------------------
(***************************************************************************)
(* The code function of a segment.  An illegal call sets rtsys->error and  *)
(* the simulation is aborted as soon as the code function returns.         *)
(***************************************************************************)
Calling(primitive) ==
  /\ pc = "segment"
  /\ Current # KernelHandler
  /\ primitive \in Primitives
  /\ calls < MaxCalls
  /\ calls' = calls + 1
  /\ UNCHANGED <<timeElapsed, niter, next>>

Abort == pc' = "aborted" /\ UNCHANGED rtsys

CreateJob(t) ==
  /\ Calling("ttCreateJob")
  /\ rtsys.nbrInvocations[t] < MaxPending
  /\ rtsys' = InvokeUserTask(rtsys, t)
  /\ UNCHANGED pc

\* Mutants of KilledJob: the killed task stays queued; the finish hook is not
\* called; the released job stays pending.
KilledJobQueued(s, t) == [FinishHook(s, t) EXCEPT !.nbrInvocations[t] = @ - 1]
KilledJobUnhooked(s, t) ==
  LET r == [Unlink(s, t) EXCEPT !.nbrInvocations[t] = @ - 1]
  IN  IF r.nbrInvocations[t] > 0
      THEN [ReleaseHook(MoveToReadyQ(r, t), t) EXCEPT !.pending[t] = Tail(@)] ELSE r
KilledJobPending(s, t) ==
  LET r == [FinishHook(Unlink(s, t), t) EXCEPT !.nbrInvocations[t] = @ - 1]
  IN  IF r.nbrInvocations[t] > 0 THEN ReleaseHook(MoveToReadyQ(r, t), t) ELSE r

\* The next job keeps the arrival time and the nextSegment of the killed one.
KilledJob(s, t) ==
  LET r == [FinishHook(Unlink([s EXCEPT !.execTime[t] = 0, !.segment[t] = 0], t), t)
              EXCEPT !.nbrInvocations[t] = @ - 1]
      m == [MoveToReadyQ(r, t) EXCEPT !.release[t] = Head(r.pending[t])]
  IN  IF r.nbrInvocations[t] > 0
      THEN [ReleaseHook(m, t) EXCEPT !.pending[t] = Tail(@)]
      ELSE r

KillJob(t) ==
  /\ Calling("ttKillJob")
  /\ IF rtsys.nbrInvocations[t] = 0 \/ t = Current
     THEN Abort
     ELSE rtsys' = KilledJob(rtsys, t) /\ UNCHANGED pc

SleepUntil(time) ==
  /\ Calling("ttSleepUntil")
  /\ IF Current \in Handler
     THEN Abort
     ELSE /\ UNCHANGED pc
          /\ rtsys' = IF time <= rtsys.time THEN rtsys
                      ELSE LET s == MoveToTimeQ([rtsys EXCEPT !.release[Current] = time], Current)
                           IN  SuspendHook([s EXCEPT !.state[Current] = "SLEEPING"], Current)

\* Mutant: the ready queue is not sorted again.
SetAbsDeadlineUnsorted(t, time) ==
  /\ Calling("ttSetAbsDeadline")
  /\ rtsys.nbrInvocations[t] # 0
  /\ rtsys' = LET s == [rtsys EXCEPT !.absDeadline[t] = time]
              IN  IF DLTimer(t) \in ToSet(s.timeQ) THEN Arm(s, DLTimer(t), time) ELSE s
  /\ UNCHANGED pc

\* The timer of a deadline that has been missed is not armed again.
SetAbsDeadline(t, time) ==
  /\ Calling("ttSetAbsDeadline")
  /\ IF rtsys.nbrInvocations[t] = 0
     THEN Abort
     ELSE LET s == [rtsys EXCEPT !.absDeadline[t] = time]
              d == IF DLTimer(t) \in ToSet(s.timeQ) THEN Arm(s, DLTimer(t), time) ELSE s
          IN  /\ rtsys' = IF t \in ToSet(d.readyQ[Affinity[t]]) THEN MoveToReadyQ(d, t) ELSE d
              /\ UNCHANGED pc

SetNextSegment(seg) ==
  /\ Calling("ttSetNextSegment")
  /\ IF seg > 0
     THEN rtsys' = [rtsys EXCEPT !.nextSegment[Current] = seg] /\ UNCHANGED pc
     ELSE Abort

\* contextSwitchCode: one segment of contextSimTime, then FINISHED
MayReturn(e) ==
  IF Current = KernelHandler
  THEN rtsys.segment[Current] = 1 /\ e = ContextSwitchTime
  ELSE e \in ExecTimes /\ rtsys.segment[Current] < MaxSegment

SegmentReturns(e) ==
  /\ pc = "segment"
  /\ MayReturn(e)
  /\ NextCPU([rtsys EXCEPT !.execTime[Current] = e])
  /\ UNCHANGED <<timeElapsed, niter, calls>>

\* Mutant: nextSegment is not reset.
EndJobMidway(s, t) ==
  LET r == [Unlink(s, t) EXCEPT !.execTime[t] = 0, !.segment[t] = 0,
                                !.state[t] = "SLEEPING", !.running[s.currentCPU] = None]
      f == IF t \in UserTask THEN FinishHook(r, t) ELSE r
  IN  [f EXCEPT !.nbrInvocations[t] = @ - 1, !.runningUser[s.currentCPU] = None]

\* The finished job of t leaves the CPU ...
EndJob(s, t) ==
  LET r == [Unlink(s, t) EXCEPT !.execTime[t] = 0, !.segment[t] = 0,
                                !.nextSegment[t] = 1, !.state[t] = "SLEEPING",
                                !.running[s.currentCPU] = None]
      f == IF t \in UserTask
           THEN [FinishHook(r, t) EXCEPT !.runningUser[s.currentCPU] = None]
           ELSE r
  IN  [f EXCEPT !.nbrInvocations[t] = @ - 1]

\* Mutants of ReleasePending: the pending job is not made ready; its arrival
\* time is the time of its release.
ReleasePendingIdle(s, t) ==
  LET r == IF t \in UserTask THEN ReleaseHook(s, t) ELSE s
  IN  IF s.nbrInvocations[t] > 0 THEN [r EXCEPT !.pending[t] = Tail(@)] ELSE s
ReleasePendingLate(s, t) ==
  LET a == [s EXCEPT !.arrival[t] = s.time, !.release[t] = s.time]
      r == IF t \in UserTask THEN ReleaseHook(a, t) ELSE s
  IN  IF s.nbrInvocations[t] > 0 THEN [MakeReady(r, t) EXCEPT !.pending[t] = Tail(@)] ELSE s

\* ... and the first pending one, if any, is released.
ReleasePending(s, t) ==
  LET a == [s EXCEPT !.arrival[t] = Head(s.pending[t]), !.release[t] = s.time]
      r == IF t \in UserTask THEN ReleaseHook(a, t) ELSE s
  IN  IF s.nbrInvocations[t] > 0
      THEN [MakeReady(r, t) EXCEPT !.pending[t] = Tail(@)]
      ELSE s

JobFinishes ==
  /\ pc = "segment"
  /\ Current = KernelHandler => rtsys.segment[Current] # 1
  /\ rtsys.state[Current] = "READY"
  /\ NextCPU(ReleasePending(EndJob(rtsys, Current), Current))
  /\ UNCHANGED <<timeElapsed, niter, calls>>

\* A code function that blocked its task must not return FINISHED.
FinishBlocked ==
  /\ pc = "segment"
  /\ Current = KernelHandler => rtsys.segment[Current] # 1
  /\ rtsys.state[Current] # "READY"
  /\ Abort
  /\ UNCHANGED <<timeElapsed, niter, next, calls>>

-----------------------------------------------------------------------------
(***************************************************************************)
(* Second loop: timers that expire and sleeping tasks that wake up.  The   *)
(* pointer to the next entry is saved before the current one is handled.   *)
(***************************************************************************)
Due(n) == n # None /\ Wakeup(rtsys, n) <= rtsys.time

\* Mutant: a periodic timer is moved before its expiry is advanced.
TimerExpiresUnsorted ==
  /\ pc = "timers" /\ Due(next) /\ next \in Timer
  /\ LET s == InvokeTask(rtsys, TimerTask(next))
     IN  rtsys' = IF IsPeriodic(next)
                  THEN [MoveToTimeQ(s, next) EXCEPT !.expiry[next] = @ + Period[next[2]]]
                  ELSE Unlink(s, next)
  /\ next' = NextOf(rtsys.timeQ, next)
  /\ UNCHANGED <<pc, timeElapsed, niter, calls>>

TimerExpires ==
  /\ pc = "timers" /\ Due(next) /\ next \in Timer
  /\ LET s == InvokeTask(rtsys, TimerTask(next))
         p == [s EXCEPT !.expiry[next] = @ + Period[next[2]]]
     IN  rtsys' = IF IsPeriodic(next) THEN MoveToTimeQ(p, next) ELSE Unlink(s, next)
  /\ next' = NextOf(rtsys.timeQ, next)
  /\ UNCHANGED <<pc, timeElapsed, niter, calls>>

TaskWakes ==
  /\ pc = "timers" /\ Due(next) /\ next \in UserTask
  /\ rtsys' = MakeReady(rtsys, next)
  /\ next' = NextOf(rtsys.timeQ, next)
  /\ UNCHANGED <<pc, timeElapsed, niter, calls>>

ScanEnds ==
  /\ pc = "timers" /\ ~ Due(next)
  /\ pc' = "dispatch"
  /\ rtsys' = [rtsys EXCEPT !.currentCPU = 0]
  /\ next' = None
  /\ UNCHANGED <<timeElapsed, niter, calls>>

-----------------------------------------------------------------------------
(***************************************************************************)
(* Third loop: per CPU, run the first task of the ready queue.             *)
(***************************************************************************)
Suspended(s, c, new) ==
  IF s.running[c] \in UserTask /\ s.running[c] # new
  THEN SuspendHook(s, s.running[c]) ELSE s

Resumed(s, c, new) ==
  IF new \notin UserTask \/ new = s.running[c] THEN s
  ELSE LET r == IF s.segment[new] = 0
                THEN StartHook([s EXCEPT !.segment[new] = 1], new)
                ELSE ResumeHook(s, new)
       IN  [r EXCEPT !.runningUser[c] = new]

Dispatched(s, c) ==
  LET new == First(s.readyQ[c])
      r == Resumed(Suspended(s, c, new), c, new)
      run == First(r.readyQ[c])      \* hooks may have released handlers
      d == [r EXCEPT !.running[c] = run]
  IN  IF run = None THEN d ELSE [d EXCEPT !.state[run] = "RUNNING"]

Dispatch ==
  /\ pc = "dispatch"
  /\ LET d == Dispatched(rtsys, rtsys.currentCPU)
     IN  IF rtsys.currentCPU < NbrOfCPUs - 1
         THEN rtsys' = [d EXCEPT !.currentCPU = @ + 1] /\ UNCHANGED pc
         ELSE rtsys' = d /\ pc' = "advance"
  /\ UNCHANGED <<timeElapsed, niter, next, calls>>

-----------------------------------------------------------------------------
(***************************************************************************)
(* The time step to the next call, or another pass when it is zero.        *)
(***************************************************************************)
TimeToWakeup == IF rtsys.timeQ = << >> THEN MaxTimestep
                ELSE Wakeup(rtsys, rtsys.timeQ[1]) - rtsys.time

\* Mutants of Candidates: no running task counts; only CPU 0's does.
CandidatesTimers == {TimeToWakeup}
CandidatesCPU0 ==
  {TimeToWakeup} \cup IF rtsys.running[0] = None THEN {} ELSE {rtsys.execTime[rtsys.running[0]]}

Candidates ==
  {TimeToWakeup} \cup
  {rtsys.execTime[rtsys.running[c]] : c \in {d \in CPU : rtsys.running[d] # None}}

IsTimestep(m) == m \in Candidates /\ \A d \in Candidates : m <= d

NextInvocation(timestep) ==
  /\ pc = "advance"
  /\ IsTimestep(timestep)
  /\ timestep > 0
  /\ pc' = "idle"
  /\ rtsys' = [rtsys EXCEPT !.nextHit = rtsys.time + timestep]
  /\ timeElapsed' = 0
  /\ UNCHANGED <<niter, next, calls>>

\* Mutant: the passes are not counted.
AnotherPassUncounted ==
  /\ pc = "advance" /\ \E d \in Candidates : d <= 0
  /\ pc' = "count" /\ rtsys' = [rtsys EXCEPT !.currentCPU = 0] /\ timeElapsed' = 0
  /\ UNCHANGED <<niter, next, calls>>

AnotherPass ==
  /\ pc = "advance"
  /\ \E d \in Candidates : d <= 0
  /\ niter' = niter + 1
  /\ timeElapsed' = 0
  /\ IF niter + 1 = MaxIter
     THEN Abort
     ELSE pc' = "count" /\ rtsys' = [rtsys EXCEPT !.currentCPU = 0]
  /\ UNCHANGED <<next, calls>>

-----------------------------------------------------------------------------
SegmentCall ==
  \/ \E t \in UserTask : CreateJob(t) \/ KillJob(t)
  \/ \E d \in SleepTimes : SleepUntil(rtsys.time + d)
  \/ \E t \in UserTask, d \in NewDeadlines : SetAbsDeadline(t, rtsys.time + d)
  \/ \E seg \in 0 .. MaxSegment : SetNextSegment(seg)

RunStep ==
  \/ SkipCPU \/ CountDown \/ StartSegment
  \/ \E e \in ExecTimes \cup {ContextSwitchTime} : SegmentReturns(e)
  \/ JobFinishes \/ FinishBlocked
  \/ TimerExpires \/ TaskWakes \/ ScanEnds
  \/ Dispatch
  \/ (\E timestep \in Candidates : NextInvocation(timestep)) \/ AnotherPass

KernelStep == RunStep \/ SegmentCall

Next ==
  \/ RunKernel
  \/ \E h \in External, t \in 0 .. MaxTime : Interrupt(h, t)
  \/ KernelStep

Spec == Init /\ [][Next]_vars

\* A call of runKernel is sequential code that is never left half-way.
FairSpec == Spec /\ WF_vars(KernelStep)

-----------------------------------------------------------------------------
(***************************************************************************)
(* Properties.                                                             *)
(***************************************************************************)
\* The shape of the kernel state.
RTsysType ==
  [time : Nat, prevHit : Nat, nextHit : Nat, currentCPU : CPU,
   state : [Task -> State],
   segment : [Task -> Nat], nextSegment : [Task -> Nat],
   execTime : [Task -> Int], nbrInvocations : [Task -> Int],
   pending : [Task -> Seq(Nat)],
   arrival : [UserTask -> Int], release : [UserTask -> Int],
   absDeadline : [UserTask -> Int], budget : [UserTask -> Int],
   expiry : [Timer -> Int], tempPrio : [UserTask -> Int \cup {None}],
   readyQ : [CPU -> Seq(Task)], timeQ : Seq(QItem),
   running : [CPU -> Task \cup {None}],
   runningUser : [CPU -> UserTask \cup {None}]]

\* Every variable keeps its type, and code runs only for a current task.
TypeOK ==
  /\ rtsys \in RTsysType
  /\ pc \in {"idle", "count", "segment", "timers", "dispatch", "advance", "aborted"}
  /\ timeElapsed \in Nat
  /\ niter \in Nat
  /\ next \in QItem \cup {None}
  /\ calls \in Nat
  /\ pc = "segment" => Current # None

\* nbrInvocations counts the active job and the pending ones (invoke_task,
\* the FINISHED branch of runKernel), and it never goes negative.
JobAccounting ==
  \A t \in Task :
    /\ rtsys.nbrInvocations[t] >= 0
    /\ Len(rtsys.pending[t]) = IF rtsys.nbrInvocations[t] = 0 THEN 0
                               ELSE rtsys.nbrInvocations[t] - 1

Places(t, q) == {i \in 1 .. Len(q) : q[i] = t}

\* A task with an active job is in exactly one queue, its CPU's ready queue or
\* the time queue, and there once; a task without one is in none: the scheduler
\* neither forgets a job nor schedules it twice.
ActiveJobsAreQueued ==
  \A t \in Task :
    /\ \A c \in CPU \ {Affinity[t]} : t \notin ToSet(rtsys.readyQ[c])
    /\ Cardinality(Places(t, rtsys.readyQ[Affinity[t]])) + Cardinality(Places(t, rtsys.timeQ))
         = IF rtsys.nbrInvocations[t] > 0 THEN 1 ELSE 0

\* A task is in a ready queue exactly while its state is READY or RUNNING: the
\* test on the state that guards the end of a job, and the schedule plot, rely
\* on it.
StateTellsQueue ==
  \A t \in Task :
    rtsys.state[t] \in {"READY", "RUNNING"} <=> t \in ToSet(rtsys.readyQ[Affinity[t]])

\* The time queue is ordered by wakeup time although release and expiry times
\* are rewritten by hooks and primitives: the scan may stop at the first entry
\* that is not due.
TimeQSorted ==
  \A i, j \in 1 .. Len(rtsys.timeQ) :
    i < j => Wakeup(rtsys, rtsys.timeQ[i]) <= Wakeup(rtsys, rtsys.timeQ[j])

Settled == pc = "idle" /\ rtsys.time < rtsys.nextHit   \* no kernel run is due

\* Between two kernel runs every CPU runs a task that no ready task of its
\* queue should preempt.
HighestPriorityRuns ==
  Settled =>
    \A c \in CPU :
      LET r == rtsys.running[c]
          ready == ToSet(rtsys.readyQ[c])
      IN  /\ r = None <=> ready = {}
          /\ r \in UserTask =>
               /\ ready \cap Handler = {}
               /\ r \in NonPreemptible \/ \A t \in ready : Prio(rtsys, r) <= Prio(rtsys, t)
          /\ r \in Handler =>
               r \in NonPreemptible \/ \A h \in ready \cap Handler : Priority[r] <= Priority[h]

\* A user task that has become ready is behind the handlers, behind those of
\* higher priority and behind those of equal priority that became ready before
\* it, and runKernel takes the first one: equal priority neither preempts nor
\* overtakes, whether the queue changes by releases, wake-ups, ends of jobs or
\* preemption.  It implies HighestPriorityRuns where nothing is non-preemptible.
\* (Tasks that block, and those whose deadline is set, change places without a
\* new release time.)
ReadyQInOrder ==
  \A c \in CPU :
    LET q == rtsys.readyQ[c]
    IN  /\ Settled => rtsys.running[c] = First(q)
        /\ \A i, j \in 1 .. Len(q) : i < j =>
             \/ q[i] \in Handler
             \/ /\ q[j] \in UserTask
                /\ \/ Prio(rtsys, q[i]) < Prio(rtsys, q[j])
                   \/ /\ Prio(rtsys, q[i]) = Prio(rtsys, q[j])
                      /\ rtsys.release[q[i]] <= rtsys.release[q[j]]

\* The kernel runs again before anything it must act on: no wakeup or timer is
\* served late and no segment runs longer than its execution time.
NoEventIsMissed ==
  /\ pc = "idle" =>
       /\ \A n \in ToSet(rtsys.timeQ) : rtsys.nextHit <= Wakeup(rtsys, n) \/ rtsys.nextHit = 0
       /\ \A c \in CPU : rtsys.running[c] # None =>
            rtsys.nextHit <= rtsys.prevHit + rtsys.execTime[rtsys.running[c]]
  /\ \A t \in Task : rtsys.execTime[t] >= 0

\* The deadline timer of a task is armed exactly while a job is active whose
\* deadline lies ahead, and for that job's deadline.
DeadlineTimerFollowsJob ==
  \A t \in UserTask : DLHandler[t] # None =>
    LET armed == DLTimer(t) \in ToSet(rtsys.timeQ)
    IN  /\ armed => /\ rtsys.nbrInvocations[t] > 0
                    /\ rtsys.expiry[DLTimer(t)] = rtsys.absDeadline[t]
        /\ rtsys.nbrInvocations[t] > 0 /\ rtsys.absDeadline[t] > rtsys.time => armed

\* The budget timer of a task runs exactly while the task does, and expires
\* when the budget that is left is used up (without context switch overhead).
\* The accounts are half-way while the segments are counted down, and stay so
\* when the simulation is aborted there.
BudgetTimerFollowsTask ==
  \A t \in UserTask : WCETHandler[t] # None =>
    LET armed == WCETTimer(t) \in ToSet(rtsys.timeQ)
        runs  == rtsys.running[Affinity[t]] = t
    IN  /\ armed /\ pc \notin {"count", "segment", "aborted"} =>
             rtsys.expiry[WCETTimer(t)] = rtsys.prevHit + rtsys.budget[t]
        /\ pc = "idle" => (armed <=> runs /\ rtsys.budget[t] > 0)

\* A job that has not started yet will start with its first segment, wherever
\* the job before has jumped to and however it ended.
JobStartsAtFirstSegment ==
  \A t \in Task : rtsys.segment[t] = 0 => rtsys.nextSegment[t] = 1

\* A task marked by ttNonPreemptible gives its CPU to another user task only
\* when its job ends or it sleeps.
NonPreemptibleKeepsCPU ==
  [][\A c \in CPU :
       LET t == rtsys.runningUser[c]
           u == rtsys'.runningUser[c]
       IN  t \in NonPreemptible /\ rtsys.segment[t] > 0 /\ u \notin {t, None} =>
             t \notin ToSet(rtsys.readyQ[c])]_vars

\* The jobs of every user task are served in the order of their arrival
\* (refinement of TTJobs: the active job followed by the pending ones).
Jobs == INSTANCE TTJobs WITH
  clock <- rtsys.time,
  jobs <- [t \in UserTask |-> IF rtsys.nbrInvocations[t] = 0 THEN << >>
                              ELSE <<rtsys.arrival[t]>> \o rtsys.pending[t]]
JobsServedInOrder == Jobs!Spec

\* A kernel run comes to an end, whatever the code functions do (TT_MAX_ITER).
KernelRunsTerminate == pc # "idle" ~> pc \in {"idle", "aborted"}
=============================================================================
