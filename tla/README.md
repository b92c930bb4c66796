# Verification of the TrueTime simulator of uGridFDI

uGridFDI simulates the tertiary control of a microgrid. Its controllers are
tasks of a simulated real-time kernel, TrueTime 2.0 (`src/truetime-2.0`), which
decides when each controller samples, computes and actuates, and which joins the
kernels by simulated networks. This directory models the kernel, its blocking
primitives and its networks in TLA+, checks them with TLC and proves part of
them with TLAPS.

## Inventory

Paths are relative to `src/truetime-2.0/kernel` unless they say otherwise. The
copy in `src/uGrid_Hdetail/truetime-2.0/kernel` is identical, file by file.

| Component | State | Operations | Interaction | Hard | Correct when |
|---|---|---|---|---|---|
| Kernel (`ttkernel.cpp`, `invoketask.cpp`, `*hooks.cpp`, `linkedlist.cpp`) | `RTsys`: ready queue and running task per CPU, time queue; per task its job count, pending invocations, segment, deadline, budget | `runKernel`, triggers, code functions, `ttCreateJob`, `ttKillJob`, `ttSleep`, `ttSetNextSegment`, `ttSetAbsDeadline` | Simulink calls it at each hit time and trigger; it calls code functions and hooks, which call primitives, which change queues | interleaving of releases, ends, kills and preemption; timers re-armed while scanned; several CPUs share one `currentCPU` | no job is lost, duplicated or overtaken; each active job is in one queue; the right task runs; no event is missed; timers follow their jobs |
| Semaphores (`take.cpp`, `give.cpp`) | value, waiting queue | `ttTake`, `ttGive` | move tasks between waiting and ready queues | a signed value that also counts waiters | a counting semaphore, FIFO |
| Mailboxes (`post.cpp`, `fetch.cpp`, try versions, `retrieve.cpp`) | buffer, count, reader and writer queues, `mb_data` per task | five primitives | the same, both ways in one call | a post or fetch that also releases a waiting task | messages in order, each once; nobody waits needlessly |
| Monitors, events (`entermonitor.cpp`, `exitmonitor.cpp`, `wait.cpp`, `notify.cpp`) | holder, waiting queues, inherited priorities | `ttEnterMonitor`, `ttExitMonitor`, `ttWait`, `ttNotify`, `ttNotifyAll` | re-sort the ready queue of the holder | a wait that leaves and re-enters the monitor; inheritance that must reach a task already queued | mutual exclusion, inheritance, no lost waiter |
| Wired network (`ttnetwork.cpp`, `sendmsg.cpp`, `getmsg.cpp`, `discardunsent.cpp`) | `RTnetwork`: per node pre-processing, input, output, switch and post-processing queues; who is sending, slots, token, memory | `runNetwork` for nine protocols, send, get, discard | kernels put messages in and are triggered when some arrive | collisions, slots, a full switch, a queue that changes under its sender, a wake-up forgotten | FIFO links without loss (but for drops), one sender, bounded time, memory accounted |
| Wireless network (`ttwnetwork.cpp`) | frames in the air at each receiver, signal levels, back-off, retry counters | `runNetwork` for 802.11, its NCM variant and 802.15.4 | the same | hidden nodes, lost frames, acknowledgement timeouts | collisions noticed, bounded retries, no duplicate, order |
| Timers, triggers (`createtimer.cpp`, `trigger.h` ...) | timer list, pending triggers | create, remove, expire | release tasks and handlers | names in `timerList`, minimum interval | each timer fires at its times and no more |
| Bandwidth servers (`cbshooks.cpp`, `tbshooks.cpp`) | server budget, deadline, state | hooks | re-sort ready queues | replenishment against suspension | no task gets more than its bandwidth |
| Attribute setters (`set*.cpp`) | | `ttSetDeadline` ... | re-sort, re-arm | changes to an active job | queues stay sorted, timers right |
| Slot shifting, time-triggered dispatcher | intervals, spare capacity | hooks | reserve the CPU | | guaranteed jobs meet deadlines |
| Ultrasound, logs, data, MATLAB interface | | | | | |
| Controllers (`src/uGrid_Hdetail/*_init.m`, `*_c.m`) | controller memory, set points | read and compute, then output | tasks of the kernel | sampling jitter | outputs follow inputs in order |

`PROJECT.json` lists every component, with the reason where it is not modelled,
and the hazards of the code, each at its line.

## Modules

    TTKernel ──── TTJobs (what it promises)         QueueLemmas
       │  \─ MCKernel, MCKernelSMP                       │
       │                                                 │
    TTSync ────────────────────────────────────── TTKernel_proofs ── TTScheduling_proofs
       │                                             (for the three below too)
       ├── TTSemaphore ── TTCounting (what it promises)
       │      └─ MCSemaphore, TTSemaphore_proofs
       ├── TTMailbox ──── TTMessages (what it promises)
       │      └─ MCMailbox, TTMailbox_proofs
       └── TTMonitor
              └─ MCMonitor, TTMonitor_proofs

    TTLists ── TTQueues
       ├── TTFrames ┬─ TTContention ──────────┐
       │            ├─ TTSlots ── TTFlexRay ──┼─ TTNetwork ── MCNetwork
       │            └─ TTSwitch ──────────────┘       │
       │        TTProtocols_proofs ─────────────── TTNetwork_proofs
       │                                   TTLinks (what networks promise)
       │                                              │
       └───────────────────────────────────────── TTWireless ── MCWireless

### Kernel and primitives

**TTKernel.** `rtsys` is the `RTsys` structure and the fields of its tasks and
timers; the other variables are the locals of a `runKernel` call. `pc` is the
phase of that call: `RunKernel` and `Interrupt` (a hit time or an external
trigger) enter it, where several triggers may come before the kernel runs, as
`mdlZeroCrossings` looks at all of them in one call; `SkipCPU`, `CountDown` and
`StartSegment` are the loop over CPUs that charges elapsed time to the running
tasks; `SegmentCall` and `SegmentReturns` are the code function, which is
arbitrary: it calls up to `MaxCalls` primitives, one per step, and returns an
execution time or FINISHED (`JobFinishes`, `FinishBlocked` when the task is not
ready any more, an error of the kernel); `TimerExpires`, `TaskWakes` and
`ScanEnds` serve the time queue with its saved `next` pointer; `Dispatch` picks
the running task of each CPU; `NextInvocation` computes the next hit time and
`AnotherPass` repeats the loop. Queues are sequences with the insertion sort of
`linkedlist.cpp`; a task is a node of at most one of them, as in the code,
because every move unlinks it first. The default hooks (`ReleaseHook`,
`StartHook`, `SuspendHook` ...) are operators applied where the code calls them.
`ttSetAbsDeadline` re-sorts the ready queue of its task's CPU and re-arms a
deadline timer that is still armed. An error of a primitive or of the kernel
stops the simulation (`Abort`).

**TTSync, TTSemaphore, TTMailbox, TTMonitor** add the primitives that block. A
primitive is one step of a code segment; it changes the kernel's queues and its
own state together, as the code does. A code function goes on after a call that
has blocked its task; the manual wants such a call last in its segment, and
`NotBlocked` keeps programs to that rule. The manual also wants `ttRetrieve` in
the segment after `ttFetch`, which is the guard of `Post` on `mbData`, and
`ttNotify` from inside the monitor. Where the code has `holder`, `waitingQ` and
the priority of each task, TTMonitor has them too; a task holds one monitor at a
time, because the code does not pass inheritance on between monitors. The
variable `notified` is history: which of the waiting tasks a `ttNotify` has put
there, since those pass no priority on to the holder.

**TTJobs, TTCounting, TTMessages** are the abstract specifications: queues of
jobs per task, counting semaphores and ordered mailboxes, without a kernel. The
refinement mappings are at the end of the detailed modules. A waiting writer's
message counts as sent: it is behind the buffer, in the order of `writerQ`.

Times are integers; `TT_TIME_RESOLUTION` is zero at that scale, clock drift and
CPU scaling have their defaults. Programs (which primitives are called, and
when) and execution times are chosen freely within the constants.

### Networks

**TTQueues** has what both network blocks share: messages, `Hit` (the running
minimum `nextHit`), and `Postprocess`, the end of a `runNetwork` call, which
moves messages from `outputQ` to `postprocQ` and toggles the receiver's trigger.
**TTFrames** is what the wired protocols share (`Preprocess`, `Deliver`,
`Transmit`); **TTContention** has CSMA/CD and CSMA/AMP, **TTSlots** the token
bus, NCM, FDMA and TDMA, **TTFlexRay** FlexRay, **TTSwitch** switched Ethernet.
Their operators map a network to a network, as the branches of the `switch` in
`runNetwork` do.

**TTNetwork.** `nwsys` is the `RTnetwork` structure. One `RunNetwork` step is one
call of `runNetwork`: `Preprocess`, the branch of the protocol, the back-off
that CSMA/CD draws, `Postprocess`. `Advance` lets Simulink's time go by to the
next hit; `SendMsg`, `GetMsg`, `DiscardUnsent` and `SetNextNode` are the calls
of the kernels, at any time in between. `inputs` is the toggled input by which a
kernel makes Simulink call the block. `mdlStart` leaves `nextHit`
uninitialised, so that the first call may come at once or not before the first
message: an initial choice. Times are integers and frames have whole durations.

**TTWireless.** The frames in the air are, as in the code, copies in the
`inputQ` of every receiver. Whether a frame is heard, lost (`lossprob`) or has
too many bit errors is a choice; nodes do not move, and a constant says which of
them hear each other. The block runs at increasing instants. `waituntil` is
uninitialised when `resend_message` has dropped a message; what the code does
with it is one more call of the block or none, a choice as well.

**TTLinks** is what both networks promise: between any two nodes a FIFO link that
neither duplicates nor invents a message and loses none, unless the block is
told to (`lossy`) or the sender discards it. In the refinement mappings a
message is on the way while it is in any queue of the network before
`postprocQ`; in TTWireless also while it waits for a retry.

### How FlexRay goes wrong

FlexRay is modelled as it is written, and it does not keep to its cycle. A
minislot lasts until the block is called, for whatever reason, and the last
empty minislot has no length. `networkIdleUntil` is that of the previous cycle
while the static and the dynamic segment run (`ttnetwork.cpp:799`), so that from
the second cycle on the first empty minislot ends the dynamic segment. Nothing
calls the block for the slot that is then due, for the end of a slot that nobody
owns, or for the end of the idle segment when another call has come in between.
A frame can therefore wait for ever; `NetworkWakesUp` lets FlexRay nodes wait,
and holds FlexRay to the rest. The documentation says nothing of the cycle that
a run could refute.

## Runs

Bounds of the kernel runs, named in each `.cfg`: `MaxTime` (2 or 3) is the stop
time, which with periods and deadlines of 1 to 4 gives releases at different and
at the same times, preemption, deadline misses and budget overruns. `MaxSegment`
(2 or 3) lets code functions have two or three segments, so that a job can be
interrupted, killed or blocked in the middle. `MaxCalls` is one primitive per
segment. `MaxPending` lets one invocation wait behind the active one (in
`Mailbox` and `Monitor` none); more come only from timers, which it does not
limit. `MaxIter` (6 or 7) stands for `TT_MAX_ITER` (1000): it aborts runs that
go on releasing zero-time segments, as the code does, only sooner, and still
lets every event of one instant be served.

Bounds of the network runs: three nodes and up to four messages, one of them a
broadcast, of one and two minimum frames. Calls of `ttSendMsg` come at times 0 to
`LastCall` (2), which is within a frame, a slot, a collision window and a
pre-processing delay of each other; `MaxTime` (18) is enough for the longest
sequence of retries to end. `MaxDraw` (3) bounds the back-off that CSMA/CD
draws, `RetryLimit` (1) is a parameter of the wireless block, and `MaxTimestep`
(100) stands for `TT_MAX_TIMESTEP`: never. The protocols with random choices
have fewer messages. Messages are sent once each, so that a duplicate is seen.

Deadlock is not checked: the simulations stop at `MaxTime` or when aborted.

| Run | Instance | Shows |
|---|---|---|
| `KernelUP` | one CPU, EDF; periodic task with deadline handler, background task with budget handler, interrupt; sleep and create job | types; job accounting; one queue per active job; states tell queues; time queue sorted; jobs run by priority and, among equals, in the order they became ready; no event missed; deadline and budget timers follow their jobs; **the kernel implements TTJobs** |
| `KernelKill` | the same tasks under fixed priorities, `t2` non-preemptible, code kills and creates jobs | accounting, queues and deadline timers survive kills; a non-preemptible task keeps its CPU |
| `KernelSMP` | two CPUs, EDF, context switch overhead, three tasks, jumps between segments, deadlines set while jobs are active | tasks stay on their CPU's queue; each CPU runs its most urgent task; no event missed; jobs start at their first segment; every kernel run ends |
| `Semaphore` | one CPU; a binary semaphore taken at the start and a counting one, two tasks and a handler | value against waiters; one queue per job; highest priority runs after hand-overs; **implements TTCounting** |
| `Mailbox` | one CPU, a mailbox for two messages, two tasks and a handler, messages symmetric | count against buffer and waiters; one queue per job; **implements TTMessages** |
| `Monitor` | one CPU, three tasks of different priorities and a handler, a monitor with an event, and a free event | a monitor that tasks wait for is held; its holder has the priority of the most urgent task it blocks and runs accordingly; one queue per job |
| `Network` | eight protocols, with and without discards, losses, and a switch with room for two frames | types; at most one sender, whole frames, slots respected; a call for every end of transmission, back-off, token and slot; switch memory accounted; bounded sending time (RR, FDMA, TDMA, most urgent sender of CSMA/AMP); **implements TTLinks** |
| `Wireless` | three nodes in a row of which the outer ones do not hear each other; 802.11, NCM, 802.15.4 | overlapping frames are marked and levels go back; a call for every end, back-off and timeout; retries stay in the limit; **implements TTLinks** |
| `KillArrival` | violated | after `ttKillJob` the next job has the killed job's arrival time (`killjob.cpp:62`), against `report.tex:4009` |
| `KillSegment` | violated | a job killed after it has begun leaves `nextSegment`, which `ttkernel.cpp:219-220` has advanced and `killjob.cpp:52-53` does not reset, so the next job starts in the middle, against `report.tex:218` |
| `NonPreemptibleSMP` | violated | a non-preemptible task is preempted when its queue is changed while another CPU is current (`compfunctions.cpp:63`), against `report.tex:4315` |
| `LostArrival` | violated | two messages that arrive in one run of the block toggle the trigger twice and the kernel sees neither (`ttnetwork.cpp:1300`), against `report.tex:2893` |

Each property of a passing run has a mutant in `PROJECT.json`: a plausible bug,
defined beside the operator it replaces, under which that property fails.

**Symmetry** is used for messages of the mailbox only: no action or property
tells them apart.

**Fairness.** `FairSpec` has weak fairness of `KernelStep`: a call of `runKernel`
is sequential code that is not left half-way, so while it can take a step it
does. Nothing is assumed of `RunKernel` and of interrupts. `KernelRunsTerminate`
then rests on the bound `TT_MAX_ITER` on the passes of the loop and on each pass
getting through the CPUs and the time queue. The networks need no fairness: that
they go on is stated as safety, by what `nextHit` must be (`NetworkWakesUp`,
`WirelessWakesUp`) and by a bound on the time (`SentInTime`). The abstract
specifications promise safety only; that a waiting task is served at all depends
on the program.

### What the properties leave out, and why

- `StateTellsQueue` is not checked with kills: `ttKillJob` leaves the killed
  task's state READY although it is in no queue, until its next release.
- `DeadlineTimerFollowsJob` does not demand a timer for a deadline that was
  missed once: `ttSetAbsDeadline` does not arm it again for a later one.
- `EveryJobIsIn` lets a ready task be WAITING, because `ttTryPost` and
  `ttTryFetch` do not set the state of the task they release.
- Semaphores, mailboxes and monitors are composed with code that does not kill
  jobs: a killed waiter's unit is lost, a killed writer's message stays in
  `mb_data`, a killed holder's monitor stays taken.
- `ReadyQInOrder` says more than `HighestPriorityRuns` and what prevents a task
  from preempting one of its own priority (`compfunctions.cpp:78`): equal tasks run
  in the order in which they became ready, which `release` tells. It is checked
  where code neither kills, sets deadlines nor blocks: those calls give a task
  another place in the ready queue without a new release time. Where tasks can be
  non-preemptible they stay in front of more urgent ones. The other runs check
  `HighestPriorityRuns`, which leaves the order of equals open.
- `HighestPriorityRuns` is checked for monitors on one CPU: an inheriting holder
  is re-sorted in the ready queue of `currentCPU` only (`entermonitor.cpp:62`).
- `HighestPriorityRuns` is checked on two CPUs with one user task on the second.
  The context switch handler is on CPU 0, so when a task that wakes up preempts
  another on a later CPU, the suspend hook (`ttkernel.cpp:405`) releases the handler
  after the third loop has passed CPU 0: the overhead is charged at the next kernel
  run only, and until then CPU 0 runs a task while a handler is first in its queue.
- Discards are checked under CSMA/CD, CSMA/AMP, token bus and NCM. Under FDMA,
  switched Ethernet and in an interrupted TDMA slot the code empties the queue
  of a node that is sending and then dereferences a null pointer.
- `RetriesAreCounted` lets a message be given up early after a discard, which
  leaves the retry count of the message before.
- `WirelessWakesUp` allows for 802.15.4 dropping a message after too many
  back-offs without a look at the next one.
- Under 802.11 with `lossprob` a node may miss its own signal and send a second
  frame; with unequal powers a frame to a node that starts to send is not
  marked. `LevelAssumption` and the run leave both out.

## Proofs

Everything below holds for all tasks, handlers, priorities, affinities, programs
and bounds that satisfy the named assumptions of the modules.

- `TTKernel_proofs`: `InductiveInvariant`, `TypeCorrectness`, `JobsAreAccounted`,
  `JobsAreQueued` (`Spec => []ActiveJobsAreQueued`), `StatesTellQueues`
  (`Spec => []StateTellsQueue`) and `JobsRefinement` (`Spec => JobsServedInOrder`).
  None of these is inductive alone: a job may end only because its task has one,
  so the invariant must know that a running or queued task has an active job
  (`Placed`); an invocation is queued only when the count was zero, so every
  task's pending list must match its count (`Counted`) and a task with a positive
  count must have a place, one queue, which its state names (`HasPlace`); and the
  `next` pointer saved across a timer's handler must still be a node that may be
  handled (`Handled`). `IInv` joins these. The hooks take a task out of one queue
  and put it into another in several calls, so the building blocks are stated for
  a set of tasks in transit, for which `Counted` and `HasPlace` are suspended, and
  `Elsewhere` and `SameView` say that nobody else is moved meanwhile. Each operator
  has a lemma on what it preserves, each action a lemma built from those. The
  first four theorems assume one CPU if code may kill jobs: with several, a task
  killed while it runs on another CPU stays that CPU's running task, and ends a
  job it no longer has. `StatesTellQueues` assumes no kills at all, because
  `ttKillJob` moves a sleeping task to the ready queue and leaves its state as it
  was, and so does the refinement, since `KillArrival` refutes it with them.
  The blocking primitives are other modules' actions on the same state, so `IInv`
  also says what they rely on: a task may be `Parked`, in no queue of the kernel
  with an active job, if its state is WAITING, and no step of the kernel parks a
  task or brings a parked one back (`WaitersKept`). `KernelInv` adds for the kernel
  alone that nobody waits.
- `TTScheduling_proofs`, on top of it: `TimeQueueIsSorted` (`TimeQSorted`),
  `EventsAreServedInTime` (`NoEventIsMissed`), `DeadlineTimersFollowJobs`
  (`DeadlineTimerFollowsJob`) and `JobsStartAtFirstSegment`. `TInv` adds to `IInv`
  that the time queue is in the order of its keys, that no execution time is
  negative and no segment number below one (`Progressing`), and what the loops of
  `runKernel` rely on half-way: inside the first one the CPUs that are still to be
  charged run tasks that can be (`Uncharged`), between calls nothing is due before
  the next hit (`Punctual`), and `time` is the time of the hit except between
  calls, where interrupts advance it. The next hit is the minimum over the head of
  the time queue and the running tasks, so `Punctual` needs the order of the whole
  queue, and the order needs that a key changes only while its entry is out of
  place (`InOrderBut`). Every operator is shown to do `Works` on one task `t`: it
  touches only the time queue entries that are `t`'s own (`Own`) and no field of
  another user task, so each action has to be looked at for that task alone.
  The deadline timers assume that no code calls `ttSetAbsDeadline`, which leaves
  an expired timer alone; first segments assume no `ttKillJob`, which leaves
  `nextSegment` alone (`KillSegment` refutes it); kills are on one CPU as above.
- `BudgetTimersFollowTasks` (`BudgetTimerFollowsTask`), also in `TTScheduling_proofs`.
  Inside the first loop of `runKernel` the property is false: the tasks of the CPUs
  passed have been charged for the time since the last run, the others not, so
  that `prevHit` plus their budget lies behind their timers by that time. `BInv` adds to `TInv` what
  each timer is set for at each program counter (`Budgets`: `prevHit` plus the
  budget less what is still owed); that a running task that sleeps has a wakeup
  time ahead, so the second loop cannot make it ready while its timer is off;
  that the third loop leaves no sleeping task running on the CPUs it has passed
  (`Awake`); and that between calls an armed timer has budget left (`Solvent`),
  which follows from `Punctual`. It assumes that context switches take no time:
  otherwise a resume hook arms the timer while the kernel handler has the CPU.
  The run gives the property for `pc` outside the first loop, and not for
  `aborted`, which keeps what that loop had done when it stopped: with two CPUs
  TLC finds a task there that was never charged.
- The last part of `TTScheduling_proofs`: `HighestPriorityTasksRun`
  (`Spec => []HighestPriorityRuns`), for the three policies. The ready queues are
  ordered by `Ahead`, a strict weak order on tasks and handlers that itself
  changes when a deadline does. `Lined` says that they are, and `LinedBut` that
  they would be without one task: a release gives a task its new deadline while
  it is in no queue, `ttSetAbsDeadline` moves it afterwards. `PInv` adds that the
  CPUs the third loop has passed run the heads of their queues, and keep them until
  the next kernel run: an interrupt between calls either makes a run due at once
  or leaves the queues alone.
- `NonPreemptibleTasksKeepCPU` (`Spec => NonPreemptibleKeepsCPU`), from the same
  invariant. `prioCmp` puts a non-preemptible task in front of the others while
  `runningUser` names it, so `Ahead` also changes when `runningUser` does, in the
  start and resume hooks. The proof follows that task: it is in its ready queue
  until its job ends (`Reserved`), no hook puts a user task in front of it
  (`FollowsIn`), and `runningUser` names another one only once it has left the
  queue (`Vacates`, `Takes`).
- Both assume what the code needs. A killed job is sorted in before its deadline is
  known, and its task leaves the queue while `runningUser` names it: no
  `ttKillJob`. With several CPUs a dispatch releases the kernel handler of a CPU the
  loop has passed: no context switch time there, for the first theorem.
  `prioCmp` is an order only under `PrioCmpSorts`. A non-preemptible task on another
  CPU, or a non-preemptible handler, is preferred in both arguments' places. A task
  that slept competes anew while `runningUser` still names it. And a handler that
  sets the absolute deadline of a non-preemptible task has it sorted in again, where
  `setabsdeadline.cpp` finds a task of higher priority. So the theorems are for
  preemptible tasks on any number of CPUs, and for non-preemptible user tasks on one
  CPU where no code calls `ttSleepUntil` or `ttSetAbsDeadline`; TLC finds a
  counterexample to the second theorem without either condition.
- The last part of `TTKernel_proofs`: what the blocking primitives have in common. `WaitIn` says that
  the parked tasks are those in the waiting queues, each in one of them and once.
  The caller of a primitive runs, hence is in no waiting queue; blocking it parks
  it (`BlockedFacts`, `JoinQueue`), and releasing the head of a queue gives that
  task its place in a ready queue again, whatever its state says
  (`MakeReadyFrees`, `LeaveQueue`). `EveryJobHasAQueue` concludes `EveryJobIsIn`.
- `QueueLemmas`: what insertion, removal and successor do to a queue without
  duplicates and to its order, and what is left of a queue, in which order, when a
  test picks some of its messages (`Among`). The library's induction rules take an
  operator as a parameter, which the provers cannot instantiate; `AllNumbers` and
  `AllSequences` state the rule for a set of numbers or sequences instead, and
  follow from the least element of a set of numbers. With them the folds of the
  networks over nodes and queues have lemmas too.
- `TTSemaphore_proofs`: `SemaphoreAccounting`, `SemaphoreRefinement` and
  `SemaphoreQueueing` (`SemaphoreJobsAreQueued`). Only `Take` and `Give` change
  value and waiting queue, and `SemStep` lists what they may do to them. A
  consequence is that the test at `give.cpp:51`, "probably unnecessary" by its
  comment, is unnecessary.
- `TTMailbox_proofs`: `MailboxAccounting`, `MailboxQueueing`
  (`MailboxJobsAreQueued`) and `MailboxRefinement` (`MessagesInOrder`), from a
  few lemmas per building block (`Put`, `Drop`, `ReleaseWriter`, `ReleaseReader`)
  on the mailbox a primitive works on. A primitive composes them in several ways,
  and in between the mailbox is neither what it was nor what it will be: a post
  to a waiting reader puts a message into the buffer and takes it out again. The
  refinement maps each call to at most one abstract step, by what its blocks do
  to the buffer followed by the messages of the waiting writers.
- `TTMonitor_proofs`: `MonitorIsHeld` (`WaitersHaveHolder`) and `MonitorQueueing`
  (`MonitorJobsAreQueued`). A monitor is left only by being handed over (`Leave`),
  and a notified task joins the waiting queue while the notifier is inside. The
  loop of `ttNotifyAll` is a fold over the tasks that wait for the event. Induction
  over data is out of reach, but not an argument by the least counterexample: of
  the intermediate results of the loop the first one that is not as it should be
  has a predecessor that is (`IterationExists`, `StepByStep`, `AllReadied`,
  `AllQueued`).
- `HolderHasPriority` (`HolderInherits`), also in `TTMonitor_proofs`. The heir of
  a monitor gets no priority on entry, so it must be the most urgent of those that
  still wait; hence `InheritInv` adds to the queueing invariant that the monitors'
  queues are sorted (`MonitorsInOrder`). `prioCmp` sorts them by priorities that may
  be inherited and prefers the running task at equal ones; they are sorted by the
  tasks' own keys only because those who wait have inherited nothing and do not
  run (`Idles`): they hold no monitor (`OneHeld`), only holders inherit, and the
  user task of the CPU at hand is the caller (`UsersRun`). The last part takes a
  lemma for each hook and kernel step, in `TTKernel_proofs`, up to
  `OtherStepsKeepPrios`. The theorem is for fixed priorities and for deadline
  monotonic ones. Under EDF it is false: a job may end with a monitor held, and
  the next one of that task has a later deadline than the tasks that wait for it.
  With two pending jobs and `ttCreateJob`, TLC finds this; the run has `FP`.
  `None \notin Int` in `MonitorAssumption` says that "nothing inherited" is no
  priority, as `prioRaised` does in the code.

The primitives' theorems leave out code that kills jobs (see above) and assume
nothing else about programs than what the modules' guards say.

- `TTProtocols_proofs` and `TTNetwork_proofs`: `NetworkTypes` (`NetworkTypeOK`),
  `NetworkTransmits` (`TransmissionsAreSound`), `NetworkAwakes` (`NetworkWakesUp`),
  `NetworkAccounts` (`SwitchMemoryIsAccounted`) and `NetworkLinks` (`LinksSpec`: the
  network implements TTLinks). The first of the two modules
  says of each operator of the protocols what it does to any network; the second
  puts a call of `runNetwork` together from it.
  - What is on the medium is an invariant of the queues: `Lines` says that the
    line of a node that does not send holds whole frames only (`Idle`), and that
    of one that sends at least one frame, with all but the first whole (`Busy`);
    `OneSends` that on a shared medium this is the node `sending`, `Slots` the
    same for TDMA with its interrupted frames (state 2), and `Flex` for FlexRay,
    whose two segments use two pairs of queues that each branch swaps (`Swapped`).
    `Apart` says of CSMA/CD that a node in back-off has a frame. `Sound` joins
    these. It is false in the middle of a run, as a collision or a slot's end
    empties the medium before the next frame is taken, so that each operator's
    lemma has its own before and after.
  - The loops over nodes, receivers and queues are folds; every one has a lemma by
    `AllNumbers` or by the first intermediate result that is wrong.
  - `NetworkAwakes` follows the running minimum `nextHit` through a call: whatever
    an operator leaves to be done, it has passed to `Hit`, and no operator after it
    raises `nextHit` or changes what is to be done (`Awake`, `OnTime`). Between
    calls time does not pass the next hit, and the calls of kernels toggle an
    input, which makes a run due at once.
  - `NetworkAccounts` needs that a copy of a frame gives back what it took: `Takes`
    says what one frame does to the free memory and to the queue of one receiver,
    and the loop over the receivers of a broadcast adds that up.
  - `NetworkLinks` maps each call to one step of a FIFO link. What is on the way
    from a to r lies in up to six queues (`LinkView`); Preprocess, a protocol and
    Postprocess each move the front of one to the end of the next. Postprocess
    takes out of `outputQ` all that has waited, wherever it is, so the order rests
    on the messages from one sender having waited first come first served. On a bus
    `outputQ` is in the order of its waiting times (`BusLinks`), because all
    that comes to r waits for the same `Postdelay[r]`.
  - Through the switch it is not: a broadcast waits for `Postdelay` from when it
    reaches the switch, a frame for one receiver comes out of the switch without
    (`ttnetwork.cpp:997`; only `broadcast`, line 163, adds it, although `report.tex:4705`
    speaks of every message). The invariant `SwitchOrder` compares times with bits:
    while a message of a sender still waits, what comes behind it, from the node's
    line, through the switch, needs longer to get there (`Behind`, `InLine`,
    `BehindAll`). That needs `ShortPostdelay`, that no receiver waits for longer than
    two frames of minimum size take, which the theorem assumes of a network with a
    switch (`ShortIfSwitched`). The code does not enforce it: with a postdelay of ten
    units instead of the run's three a frame overtakes the broadcast before it, and
    TLC finds `LinksSpec` violated.
  - That the links lose nothing unless told to includes the switch with
    `BUFFULLRETRY`; the block's `lossprob` and `BUFFULLDROP` lose messages by the
    abstract specification's `lossy`, and `LinkDiscard` is the sender's own.
  - All five assume `DiscardsElsewhere`: no scenario discards messages under FDMA,
    TDMA or switched Ethernet. There `ttDiscardUnsentMessages` throws away the frame
    that a node is sending, and the block dereferences a null pointer (see the
    hazards). Nothing else is assumed but `ShortIfSwitched`, by `NetworkLinks`, and
    the modules' named assumptions.

Only model-checked: `NonPreemptibleKeepsCPU` with `ttKillJob`; the order of
equal priorities (`ReadyQInOrder`; the order of different ones is
`HighestPriorityTasksRun`); which task has the CPU with inherited priorities
(`HighestPriorityRuns` of the run `Monitor`), because inheritance changes
`tempPrio` under the ready queues from outside the kernel; of the wired network
the delay bounds (`SentInTime`), which add up the frames of all messages of a
node; the wireless network, whose medium is a matrix of signals that each step
changes in sums over all nodes. Liveness under fairness (`KernelRunsTerminate`)
is out of the prover's reach and stays with TLC.

## Not modelled

- User timers, timed `ttCreateJob` and the minimum interval of triggers. They
  read uninitialised members (`isOverrunTimer`, `prevHit`), and a one-shot timer
  is removed from `timerList` by the first node of its name. The controllers of
  this repository use none of them.
- Attribute setters other than `ttSetAbsDeadline`: they assign an attribute;
  `ttSetBudget` also re-arms the budget timer.
- Constant and total bandwidth servers, slot shifting and the time-triggered
  dispatcher: schedulers of their own behind the hooks, used by nothing in the
  repository. (By reading: a hard constant bandwidth server out of budget leaves
  the other tasks of its ready queue behind it, against `report.tex:3110`, and
  `CBS_resume` does not re-sort.)
- PROFINET, the priority sort modes of the network queues (with them a message
  gets in front of the one in transmission), clock drift.
- Of the wireless block: nodes that move, unequal transmit powers, user
  path-loss functions and the energy consumption. The ultrasound network.
- The controllers: each is alone on a kernel of its own and calls no primitive
  that waits, so that only its numeric control law is left. The control laws and
  solvers, `qpOASES`, `fomcon` and the tank animation are numeric or vendored.
- Logs, data access, simulation scripts and the MATLAB interface decide no
  scheduling.
