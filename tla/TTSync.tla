------------------------------- MODULE TTSync -------------------------------
(***************************************************************************)
(* What the blocking primitives (ttTake, ttFetch, ttPost) have in common.  *)
(* A code function runs on to its end after a primitive has blocked its    *)
(* task, so its programmer must let the blocking call be the last one of   *)
(* the segment; NotBlocked is that rule.                                   *)
(***************************************************************************)
EXTENDS TTKernel

\* moveToList(waitingQ), state = WAITING and the suspend hook
Blocked(s, t) ==
  SuspendHook([Unlink(s, t) EXCEPT !.state[t] = "WAITING"], t)

NotBlocked == pc = "segment" => rtsys.state[Current] = "READY"

\* The steps of the kernel and of code functions that use no such primitive.
OtherStep ==
  \/ RunKernel
  \/ \E h \in External, t \in 0 .. MaxTime : Interrupt(h, t)
  \/ RunStep
  \/ NotBlocked /\ SegmentCall

\* The tasks that wait in a queue of Q, a function with sequences of tasks.
WaitingIn(Q) == UNION {ToSet(Q[x]) : x \in DOMAIN Q}

\* A task with an active job is in exactly one of the ready queues, the time
\* queue and the waiting queues Q, and it is WAITING, or READY, when the queue
\* says so.  Only ttTryPost and ttTryFetch leave the task they release WAITING.
EveryJobIsIn(Q) ==
  \A t \in UserTask :
    LET ready   == t \in ToSet(rtsys.readyQ[Affinity[t]])
        asleep  == t \in ToSet(rtsys.timeQ)
        waiting == t \in WaitingIn(Q)
    IN  /\ rtsys.nbrInvocations[t] > 0 <=> ready \/ asleep \/ waiting
        /\ ~ (ready /\ asleep) /\ ~ (waiting /\ (ready \/ asleep))
        /\ waiting => rtsys.state[t] = "WAITING"
        /\ rtsys.state[t] \in {"READY", "RUNNING"} => ready
        /\ rtsys.state[t] = "WAITING" => waiting \/ ready
=============================================================================
