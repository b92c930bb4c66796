----------------------------- MODULE TTCounting -----------------------------
(***************************************************************************)
(* What a TrueTime semaphore promises: units up to a maximum, and tasks    *)
(* that wait for one in the order of their calls.  No task waits while     *)
(* there are units, a unit that is given goes to the task that has waited  *)
(* longest, and nothing else changes either.                               *)
(***************************************************************************)
EXTENDS Integers, Sequences

CONSTANTS UserTask, Semaphore, InitVal, MaxVal
VARIABLES units, waiting

vars == <<units, waiting>>

Init ==
  /\ units = InitVal
  /\ waiting = [x \in Semaphore |-> << >>]

TakeUnit(x) ==
  /\ units[x] > 0
  /\ units' = [units EXCEPT ![x] = @ - 1]
  /\ UNCHANGED waiting

Wait(x, t) ==
  /\ units[x] = 0
  /\ waiting' = [waiting EXCEPT ![x] = Append(@, t)]
  /\ UNCHANGED units

AddUnit(x) ==
  /\ waiting[x] = << >>
  /\ units[x] < MaxVal[x]
  /\ units' = [units EXCEPT ![x] = @ + 1]
  /\ UNCHANGED waiting

HandOver(x) ==
  /\ waiting[x] # << >>
  /\ waiting' = [waiting EXCEPT ![x] = Tail(@)]
  /\ UNCHANGED units

Next ==
  \E x \in Semaphore :
    \/ TakeUnit(x) \/ AddUnit(x) \/ HandOver(x)
    \/ \E t \in UserTask : Wait(x, t)

Spec == Init /\ [][Next]_vars
=============================================================================
