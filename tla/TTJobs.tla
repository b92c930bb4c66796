------------------------------- MODULE TTJobs -------------------------------
(***************************************************************************)
(* What the kernel promises about the jobs of user tasks: an invocation is *)
(* never lost, never duplicated and never overtaken.  The jobs of a task   *)
(* are identified by the times of their invocations and complete in the    *)
(* order in which they arrived; the first one is the active job.           *)
(***************************************************************************)
EXTENDS Integers, Sequences

CONSTANTS UserTask
VARIABLES clock, jobs

vars == <<clock, jobs>>

Init ==
  /\ clock = 0
  /\ jobs = [t \in UserTask |-> << >>]

Advance ==
  /\ clock' \in Nat
  /\ clock' >= clock
  /\ UNCHANGED jobs

Arrive(t) ==
  /\ jobs' = [jobs EXCEPT ![t] = Append(@, clock)]
  /\ UNCHANGED clock

Complete(t) ==
  /\ jobs[t] # << >>
  /\ jobs' = [jobs EXCEPT ![t] = Tail(@)]
  /\ UNCHANGED clock

Next == Advance \/ \E t \in UserTask : Arrive(t) \/ Complete(t)

Spec == Init /\ [][Next]_vars
=============================================================================
