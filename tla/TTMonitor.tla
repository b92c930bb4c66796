----------------------------- MODULE TTMonitor -----------------------------
(***************************************************************************)
(* Monitors with priority inheritance and their events (createmonitor.cpp, *)
(* createevent.cpp, entermonitor.cpp, exitmonitor.cpp, wait.cpp,           *)
(* notify.cpp) on the TrueTime kernel.                                     *)
(*                                                                         *)
(* A task enters a monitor only while it holds none: leaving an inner one  *)
(* would give up the priority inherited through the outer one.  As the     *)
(* manual demands, an event of a monitor is notified only from inside it.  *)
(* ttKillJob is left out: it leaves a monitor held by the killed task.     *)
(***************************************************************************)
EXTENDS TTSync

CONSTANTS
  Monitor, Event,
  EventMonitor       \* the monitor of an event, None for a free event

ASSUME MonitorAssumption ==
  /\ EventMonitor \in [Event -> Monitor \cup {None}]
  /\ None \notin Monitor /\ Monitor \cap Event = {}
  /\ None \notin Int           \* no priority stands for none inherited
  /\ "ttKillJob" \notin Primitives

VARIABLES
  heldBy,            \* [Monitor -> UserTask or None]
  monitorQ, eventQ,  \* the waitingQ of every monitor and of every event
  notified           \* (history) the tasks of monitorQ that a notify put there

monVars == <<heldBy, monitorQ, eventQ, notified>>

MonInit ==
  /\ Init
  /\ heldBy = [x \in Monitor |-> None]
  /\ monitorQ = [x \in Monitor |-> << >>]
  /\ eventQ = [e \in Event |-> << >>]
  /\ notified = {}

\* waiting queues are sorted by prioCmp, as the ready queues are
Queued(q, t) ==
  LET Beats(n, m) == PrioCmp(rtsys, n, m) IN InsertSorted(q, t, Beats)

\* Back into the ready queue at the new priority, on the CPU at hand only.
Reshuffled(s, t) == IF t \in ToSet(s.readyQ[s.currentCPU]) THEN MakeReady(s, t) ELSE s

\* Mutants: the holder keeps its place in the ready queue; it inherits a
\* priority only once.
InheritUnsorted(s, holder, t) ==
  IF Prio(s, holder) > OwnPrio(s, t)
  THEN [s EXCEPT !.tempPrio[holder] = OwnPrio(s, t)] ELSE s
InheritOnce(s, holder, t) ==
  IF s.tempPrio[holder] = None /\ OwnPrio(s, holder) > OwnPrio(s, t)
  THEN Reshuffled([s EXCEPT !.tempPrio[holder] = OwnPrio(s, t)], holder) ELSE s

\* The holder inherits the priority of t when that is the higher one.
Inherit(s, holder, t) ==
  IF Prio(s, holder) > OwnPrio(s, t)
  THEN Reshuffled([s EXCEPT !.tempPrio[holder] = OwnPrio(s, t)], holder) ELSE s

EnterMonitor(x) ==
  /\ Calling("ttEnterMonitor") /\ Current \in UserTask /\ NotBlocked
  /\ \A y \in Monitor : heldBy[y] # Current
  /\ IF heldBy[x] = None
     THEN heldBy' = [heldBy EXCEPT ![x] = Current] /\ UNCHANGED <<rtsys, monitorQ>>
     ELSE /\ rtsys' = Inherit(Blocked(rtsys, Current), heldBy[x], Current)
          /\ monitorQ' = [monitorQ EXCEPT ![x] = Queued(@, Current)]
          /\ UNCHANGED heldBy
  /\ UNCHANGED <<pc, eventQ, notified>>

\* Mutants: the first waiting task is readied and finds the monitor free; it
\* stays in waitingQ.
LeaveUnheld(s, x, t) ==
  LET r == Reshuffled([s EXCEPT !.tempPrio[t] = None], t)
      heir == First(monitorQ[x])
  IN  /\ rtsys' = IF heir = None THEN r ELSE MakeReady(r, heir)
      /\ heldBy' = [heldBy EXCEPT ![x] = None]
      /\ monitorQ' = [monitorQ EXCEPT ![x] = IF heir = None THEN @ ELSE Tail(@)]
      /\ notified' = notified \ {heir}
LeaveCopies(s, x, t) ==
  LET r == Reshuffled([s EXCEPT !.tempPrio[t] = None], t)
      heir == First(monitorQ[x])
  IN  /\ rtsys' = IF heir = None THEN r ELSE MakeReady(r, heir)
      /\ heldBy' = [heldBy EXCEPT ![x] = heir]
      /\ notified' = notified \ {heir}
      /\ UNCHANGED monitorQ

\* ttExitMonitor of t, the holder: the first waiting task is readied as the
\* new holder.
Leave(s, x, t) ==
  LET r == Reshuffled([s EXCEPT !.tempPrio[t] = None], t)
      heir == First(monitorQ[x])
  IN  /\ rtsys' = IF heir = None THEN r ELSE MakeReady(r, heir)
      /\ heldBy' = [heldBy EXCEPT ![x] = heir]
      /\ monitorQ' = [monitorQ EXCEPT ![x] = IF heir = None THEN @ ELSE Tail(@)]
      /\ notified' = notified \ {heir}

ExitMonitor(x) ==
  /\ Calling("ttExitMonitor") /\ NotBlocked
  /\ IF heldBy[x] = Current
     THEN Leave(rtsys, x, Current) /\ UNCHANGED <<pc, eventQ>>
     ELSE Abort /\ UNCHANGED monVars

Wait(e) ==
  /\ Calling("ttWait") /\ Current \in UserTask /\ NotBlocked
  /\ IF EventMonitor[e] # None /\ heldBy[EventMonitor[e]] # Current
     THEN Abort /\ UNCHANGED monVars
     ELSE /\ eventQ' = [eventQ EXCEPT ![e] = Queued(@, Current)]
          /\ IF EventMonitor[e] = None
             THEN rtsys' = Blocked(rtsys, Current) /\ UNCHANGED <<heldBy, monitorQ, notified>>
             ELSE Leave(Blocked(rtsys, Current), EventMonitor[e], Current)
          /\ UNCHANGED pc

\* A free event is notified from anywhere, handlers included.
MayNotify(e) ==
  EventMonitor[e] # None => Current \in UserTask /\ heldBy[EventMonitor[e]] = Current

\* The first waiting task becomes ready, or goes on to the waitingQ of the
\* monitor, whether or not it is more urgent than the holder.
Notify(e) ==
  /\ Calling("ttNotify") /\ NotBlocked /\ MayNotify(e)
  /\ IF eventQ[e] = << >>
     THEN UNCHANGED <<rtsys, monitorQ, notified, eventQ>>
     ELSE LET t == Head(eventQ[e])
          IN  /\ eventQ' = [eventQ EXCEPT ![e] = Tail(@)]
              /\ IF EventMonitor[e] = None
                 THEN rtsys' = MakeReady(rtsys, t) /\ UNCHANGED <<monitorQ, notified>>
                 ELSE /\ rtsys' = [rtsys EXCEPT !.state[t] = "WAITING"]
                      /\ monitorQ' = [monitorQ EXCEPT ![EventMonitor[e]] = Queued(@, t)]
                      /\ notified' = notified \cup {t}
  /\ UNCHANGED <<pc, heldBy>>

\* The same for all waiting tasks, first to last.
NotifyAll(e) ==
  /\ Calling("ttNotifyAll") /\ NotBlocked /\ MayNotify(e)
  /\ eventQ' = [eventQ EXCEPT ![e] = << >>]
  /\ LET ts == eventQ[e]
     IN  IF EventMonitor[e] = None
         THEN rtsys' = FoldLeft(MakeReady, rtsys, ts) /\ UNCHANGED <<monitorQ, notified>>
         ELSE /\ rtsys' = [rtsys EXCEPT !.state = [t \in Task |->
                             IF t \in ToSet(ts) THEN "WAITING" ELSE @[t]]]
              /\ monitorQ' = [monitorQ EXCEPT ![EventMonitor[e]] =
                               FoldLeft(Queued, @, ts)]
              /\ notified' = notified \cup ToSet(ts)
  /\ UNCHANGED <<pc, heldBy>>

MonNext ==
  \/ OtherStep /\ UNCHANGED monVars
  \/ \E x \in Monitor : EnterMonitor(x) \/ ExitMonitor(x)
  \/ \E e \in Event : Wait(e) \/ Notify(e) \/ NotifyAll(e)

MonSpec == MonInit /\ [][MonNext]_<<vars, monVars>>

-----------------------------------------------------------------------------
\* the waiting queues of monitors and of events
Queues == [x \in Monitor \cup Event |-> IF x \in Monitor THEN monitorQ[x] ELSE eventQ[x]]

\* Each active job is in one ready, time or waiting queue and its state says
\* which, although ttWait leaves a monitor on behalf of a task that no longer
\* is in the ready queue, and notified tasks go from one waitingQ to another.
MonitorJobsAreQueued == EveryJobIsIn(Queues)

\* A monitor that tasks wait for is held: some task will let them in
\* (ttExitMonitor, ttNotify).
WaitersHaveHolder == \A x \in Monitor : monitorQ[x] # << >> => heldBy[x] # None

\* The holder of a monitor runs at the priority of every task that it blocks
\* out of it, hands it over to the most urgent one, and then is back at its own
\* priority (ttEnterMonitor, ttExitMonitor, ttWait).  Tasks that wait because
\* they were notified pass on none.
HolderInherits ==
  /\ \A x \in Monitor :
       \A t \in ToSet(monitorQ[x]) \ notified : Prio(rtsys, heldBy[x]) <= OwnPrio(rtsys, t)
  /\ \A t \in UserTask : rtsys.tempPrio[t] # None => \E x \in Monitor : heldBy[x] = t
=============================================================================
