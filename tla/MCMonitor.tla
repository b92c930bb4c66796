----------------------------- MODULE MCMonitor -----------------------------
(***************************************************************************)
(* One CPU, a monitor mon with the event ev, and a free event fe.  t1 is   *)
(* the most urgent task and t3 the least; the handler h notifies too.      *)
(***************************************************************************)
EXTENDS TTMonitor

CONSTANTS t1, t2, t3, h, mon, ev, fe

MCUserTask     == {t1, t2, t3}
MCHandler      == {h}
MCMonitors     == {mon}
MCEvents       == {ev, fe}
MCEventMonitor == (ev :> mon) @@ (fe :> None)
MCAffinity     == [t \in MCUserTask \cup MCHandler |-> 0]
MCPriority     == (t1 :> 1) @@ (t2 :> 2) @@ (t3 :> 3) @@ (h :> 1)
MCDeadline     == [t \in MCUserTask |-> 2]
MCWCET         == [t \in MCUserTask |-> 1]
MCStartTime    == (t1 :> 2) @@ (t2 :> 1) @@ (t3 :> 0)
MCPeriod       == [t \in MCUserTask |-> 0]
MCNoHandlers   == [t \in MCUserTask |-> None]
MCWCETHandler  == [t \in MCUserTask |-> IF t = t3 THEN h ELSE None]
=============================================================================
