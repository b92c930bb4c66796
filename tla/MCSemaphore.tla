---------------------------- MODULE MCSemaphore ----------------------------
(***************************************************************************)
(* One CPU and two semaphores, one of them binary and taken at the start.  *)
(* t1 has the higher priority and returns every two units of time; the     *)
(* handler h gives too.                                                    *)
(***************************************************************************)
EXTENDS TTSemaphore

CONSTANTS t1, t2, h, s1, s2

MCUserTask    == {t1, t2}
MCHandler     == {h}
MCSemaphores  == {s1, s2}
MCAffinity    == [t \in {t1, t2, h} |-> 0]
MCPriority    == (t1 :> 1) @@ (t2 :> 2) @@ (h :> 1)
MCDeadline    == [t \in MCUserTask |-> 2]
MCWCET        == [t \in MCUserTask |-> 1]
MCStartTime   == (t1 :> 1) @@ (t2 :> 0)
MCPeriod      == (t1 :> 2) @@ (t2 :> 0)
MCDLHandler   == [t \in MCUserTask |-> None]
MCWCETHandler == (t1 :> None) @@ (t2 :> h)
MCInitVal     == (s1 :> 0) @@ (s2 :> 1)
MCMaxVal      == (s1 :> 1) @@ (s2 :> 2)
=============================================================================
