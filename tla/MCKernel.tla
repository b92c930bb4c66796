------------------------------ MODULE MCKernel ------------------------------
(***************************************************************************)
(* One CPU, two user tasks and one interrupt handler.  t1 is periodic with *)
(* a deadline handler; t2 runs once from the start, has the lower priority *)
(* and a budget handler.  h serves the external trigger and both overruns. *)
(***************************************************************************)
EXTENDS TTKernel

CONSTANTS t1, t2, h

MCUserTask    == {t1, t2}
MCHandler     == {h}
MCExternal    == {h}
MCAffinity    == [t \in {t1, t2, h} |-> 0]
MCPriority    == (t1 :> 1) @@ (t2 :> 2) @@ (h :> 1)
MCDeadline    == (t1 :> 2) @@ (t2 :> 3)
MCWCET        == (t1 :> 2) @@ (t2 :> 1)
MCStartTime   == [t \in MCUserTask |-> 0]
MCPeriod      == (t1 :> 2) @@ (t2 :> 0)
MCDLHandler   == (t1 :> h) @@ (t2 :> None)
MCWCETHandler == (t1 :> None) @@ (t2 :> h)
=============================================================================
