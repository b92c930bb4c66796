---------------------------- MODULE MCKernelSMP ----------------------------
(***************************************************************************)
(* Two CPUs with context switch overhead and earliest deadline first.      *)
(* t1 and t3 share CPU 0 with the context switch handler cs; t2 has CPU 1. *)
(***************************************************************************)
EXTENDS TTKernel

CONSTANTS t1, t2, t3, h, cs

MCUserTask    == {t1, t2, t3}
MCHandler     == {h, cs}
MCExternal    == {h}
MCAffinity    == [t \in {t1, t3, h, cs} |-> 0] @@ (t2 :> 1)
MCPriority    == (cs :> -2000) @@ [t \in {t1, t2, t3, h} |-> 1]
MCDeadline    == (t1 :> 4) @@ (t2 :> 3) @@ (t3 :> 2)
MCWCET        == [t \in MCUserTask |-> 1]
MCStartTime   == (t1 :> 0) @@ (t2 :> 0) @@ (t3 :> 1)
MCPeriod      == [t \in MCUserTask |-> 0]
MCDLHandler   == [t \in MCUserTask |-> None]
MCWCETHandler == (t1 :> h) @@ (t2 :> None) @@ (t3 :> None)
=============================================================================
