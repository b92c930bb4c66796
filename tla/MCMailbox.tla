----------------------------- MODULE MCMailbox -----------------------------
(***************************************************************************)
(* One CPU and a mailbox for two messages.  t1 has the higher priority and  *)
(* returns every two units of time; t2 runs once and is the first to run.  *)
(***************************************************************************)
EXTENDS TTMailbox

CONSTANTS t1, t2, h, box, m1, m2

MCUserTask    == {t1, t2}
MCHandler     == {h}
MCAffinity    == [t \in {t1, t2, h} |-> 0]
MCPriority    == (t1 :> 1) @@ (t2 :> 2) @@ (h :> 1)
MCDeadline    == [t \in MCUserTask |-> 2]
MCWCET        == [t \in MCUserTask |-> 1]
MCStartTime   == (t1 :> 1) @@ (t2 :> 0)
MCPeriod      == (t1 :> 2) @@ (t2 :> 0)
MCDLHandler   == [t \in MCUserTask |-> None]
MCWCETHandler == (t1 :> None) @@ (t2 :> h)
MCMaxSize     == (box :> 2)

\* Messages are only moved around and compared with None.
MessageSymmetry == Permutations({m1, m2})
=============================================================================
