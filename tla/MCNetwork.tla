----------------------------- MODULE MCNetwork -----------------------------
(***************************************************************************)
(* Three nodes and four messages, one of them a broadcast.  The smallest   *)
(* frame and the collision window take two units of time.                  *)
(***************************************************************************)
EXTENDS TTNetwork, TLC

CONSTANTS a, b, c, d

MCMessage   == {a, b, c, d}
MCSender    == (a :> 0) @@ (b :> 0) @@ (c :> 1) @@ (d :> 2)
MCReceiver  == (a :> 1) @@ (b :> -1) @@ (c :> 2) @@ (d :> 1)
MCLength    == (a :> 4) @@ (b :> 1) @@ (c :> 2) @@ (d :> 2)
MCMsgPrio   == (a :> 2) @@ (b :> 2) @@ (c :> 1) @@ (d :> 2)
MCBandwidth == [i \in 0 .. 2 |-> 1]
MCPredelay  == [i \in 0 .. 2 |-> IF i = 0 THEN 1 ELSE 0]
MCPostdelay == [i \in 0 .. 2 |-> IF i = 1 THEN 3 ELSE 0]
MCStatic    == {c}
MCDynSchedule == <<0, 2, 0>>

Wired(types, msgs, discarding) ==
  [type : types, buftype : {"COMMONBUF"}, overflow : {"BUFFULLDROP"}, lossprob : {0},
   schedule : {<<0, 1, -1>>}, sends : {msgs}, discards : {discarding}]

OnFlexRay(slots, msgs) ==
  [type : {"FLEXRAY"}, buftype : {"COMMONBUF"}, overflow : {"BUFFULLDROP"}, lossprob : {0},
   schedule : {slots}, sends : {msgs}, discards : {FALSE}]

\* With few messages where the nodes draw back-offs or name the next node.
MCScenario ==
  Wired({"CSMACD"}, {b, c, d}, FALSE) \cup Wired({"CSMACD"}, {a, c}, TRUE)
  \cup Wired({"CSMAAMP", "RR"}, {a, b, c}, TRUE) \cup Wired({"NCM"}, {b, c}, TRUE)
  \cup Wired({"CSMAAMP", "RR", "FDMA", "TDMA"}, {a, b, c, d}, FALSE)
  \cup [type : {"RR"}, buftype : {"COMMONBUF"}, overflow : {"BUFFULLDROP"}, lossprob : {1},
        schedule : {<<0>>}, sends : {{a, b, c}}, discards : {FALSE}]
  \cup [type : {"SFDSE"}, buftype : {"COMMONBUF", "OUTPUTBUF"},
        overflow : {"BUFFULLDROP", "BUFFULLRETRY"}, lossprob : {0},
        schedule : {<<0>>}, sends : {{a, b, c, d}}, discards : {FALSE}]
  \cup OnFlexRay(<<1>>, {a, b, c, d}) \cup OnFlexRay(<<1, -1>>, {a, c})

\* Two nodes that send to a third, each on its own medium
MCTwoSenders == Wired({"FDMA"}, {b, d}, FALSE)
=============================================================================
