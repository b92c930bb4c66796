----------------------------- MODULE MCWireless -----------------------------
(***************************************************************************)
(* Three nodes in a row: the outer ones do not hear each other, and the    *)
(* one in the middle hears node 2 better than node 0.                      *)
(***************************************************************************)
EXTENDS TTWireless, TLC

CONSTANTS a, b, c, d

MCMessage   == {a, b, c, d}
MCSender    == (a :> 0) @@ (b :> 0) @@ (c :> 2) @@ (d :> 1)
MCReceiver  == (a :> 1) @@ (b :> 1) @@ (c :> 1) @@ (d :> -1)
MCLength    == (a :> 2) @@ (b :> 1) @@ (c :> 1) @@ (d :> 3)
MCPredelay  == [i \in 0 .. 2 |-> IF i = 2 THEN 1 ELSE 0]
MCPostdelay == [i \in 0 .. 2 |-> IF i = 1 THEN 1 ELSE 0]
MCLevel     == [r \in 0 .. 2 |-> [s \in 0 .. 2 |->
                 IF r = s THEN 9 ELSE IF r + s = 2 THEN 1 ELSE IF s = 2 THEN 5 ELSE 4]]

Wireless(types, lossprob, errors, msgs, discarding) ==
  [type : types, lossprob : {lossprob}, errors : {errors}, sends : {msgs}, discards : {discarding}]

MCScenario ==
  Wireless({"802.11", "802.15.4"}, 0, FALSE, {a, c, d}, FALSE)
  \cup Wireless({"802.15.4"}, 0, FALSE, {a, b, d}, FALSE)
  \cup Wireless({"802.11", "802.15.4"}, 0, TRUE, {a, b}, FALSE)
  \cup Wireless({"802.15.4"}, 1, FALSE, {a, d}, FALSE)
  \cup Wireless({"802.11", "802.15.4"}, 0, FALSE, {a, c}, TRUE)
  \cup Wireless({"NCM"}, 0, FALSE, {a}, FALSE)
=============================================================================
