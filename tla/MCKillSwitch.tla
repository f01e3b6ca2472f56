---------------------------- MODULE MCKillSwitch ----------------------------
(* Threads t1, t2 and the trading loop s1 of process p1; t3 of process p2. *)
EXTENDS KillSwitch

MCProzessVon == [t \in Faden |-> IF t = "t3" THEN "p2" ELSE "p1"]
=============================================================================
