--------------------------- MODULE MCRuntimeQueue ---------------------------
(* Instances of RuntimeQueue for TLC.                                      *)
EXTENDS RuntimeQueue, TLC

CONSTANTS j1, j2, j3, telegram, heartbeat

MCSourceOf == [j \in Jobs |-> IF j = j2 THEN heartbeat ELSE telegram]
=============================================================================
