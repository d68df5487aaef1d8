---------------------------- MODULE MCHeartbeat ----------------------------
(* Instances of Heartbeat for TLC.                                         *)
EXTENDS Heartbeat

MCPressure == <<4, 5>>  \* queue_pressure_ratio 0.8
=============================================================================
