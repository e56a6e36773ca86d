-------------------------- MODULE MCMonitorShutdown --------------------------
(* A small instance of MonitorShutdown for TLC. *)
EXTENDS MonitorShutdown

CONSTANT o1
==============================================================================
