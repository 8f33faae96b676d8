---------------------------- MODULE MCDaemonize ----------------------------
(* Instances of Daemonize and MetaDaemon for TLC.                          *)
EXTENDS MetaDaemon

AllFlagSets == SUBSET Flags
=============================================================================
