---------------------------- MODULE MCDaemonExec ----------------------------
(* Instances of DaemonExec for TLC.                                        *)
EXTENDS DaemonExec
=============================================================================
