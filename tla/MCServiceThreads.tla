-------------------------- MODULE MCServiceThreads --------------------------
(* Instances of ServiceThreads for TLC.                                    *)
EXTENDS ServiceThreads
=============================================================================
