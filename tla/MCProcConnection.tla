-------------------------- MODULE MCProcConnection --------------------------
(* Instances of ProcConnection for TLC.                                    *)
EXTENDS ProcConnection
=============================================================================
