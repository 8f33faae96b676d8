-------------------------- MODULE MCProcThreadPool --------------------------
(* Instances of ProcThreadPool for TLC.                                    *)
EXTENDS ProcThreadPool, TLC

PoolSymmetry == Permutations(Handlers) \union Permutations(Workers)
=============================================================================
