--------------------------- MODULE MCKernelPlugins ---------------------------
(* Instances of KernelPlugins for TLC.                                     *)
EXTENDS KernelPlugins, TLC

\* Two names of the publish/subscribe library and one of another.
MCLibOf == [c \in Configs |-> IF c = "metrics" THEN "metrics" ELSE "kafka"]

AddressSymmetry == Permutations(Addresses)
=============================================================================
