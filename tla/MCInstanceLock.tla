--------------------------- MODULE MCInstanceLock ---------------------------
(* Interchangeable processes and inodes for the runs of InstanceLock.      *)
EXTENDS InstanceLock, TLC

MCSymmetry == Permutations(Procs) \union Permutations(Inodes)
=============================================================================
