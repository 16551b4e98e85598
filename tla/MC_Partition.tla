---------------------------- MODULE MC_Partition ----------------------------
(***************************************************************************)
(* TLC instance of PartitionAllocator: the jobs are interchangeable.       *)
(***************************************************************************)
EXTENDS PartitionAllocator

Symmetric == Permutations(Jobs)
=============================================================================
