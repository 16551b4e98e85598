----------------------------- MODULE MemoryMap -----------------------------
(***************************************************************************)
(* What PartitionAllocator promises: contiguous memory, every unit of      *)
(* which is free or belongs to a job.  No partitions are left here: first  *)
(* fit and best fit are stated on the units themselves.                    *)
(*                                                                         *)
(*   cells    the job each unit of memory belongs to, or NoJob             *)
(*   policy   the allocation algorithm in force                            *)
(*   result   what the last call returned: the start address of an         *)
(*            allocation or -1; 1 or 0 for reclaim                         *)
(***************************************************************************)
EXTENDS Integers

CONSTANTS TotalSize, Jobs, NoJob, Sizes, PartitionAlgo

VARIABLES cells, policy, result

map_vars == <<cells, policy, result>>

Addresses == 0..(TotalSize - 1)

MapInit ==
    /\ cells = [a \in Addresses |-> NoJob]
    /\ policy \in PartitionAlgo
    /\ result = 0

\* The n units from address a on are there and free.
FreeRun(a, n) ==
    /\ a \in Addresses /\ a + n <= TotalSize
    /\ \A x \in a..(a + n - 1) : cells[x] = NoJob

\* A free run of n units that cannot be extended on either side.
Hole(a, n) ==
    /\ n > 0 /\ FreeRun(a, n)
    /\ ~FreeRun(a - 1, n + 1) /\ ~FreeRun(a, n + 1)

\* The lowest address with size free units.
FirstFitAt(a, size) ==
    /\ FreeRun(a, size)
    /\ \A x \in Addresses : x < a => ~FreeRun(x, size)

\* The start of a smallest hole that is large enough, the lowest of those.
BestFitAt(a, size) ==
    \E n \in size..TotalSize :
        /\ Hole(a, n)
        /\ \A x \in Addresses, m \in size..TotalSize :
              Hole(x, m) => n < m \/ (n = m /\ a <= x)

\* An allocation fails exactly if no run of free units is long enough.
Allocate(j, size) ==
    \/ /\ size > 0
       /\ \E a \in Addresses :
             /\ CASE policy = "FIRST_FIT" -> FirstFitAt(a, size)
                  [] policy = "BEST_FIT"  -> BestFitAt(a, size)
             /\ cells' = [x \in Addresses |-> IF x \in a..(a + size - 1) THEN j
                                                                         ELSE cells[x]]
             /\ result' = a
       /\ UNCHANGED policy
    \/ /\ size <= 0 \/ ~\E a \in Addresses : FreeRun(a, size)
       /\ result' = -1
       /\ UNCHANGED <<cells, policy>>

\* Everything the job has becomes free.
Reclaim(j) ==
    /\ cells' = [x \in Addresses |-> IF cells[x] = j THEN NoJob ELSE cells[x]]
    /\ result' = IF \E x \in Addresses : cells[x] = j THEN 1 ELSE 0
    /\ UNCHANGED policy

SetAlgorithm(p) == policy' = p /\ UNCHANGED <<cells, result>>

MapNext ==
    \/ \E j \in Jobs : Reclaim(j) \/ \E size \in Sizes : Allocate(j, size)
    \/ \E p \in PartitionAlgo : SetAlgorithm(p)

MapSpec == MapInit /\ [][MapNext]_map_vars
=============================================================================
