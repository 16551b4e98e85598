------------------------- MODULE PartitionAllocator -------------------------
(***************************************************************************)
(* PartitionAllocator (src/partition_allocator.cpp): dynamic partitions,   *)
(* allocated first fit or best fit, merged again when they are reclaimed.  *)
(*                                                                         *)
(*   partitions   partitions_, in list order                               *)
(*   algo         algo_                                                    *)
(*   it           the iterator of mergeAdjacentFree as a position of the   *)
(*                list, 0 outside that function; no call is possible while *)
(*                it is not 0, so a reclaim ends with a merged list        *)
(*   result       what the last call returned: a start address or -1; for  *)
(*                reclaim 1 (true) or 0 (false)                            *)
(***************************************************************************)
EXTENDS Integers, SequencesExt

CONSTANTS TotalSize,         \* total_size_
          Jobs, NoJob,       \* the job ids of the callers; -1 in the code
          Sizes              \* the sizes asked for

PartitionAlgo == {"FIRST_FIT", "BEST_FIT"}

ASSUME PartitionAssumption ==
    /\ TotalSize \in Nat \ {0}
    /\ Sizes \subseteq Int
    /\ NoJob \notin Jobs

VARIABLES partitions, algo, it, result

vars == <<partitions, algo, it, result>>

Count == Len(partitions)

\* The constructor: one free partition.
Init ==
    /\ partitions = <<[start |-> 0, size |-> TotalSize, free |-> TRUE, owner |-> NoJob]>>
    /\ algo \in PartitionAlgo
    /\ it = 0
    /\ result = 0

\* The caller is between two calls.
Idle == it = 0

-----------------------------------------------------------------------------
(* allocate.                                                               *)

\* Partition i is free and large enough.
Fits(i, size) == partitions[i].free /\ partitions[i].size >= size

\* The loop of FIRST_FIT ends with target = i.
FirstFit(i, size) ==
    /\ Fits(i, size)
    /\ \A k \in 1..Count : k < i => ~Fits(k, size)

\* Mutant: the comparison with best_size is turned round (worst fit).
MutantBestFit(i, size) ==
    /\ Fits(i, size)
    /\ \A k \in 1..Count :
          Fits(k, size) => \/ partitions[i].size > partitions[k].size
                           \/ partitions[i].size = partitions[k].size /\ i <= k

\* The loop of BEST_FIT ends with target = i: a later partition replaces the
\* best one so far only if it is smaller; best_size starts at TotalSize + 1.
BestFit(i, size) ==
    /\ Fits(i, size) /\ partitions[i].size < TotalSize + 1
    /\ \A k \in 1..Count :
          Fits(k, size) => \/ partitions[i].size < partitions[k].size
                           \/ partitions[i].size = partitions[k].size /\ i <= k

Target(i, size) == IF algo = "FIRST_FIT" THEN FirstFit(i, size) ELSE BestFit(i, size)

\* Mutant: the rest starts one unit too late.
MutantLeftover(p, size) ==
    [start |-> p.start + size + 1, size |-> p.size - size, free |-> TRUE, owner |-> NoJob]

\* What is left of partition p.
Leftover(p, size) ==
    [start |-> p.start + size, size |-> p.size - size, free |-> TRUE, owner |-> NoJob]

\* The first size units of partition i go to the job; what remains becomes a
\* free partition behind it.
Split(i, j, size) ==
    LET p == partitions[i]
        taken == [start |-> p.start, size |-> size, free |-> FALSE, owner |-> j]
        list == ReplaceAt(partitions, i, taken)
    IN  partitions' = IF p.size > size THEN InsertAt(list, i + 1, Leftover(p, size))
                                       ELSE list

Allocate(j, size) ==
    /\ Idle
    /\ size > 0
    /\ \E i \in 1..Count :
          /\ Target(i, size)
          /\ Split(i, j, size)
          /\ result' = partitions[i].start
    /\ UNCHANGED <<algo, it>>

\* No partition is large enough, or the size is not positive.
AllocateFails(size) ==
    /\ Idle
    /\ size <= 0 \/ \A i \in 1..Count : ~Target(i, size)
    /\ result' = -1
    /\ UNCHANGED <<partitions, algo, it>>

-----------------------------------------------------------------------------
(* reclaim and mergeAdjacentFree.                                          *)

OwnedBy(p, j) == ~p.free /\ p.owner = j

\* The first loop of reclaim; if it found a partition, the merge follows.
Reclaim(j) ==
    /\ Idle
    /\ \E i \in 1..Count : OwnedBy(partitions[i], j)
    /\ partitions' = [i \in 1..Count |->
           IF OwnedBy(partitions[i], j)
           THEN [partitions[i] EXCEPT !.free = TRUE, !.owner = NoJob]
           ELSE partitions[i]]
    /\ it' = 1
    /\ result' = 1
    /\ UNCHANGED algo

ReclaimFails(j) ==
    /\ Idle
    /\ \A i \in 1..Count : ~OwnedBy(partitions[i], j)
    /\ result' = 0
    /\ UNCHANGED <<partitions, algo, it>>

\* Mutant: the iterator advances after a merge too.
MutantMergeTurn ==
    /\ it # 0
    /\ IF it < Count /\ partitions[it].free /\ partitions[it + 1].free
       THEN partitions' = RemoveAt([partitions EXCEPT ![it].size =
                                      @ + partitions[it + 1].size], it + 1)
       ELSE UNCHANGED partitions
    /\ it' = IF it >= Count THEN 0 ELSE it + 1
    /\ UNCHANGED <<algo, result>>

\* A turn of the loop: merge with the next partition and stay, or go on; the
\* function returns at the end of the list.
MergeTurn ==
    /\ it # 0
    /\ IF it < Count /\ partitions[it].free /\ partitions[it + 1].free
       THEN /\ partitions' = RemoveAt([partitions EXCEPT ![it].size =
                                         @ + partitions[it + 1].size], it + 1)
            /\ UNCHANGED it
       ELSE /\ it' = IF it >= Count THEN 0 ELSE it + 1
            /\ UNCHANGED partitions
    /\ UNCHANGED <<algo, result>>

SetAlgorithm(a) ==
    /\ Idle
    /\ algo' = a
    /\ UNCHANGED <<partitions, it, result>>

-----------------------------------------------------------------------------
Next ==
    \/ \E j \in Jobs, size \in Sizes : Allocate(j, size) \/ AllocateFails(size)
    \/ \E j \in Jobs : Reclaim(j) \/ ReclaimFails(j)
    \/ \E a \in PartitionAlgo : SetAlgorithm(a)
    \/ MergeTurn

Spec == Init /\ [][Next]_vars

-----------------------------------------------------------------------------
(* Correctness.                                                            *)

Partition == [start : Nat, size : Nat \ {0}, free : BOOLEAN, owner : Jobs \union {NoJob}]

\* The list is well formed and not empty, and the iterator is inside it.
TypeOK ==
    /\ partitions \in Seq(Partition) /\ Count > 0
    /\ algo \in PartitionAlgo
    /\ it \in 0..Count
    /\ result \in Int

End(p) == p.start + p.size

\* The partitions tile the memory: they follow each other without gap or
\* overlap from 0 to the total size, none is empty, and the free ones are
\* those without an owner, in the middle of a merge too (allocate's split,
\* mergeAdjacentFree's sum of sizes).
PartitionsTile ==
    /\ TypeOK
    /\ partitions[1].start = 0
    /\ \A i \in 1..(Count - 1) : partitions[i + 1].start = End(partitions[i])
    /\ End(partitions[Count]) = TotalSize
    /\ \A i \in 1..Count : partitions[i].free <=> partitions[i].owner = NoJob

\* No two neighbours are both free, except behind the iterator of a merge in
\* progress: a hole is never cut in pieces that are too small one by one.
Coalesced ==
    \A i \in 1..(Count - 1) :
        partitions[i].free /\ partitions[i + 1].free => it # 0 /\ it <= i

-----------------------------------------------------------------------------
(* Refinement.                                                             *)

\* The owner of the unit at address a.
OwnerAt(a) ==
    LET i == CHOOSE i \in 1..Count :
                 partitions[i].start <= a /\ a < End(partitions[i])
    IN  partitions[i].owner

MM == INSTANCE MemoryMap WITH
        cells  <- [a \in 0..(TotalSize - 1) |-> OwnerAt(a)],
        policy <- algo

\* The allocator implements first fit and best fit on the memory itself: it
\* fails only if no run of free units is long enough, returns the lowest one
\* or a smallest hole, gives each unit to one job at most, and gives back all
\* a job has, after any history of splits and merges.
ImplementsMemoryMap == MM!MapSpec
=============================================================================
