---------------------- MODULE PartitionAllocatorProofs ----------------------
(***************************************************************************)
(* Proofs about PartitionAllocator, for any memory size, jobs and requests. *)
(***************************************************************************)
EXTENDS PartitionAllocator, SequenceTheorems, WellFoundedInduction, TLAPS

\* partitions_.insert.
LEMMA InsertFacts ==
    ASSUME NEW q \in Seq(Partition), NEW i \in 1..(Len(q) + 1), NEW p \in Partition
    PROVE  /\ InsertAt(q, i, p) \in Seq(Partition)
           /\ Len(InsertAt(q, i, p)) = Len(q) + 1
           /\ \A k \in 1..(Len(q) + 1) :
                 InsertAt(q, i, p)[k] = IF k < i THEN q[k] ELSE IF k = i THEN p ELSE q[k - 1]
<1> DEFINE a == SubSeq(q, 1, i - 1)
           b == SubSeq(q, i, Len(q))
<1>1. Len(q) \in Nat /\ \A k \in 1..Len(q) : q[k] \in Partition
  OBVIOUS
<1>2. /\ a \in Seq(Partition) /\ Len(a) = i - 1
      /\ \A k \in 1..(i - 1) : a[k] = q[k]
  <2>1. \A k \in 1..(i - 1) : q[k] \in Partition
    BY <1>1
  <2>2. i - 1 \in Nat
    BY <1>1
  <2>3. QED
    BY <2>1, <2>2, SubSeqProperties
<1>3. /\ b \in Seq(Partition) /\ Len(b) = Len(q) - i + 1
      /\ \A k \in 1..(Len(q) - i + 1) : b[k] = q[i + k - 1]
  <2>1. \A k \in i..Len(q) : q[k] \in Partition
    BY <1>1
  <2>2. QED
    BY <1>1, <2>1, SubSeqProperties
<1> HIDE DEF a, b
<1> DEFINE c == a \o <<p>>
<1>4. /\ c \in Seq(Partition) /\ Len(c) = i /\ c[i] = p
      /\ \A k \in 1..(i - 1) : c[k] = q[k]
  <2>1. <<p>> \in Seq(Partition) /\ Len(<<p>>) = 1 /\ <<p>>[1] = p
    OBVIOUS
  <2>2. /\ c \in Seq(Partition) /\ Len(c) = Len(a) + 1
        /\ \A k \in 1..(Len(a) + 1) : c[k] = IF k <= Len(a) THEN a[k] ELSE <<p>>[k - Len(a)]
    BY <1>2, <2>1, ConcatProperties
  <2>3. i - Len(a) = 1 /\ i \in 1..(Len(a) + 1) /\ ~(i <= Len(a))
    BY <1>1, <1>2
  <2>4. c[i] = p
    BY <2>1, <2>2, <2>3
  <2>5. QED
    BY <1>1, <1>2, <2>2, <2>4
<1> HIDE DEF c
<1>5. /\ c \o b \in Seq(Partition) /\ Len(c \o b) = Len(q) + 1
      /\ \A k \in 1..(Len(q) + 1) : (c \o b)[k] = IF k <= i THEN c[k] ELSE b[k - i]
  <2>1. /\ c \o b \in Seq(Partition) /\ Len(c \o b) = Len(c) + Len(b)
        /\ \A k \in 1..(Len(c) + Len(b)) :
              (c \o b)[k] = IF k <= Len(c) THEN c[k] ELSE b[k - Len(c)]
    BY <1>3, <1>4, ConcatProperties
  <2>2. Len(c) = i /\ Len(c) + Len(b) = Len(q) + 1
    BY <1>1, <1>3, <1>4
  <2>3. QED
    BY <2>1, <2>2
<1>6. ASSUME NEW k \in 1..(Len(q) + 1)
      PROVE  (c \o b)[k] = IF k < i THEN q[k] ELSE IF k = i THEN p ELSE q[k - 1]
  <2>1. CASE k < i
    BY <1>1, <1>4, <1>5, <2>1
  <2>2. CASE k = i
    BY <1>1, <1>4, <1>5, <2>2
  <2>3. CASE k > i
    <3>1. k - i \in 1..(Len(q) - i + 1) /\ i + (k - i) - 1 = k - 1
      BY <1>1, <2>3
    <3>2. b[k - i] = q[k - 1]
      BY <1>3, <3>1
    <3>3. QED
      BY <1>1, <1>5, <2>3, <3>2
  <2>4. k < i \/ k = i \/ k > i
    BY <1>1
  <2>5. QED
    BY <2>1, <2>2, <2>3, <2>4
<1>7. InsertAt(q, i, p) = c \o b
  BY DEF InsertAt, a, b, c
<1>8. QED
  BY <1>5, <1>6, <1>7

\* partitions_.erase.
LEMMA EraseFacts ==
    ASSUME NEW q \in Seq(Partition), NEW i \in 1..Len(q)
    PROVE  /\ RemoveAt(q, i) \in Seq(Partition)
           /\ Len(RemoveAt(q, i)) = Len(q) - 1
           /\ \A k \in 1..(Len(q) - 1) : RemoveAt(q, i)[k] = IF k < i THEN q[k] ELSE q[k + 1]
<1> DEFINE a == SubSeq(q, 1, i - 1)
           b == SubSeq(q, i + 1, Len(q))
<1>1. Len(q) \in Nat /\ \A k \in 1..Len(q) : q[k] \in Partition
  OBVIOUS
<1>2. /\ a \in Seq(Partition) /\ Len(a) = i - 1
      /\ \A k \in 1..(i - 1) : a[k] = q[k]
  <2>1. i - 1 \in Nat /\ \A k \in 1..(i - 1) : q[k] \in Partition
    BY <1>1
  <2>2. QED
    BY <2>1, SubSeqProperties
<1>3. /\ b \in Seq(Partition) /\ Len(b) = Len(q) - i
      /\ \A k \in 1..(Len(q) - i) : b[k] = q[i + k]
  <2>1. \A k \in (i + 1)..Len(q) : q[k] \in Partition
    BY <1>1
  <2>2. QED
    BY <1>1, <2>1, SubSeqProperties
<1> HIDE DEF a, b
<1>4. /\ a \o b \in Seq(Partition) /\ Len(a \o b) = Len(q) - 1
      /\ \A k \in 1..(Len(q) - 1) : (a \o b)[k] = IF k <= i - 1 THEN a[k] ELSE b[k - (i - 1)]
  <2>1. /\ a \o b \in Seq(Partition) /\ Len(a \o b) = Len(a) + Len(b)
        /\ \A k \in 1..(Len(a) + Len(b)) :
              (a \o b)[k] = IF k <= Len(a) THEN a[k] ELSE b[k - Len(a)]
    BY <1>2, <1>3, ConcatProperties
  <2>2. Len(a) = i - 1 /\ Len(a) + Len(b) = Len(q) - 1
    BY <1>1, <1>2, <1>3
  <2>3. QED
    BY <2>1, <2>2
<1>5. ASSUME NEW k \in 1..(Len(q) - 1)
      PROVE  (a \o b)[k] = IF k < i THEN q[k] ELSE q[k + 1]
  <2>1. CASE k < i
    BY <1>1, <1>2, <1>4, <2>1
  <2>2. CASE ~(k < i)
    <3>1. k - (i - 1) \in 1..(Len(q) - i) /\ i + (k - (i - 1)) = k + 1
      BY <1>1, <2>2
    <3>2. b[k - (i - 1)] = q[k + 1]
      BY <1>3, <3>1
    <3>3. QED
      BY <1>1, <1>4, <2>2, <3>2
  <2>3. QED
    BY <2>1, <2>2
<1>6. RemoveAt(q, i) = a \o b
  BY DEF RemoveAt, a, b
<1>7. QED
  BY <1>4, <1>5, <1>6

-----------------------------------------------------------------------------
(* What a call does to the list.                                           *)

\* The partition that an allocation leaves to the job.
Taken(p, j, size) == [start |-> p.start, size |-> size, free |-> FALSE, owner |-> j]

\* A request that is smaller than its partition cuts it in two ...
LEMMA CutFacts ==
    ASSUME TypeOK, NEW j \in Jobs, NEW size \in Nat \ {0}, NEW i \in 1..Count,
           partitions[i].size > size, Split(i, j, size)
    PROVE  /\ partitions' \in Seq(Partition) /\ Count' = Count + 1
           /\ \A k \in 1..(Count + 1) :
                 partitions'[k] = IF k < i THEN partitions[k]
                                  ELSE IF k = i THEN Taken(partitions[i], j, size)
                                  ELSE IF k = i + 1 THEN Leftover(partitions[i], size)
                                  ELSE partitions[k - 1]
<1> DEFINE t == Taken(partitions[i], j, size)
           r == Leftover(partitions[i], size)
           list == [partitions EXCEPT ![i] = t]
<1>1. /\ partitions \in Seq(Partition) /\ Count \in Nat /\ partitions[i] \in Partition
      /\ partitions[i].start \in Nat /\ partitions[i].size \in Nat
  <2>1. partitions \in Seq(Partition) /\ Count \in Nat /\ partitions[i] \in Partition
    BY DEF TypeOK, Count
  <2>2. QED
    BY <2>1 DEF Partition
<1>2. t \in Partition /\ r \in Partition
  BY <1>1 DEF Taken, Leftover, Partition
<1>3. partitions' = InsertAt(list, i + 1, r)
  BY DEF Split, ReplaceAt, Taken
<1> HIDE DEF t, r
<1>4. /\ list \in Seq(Partition) /\ Len(list) = Count
      /\ \A k \in 1..Count : list[k] = IF k = i THEN t ELSE partitions[k]
  BY <1>1, <1>2, ExceptSeq DEF Count
<1> HIDE DEF list
<1>5. i + 1 \in 1..(Len(list) + 1)
  BY <1>1, <1>4
<1>6. /\ partitions' \in Seq(Partition) /\ Len(partitions') = Count + 1
      /\ \A k \in 1..(Count + 1) :
            partitions'[k] = IF k < i + 1 THEN list[k] ELSE IF k = i + 1 THEN r ELSE list[k - 1]
  <2>1. \A M \in 1..(Len(list) + 1) :
           /\ InsertAt(list, M, r) \in Seq(Partition)
           /\ Len(InsertAt(list, M, r)) = Len(list) + 1
           /\ \A k \in 1..(Len(list) + 1) :
                 InsertAt(list, M, r)[k] =
                     IF k < M THEN list[k] ELSE IF k = M THEN r ELSE list[k - 1]
    <3>1. list \in Seq(Partition) /\ r \in Partition
      BY <1>2, <1>4
    <3>2. TAKE M \in 1..(Len(list) + 1)
    <3>3. QED
      BY <3>1, InsertFacts
  <2>2. /\ InsertAt(list, i + 1, r) \in Seq(Partition)
        /\ Len(InsertAt(list, i + 1, r)) = Len(list) + 1
        /\ \A k \in 1..(Len(list) + 1) :
              InsertAt(list, i + 1, r)[k] =
                  IF k < i + 1 THEN list[k] ELSE IF k = i + 1 THEN r ELSE list[k - 1]
    BY <1>5, <2>1
  <2>3. QED
    BY <1>3, <1>4, <2>2 
<1>7. ASSUME NEW k \in 1..(Count + 1)
      PROVE  partitions'[k] = IF k < i THEN partitions[k] ELSE IF k = i THEN t
                              ELSE IF k = i + 1 THEN r ELSE partitions[k - 1]
  <2>1. CASE k < i + 1
    BY <1>1, <1>4, <1>6, <2>1
  <2>2. CASE k = i + 1
    BY <1>1, <1>6, <2>2
  <2>3. CASE k > i + 1
    <3>1. k - 1 \in 1..Count /\ k - 1 # i /\ ~(k < i + 1) /\ k # i + 1 /\ ~(k < i) /\ k # i
      BY <1>1, <2>3
    <3>2. QED
      BY <1>4, <1>6, <3>1
  <2>4. QED
    BY <1>1, <2>1, <2>2, <2>3
<1>8. QED
  BY <1>6, <1>7 DEF Count, t, r

\* ... and one of the same size takes it whole.
LEMMA WholeFacts ==
    ASSUME TypeOK, NEW j \in Jobs, NEW size \in Nat \ {0}, NEW i \in 1..Count,
           partitions[i].size = size, Split(i, j, size)
    PROVE  /\ partitions' \in Seq(Partition) /\ Count' = Count
           /\ \A k \in 1..Count :
                 partitions'[k] = IF k = i THEN Taken(partitions[i], j, size) ELSE partitions[k]
<1> DEFINE t == Taken(partitions[i], j, size)
<1>1. partitions \in Seq(Partition) /\ Count \in Nat /\ partitions[i].start \in Nat
  <2>1. partitions \in Seq(Partition) /\ Count \in Nat /\ partitions[i] \in Partition
    BY DEF TypeOK, Count
  <2>2. QED
    BY <2>1 DEF Partition
<1>2. t \in Partition
  BY <1>1 DEF Taken, Partition
<1>3. partitions' = [partitions EXCEPT ![i] = t]
  BY DEF Split, ReplaceAt, Taken
<1> HIDE DEF t
<1>4. QED
  <2>1. /\ partitions' \in Seq(Partition) /\ Len(partitions') = Len(partitions)
        /\ \A k \in 1..Len(partitions) : partitions'[k] = IF k = i THEN t ELSE partitions[k]
    BY <1>1, <1>2, <1>3, ExceptSeq DEF Count
  <2>2. QED
    BY <2>1 DEF Count, t

\* it->size += next->size changes the size alone.
LEMMA Grow ==
    ASSUME NEW p \in Partition, NEW n \in Nat
    PROVE  [p EXCEPT !.size = @ + n] =
               [start |-> p.start, size |-> p.size + n, free |-> p.free, owner |-> p.owner]
BY DEF Partition

\* it.free = true, it.owner_id = -1 changes nothing else.
LEMMA Give ==
    ASSUME NEW p \in Partition
    PROVE  [p EXCEPT !.free = TRUE, !.owner = NoJob] =
               [start |-> p.start, size |-> p.size, free |-> TRUE, owner |-> NoJob]
<1> DEFINE q == [p EXCEPT !.free = TRUE, !.owner = NoJob]
           r == [start |-> p.start, size |-> p.size, free |-> TRUE, owner |-> NoJob]
<1>1. p = [start |-> p.start, size |-> p.size, free |-> p.free, owner |-> p.owner]
  BY DEF Partition
<1>2. DOMAIN q = DOMAIN p /\ DOMAIN r = {"start", "size", "free", "owner"}
  OBVIOUS
<1>3. DOMAIN p = {"start", "size", "free", "owner"}
  BY <1>1
<1>4. /\ q["start"] = r["start"] /\ q["size"] = r["size"]
      /\ q["free"] = r["free"] /\ q["owner"] = r["owner"]
  BY <1>3
<1>5. QED
  BY <1>2, <1>3, <1>4

\* A merge puts two free neighbours together.
LEMMA MergeFacts ==
    ASSUME TypeOK, NEW i \in 1..Count, i < Count, partitions[i].free, partitions[i + 1].free,
           partitions' = RemoveAt([partitions EXCEPT ![i].size = @ + partitions[i + 1].size], i + 1)
    PROVE  /\ partitions' \in Seq(Partition) /\ Count' = Count - 1
           /\ \A k \in 1..(Count - 1) :
                 partitions'[k] =
                     IF k < i THEN partitions[k]
                     ELSE IF k = i
                          THEN [start |-> partitions[i].start,
                                size |-> partitions[i].size + partitions[i + 1].size,
                                free |-> TRUE, owner |-> partitions[i].owner]
                     ELSE partitions[k + 1]
<1> DEFINE p == [start |-> partitions[i].start,
                 size |-> partitions[i].size + partitions[i + 1].size,
                 free |-> TRUE, owner |-> partitions[i].owner]
           list == [partitions EXCEPT ![i] = p]
<1>1. /\ partitions \in Seq(Partition) /\ Count \in Nat /\ i + 1 \in 1..Count
      /\ partitions[i] \in Partition /\ partitions[i + 1] \in Partition
  <2>1. partitions \in Seq(Partition) /\ Count = Len(partitions)
    BY DEF TypeOK, Count
  <2>2. Count \in Nat /\ i + 1 \in 1..Count
    BY <2>1
  <2>3. \A k \in 1..Count : partitions[k] \in Partition
    BY <2>1
  <2>4. QED
    BY <2>1, <2>2, <2>3
<1>2. p \in Partition
  <2>1. /\ partitions[i].start \in Nat /\ partitions[i].owner \in Jobs \union {NoJob}
        /\ partitions[i].size \in Nat \ {0} /\ partitions[i + 1].size \in Nat \ {0}
    BY <1>1 DEF Partition
  <2>2. partitions[i].size + partitions[i + 1].size \in Nat \ {0}
    BY <2>1
  <2>3. QED
    BY <2>1, <2>2 DEF Partition
<1>3. [partitions EXCEPT ![i].size = @ + partitions[i + 1].size] = list
  <2>1. [partitions[i] EXCEPT !.size = @ + partitions[i + 1].size] = p
    <3>1. /\ partitions[i] \in Partition /\ partitions[i].free = TRUE
          /\ partitions[i + 1].size \in Nat
      BY <1>1 DEF Partition
    <3>2. QED
      BY <3>1, Grow
  <2>2. [partitions EXCEPT ![i].size = @ + partitions[i + 1].size] =
            [partitions EXCEPT ![i] = [partitions[i] EXCEPT !.size = @ + partitions[i + 1].size]]
    OBVIOUS
  <2>3. QED
    BY <2>1, <2>2
<1> HIDE DEF p
<1>4. /\ list \in Seq(Partition) /\ Len(list) = Count
      /\ \A k \in 1..Count : list[k] = IF k = i THEN p ELSE partitions[k]
  BY <1>1, <1>2, ExceptSeq DEF Count
<1>5. partitions' = RemoveAt(list, i + 1)
  BY <1>3
<1> HIDE DEF list
<1>6. /\ partitions' \in Seq(Partition) /\ Len(partitions') = Count - 1
      /\ \A k \in 1..(Count - 1) :
            partitions'[k] = IF k < i + 1 THEN list[k] ELSE list[k + 1]
  <2>1. i + 1 \in 1..Len(list)
    BY <1>1, <1>4
  <2>2. /\ RemoveAt(list, i + 1) \in Seq(Partition)
        /\ Len(RemoveAt(list, i + 1)) = Len(list) - 1
        /\ \A k \in 1..(Len(list) - 1) :
              RemoveAt(list, i + 1)[k] = IF k < i + 1 THEN list[k] ELSE list[k + 1]
    BY <1>4, <2>1, EraseFacts
  <2>3. QED
    BY <1>4, <1>5, <2>2
<1>7. ASSUME NEW k \in 1..(Count - 1)
      PROVE  partitions'[k] = IF k < i THEN partitions[k] ELSE IF k = i THEN p
                              ELSE partitions[k + 1]
  <2>1. CASE k < i + 1
    <3>1. k \in 1..Count /\ (k = i \/ k < i)
      BY <1>1, <2>1
    <3>2. partitions'[k] = list[k]
      BY <1>6, <2>1
    <3>3. QED
      BY <1>1, <1>4, <3>1, <3>2
  <2>2. CASE ~(k < i + 1)
    <3>1. k + 1 \in 1..Count /\ k + 1 # i /\ ~(k < i) /\ k # i
      BY <1>1, <2>2
    <3>2. QED
      BY <1>4, <1>6, <2>2, <3>1
  <2>3. QED
    BY <2>1, <2>2
<1>8. QED
  BY <1>6, <1>7 DEF Count, p

-----------------------------------------------------------------------------
(* The list tiles the memory and is merged.                                *)

TileInv == PartitionsTile /\ Coalesced

\* What the type says of a partition of the list.
LEMMA PartitionFields ==
    ASSUME TypeOK, NEW k \in 1..Count
    PROVE  /\ partitions[k].start \in Nat /\ partitions[k].size \in Nat \ {0}
           /\ partitions[k].free \in BOOLEAN /\ partitions[k].owner \in Jobs \union {NoJob}
           /\ End(partitions[k]) = partitions[k].start + partitions[k].size
<1>1. partitions[k] \in Partition
  BY DEF TypeOK, Count
<1>2. QED
  BY <1>1 DEF Partition, End

\* The fields of the two parts of a cut partition.
LEMMA PartFields ==
    ASSUME NEW p, NEW j, NEW size
    PROVE  /\ Taken(p, j, size).start = p.start /\ Taken(p, j, size).size = size
           /\ ~Taken(p, j, size).free /\ Taken(p, j, size).owner = j
           /\ End(Taken(p, j, size)) = p.start + size
           /\ Leftover(p, size).start = p.start + size
           /\ Leftover(p, size).size = p.size - size
           /\ Leftover(p, size).free /\ Leftover(p, size).owner = NoJob
           /\ End(Leftover(p, size)) = p.start + size + (p.size - size)
BY DEF Taken, Leftover, End

\* The first state: one free partition.
LEMMA TileInit == Init => TileInv
<1> SUFFICES ASSUME Init PROVE TileInv
  OBVIOUS
<1> DEFINE p == [start |-> 0, size |-> TotalSize, free |-> TRUE, owner |-> NoJob]
<1>1. p \in Partition
  BY PartitionAssumption DEF Partition
<1>2. partitions = <<p>> /\ it = 0 /\ result = 0 /\ algo \in PartitionAlgo
  BY DEF Init
<1>3. p.start = 0 /\ p.free /\ p.owner = NoJob /\ End(p) = TotalSize
  BY PartitionAssumption DEF End
<1> HIDE DEF p
<1>4. partitions \in Seq(Partition) /\ Count = 1 /\ partitions[1] = p
  BY <1>1, <1>2 DEF Count
<1>5. TypeOK
  BY <1>2, <1>4 DEF TypeOK
<1>6. PartitionsTile
  BY <1>3, <1>4, <1>5 DEF PartitionsTile
<1>7. Coalesced
  BY <1>4 DEF Coalesced
<1>8. QED
  BY <1>6, <1>7 DEF TileInv

\* A request that cuts a partition keeps the tiling, and leaves the rest
\* beside no free partition.
LEMMA CutStep ==
    ASSUME TileInv, it = 0, NEW j \in Jobs, NEW size \in Nat \ {0}, NEW i \in 1..Count,
           partitions[i].free, partitions[i].size > size, Split(i, j, size),
           algo' = algo, it' = it, result' = partitions[i].start
    PROVE  TileInv'
<1> DEFINE P(k) == partitions[k]
           Q(k) == partitions'[k]
           n == Count
<1>1. TypeOK /\ n \in Nat
  BY DEF TileInv, PartitionsTile, TypeOK, Count
<1>2. /\ partitions' \in Seq(Partition) /\ Count' = n + 1
      /\ \A k \in 1..(n + 1) :
            Q(k) = IF k < i THEN P(k) ELSE IF k = i THEN Taken(P(i), j, size)
                   ELSE IF k = i + 1 THEN Leftover(P(i), size) ELSE P(k - 1)
  <2>1. TypeOK /\ partitions[i].size > size /\ Split(i, j, size)
    BY <1>1
  <2> HIDE DEF P, Q, n
  <2>2. /\ partitions' \in Seq(Partition) /\ Count' = Count + 1
        /\ \A k \in 1..(Count + 1) :
              partitions'[k] = IF k < i THEN partitions[k]
                               ELSE IF k = i THEN Taken(partitions[i], j, size)
                               ELSE IF k = i + 1 THEN Leftover(partitions[i], size)
                               ELSE partitions[k - 1]
    BY <2>1, CutFacts
  <2>3. QED
    BY <2>2 DEF P, Q, n
<1>3. TypeOK'
  <2>1. result' \in Int
    BY <1>1, PartitionFields
  <2>2. QED
    BY <1>1, <1>2, <2>1 DEF TypeOK
<1>4. \A k \in 1..n : /\ P(k).start \in Nat /\ P(k).size \in Nat \ {0}
                      /\ End(P(k)) = P(k).start + P(k).size
  BY <1>1, PartitionFields
<1>5. /\ P(1).start = 0 /\ End(P(n)) = TotalSize
      /\ \A k \in 1..(n - 1) : P(k + 1).start = End(P(k))
      /\ \A k \in 1..n : P(k).free <=> P(k).owner = NoJob
      /\ \A k \in 1..(n - 1) : ~(P(k).free /\ P(k + 1).free)
  BY DEF TileInv, PartitionsTile, Coalesced
<1>6. Q(i) = Taken(P(i), j, size) /\ Q(i + 1) = Leftover(P(i), size)
  <2>1. i \in 1..(n + 1) /\ i + 1 \in 1..(n + 1) /\ ~(i < i) /\ ~(i + 1 < i) /\ i + 1 # i
    BY <1>1
  <2>2. QED
    BY <1>2, <2>1
<1>7. /\ Q(i).start = P(i).start /\ End(Q(i)) = P(i).start + size
      /\ ~Q(i).free /\ Q(i).owner = j
      /\ Q(i + 1).start = P(i).start + size /\ Q(i + 1).free /\ Q(i + 1).owner = NoJob
      /\ End(Q(i + 1)) = P(i).start + size + (P(i).size - size)
  BY <1>6, PartFields
<1>8. End(Q(i + 1)) = End(P(i))
  BY <1>4, <1>7
<1>9. /\ \A k \in 1..n : k < i => Q(k) = P(k)
      /\ \A k \in 1..(n + 1) : k > i + 1 => Q(k) = P(k - 1)
  <2> HIDE DEF P, Q, n
  <2>1. ASSUME NEW k \in 1..n, k < i PROVE Q(k) = P(k)
    BY <1>1, <1>2, <2>1
  <2>2. ASSUME NEW k \in 1..(n + 1), k > i + 1 PROVE Q(k) = P(k - 1)
    <3>1. ~(k < i) /\ k # i /\ k # i + 1
      BY <1>1, <2>2 DEF n
    <3>2. QED
      BY <1>2, <3>1
  <2>3. QED
    BY <2>1, <2>2
<1> HIDE DEF P, Q, n
<1>10. \A k \in 1..n : k < i \/ k = i \/ k = i + 1 \/ k > i + 1
  BY <1>1
<1>11. i \in 1..n
  BY DEF n
<1>12. Q(1).start = 0
  <2>1. CASE i = 1
    BY <1>5, <1>7, <2>1
  <2>2. CASE 1 < i
    BY <1>1, <1>5, <1>9, <1>11, <2>2
  <2>3. QED
    BY <1>11, <2>1, <2>2
<1>13. End(Q(n + 1)) = TotalSize
  <2>1. CASE i = n
    BY <1>5, <1>8, <2>1
  <2>2. CASE i < n
    <3>1. ASSUME NEW k \in 1..(n + 1), k = n + 1 PROVE End(Q(k)) = TotalSize
      <4>1. k > i + 1 /\ k - 1 = n
        BY <1>1, <1>11, <2>2, <3>1
      <4>2. Q(k) = P(k - 1)
        BY <1>9, <4>1
      <4>3. QED
        BY <1>5, <4>1, <4>2
    <3>2. QED
      BY <1>1, <3>1
  <2>3. QED
    BY <1>1, <1>11, <2>1, <2>2
<1>14. ASSUME NEW k \in 1..n
       PROVE  Q(k + 1).start = End(Q(k)) /\ ~(Q(k).free /\ Q(k + 1).free)
  <2>1. CASE k + 1 < i
    <3>1. k \in 1..(n - 1) /\ k < i /\ k + 1 \in 1..n
      BY <1>1, <1>11, <2>1
    <3>2. QED
      BY <1>5, <1>9, <2>1, <3>1
  <2>2. CASE k + 1 = i
    <3>1. k \in 1..(n - 1) /\ k < i
      BY <1>1, <1>11, <2>2
    <3>2. Q(k) = P(k) /\ P(k + 1).start = End(P(k))
      BY <1>5, <1>9, <3>1
    <3>3. QED
      BY <1>7, <2>2, <3>2
  <2>3. CASE k = i
    BY <1>7, <2>3
  <2>4. CASE k = i + 1
    <3>1. /\ i \in 1..(n - 1) /\ k + 1 \in 1..(n + 1) /\ k + 1 > i + 1
          /\ k + 1 - 1 = i + 1
      BY <1>1, <1>11, <2>4
    <3>2. Q(k + 1) = P(i + 1)
      BY <1>9, <3>1
    <3>3. P(i + 1).start = End(P(i)) /\ ~P(i + 1).free
      <4>1. P(i).free
        BY DEF P
      <4>2. QED
        BY <1>5, <3>1, <4>1
    <3>4. QED
      BY <1>8, <2>4, <3>2, <3>3
  <2>5. CASE k > i + 1
    <3>1. /\ k \in 1..(n + 1) /\ k + 1 \in 1..(n + 1) /\ k + 1 > i + 1 /\ k + 1 - 1 = k
          /\ k - 1 \in 1..(n - 1) /\ (k - 1) + 1 = k
      BY <1>1, <1>11, <2>5
    <3>2. Q(k) = P(k - 1) /\ Q(k + 1) = P(k)
      BY <1>9, <2>5, <3>1
    <3>3. P(k).start = End(P(k - 1)) /\ ~(P(k - 1).free /\ P(k).free)
      BY <1>5, <3>1
    <3>4. QED
      BY <3>2, <3>3
  <2>6. k + 1 < i \/ k + 1 = i \/ k = i \/ k = i + 1 \/ k > i + 1
    BY <1>1, <1>11
  <2>7. QED
    BY <2>1, <2>2, <2>3, <2>4, <2>5, <2>6
<1>15. ASSUME NEW k \in 1..(n + 1) PROVE Q(k).free <=> Q(k).owner = NoJob
  <2>1. CASE k < i
    <3>1. k \in 1..n
      BY <1>1, <1>11, <2>1
    <3>2. QED
      BY <1>5, <1>9, <2>1, <3>1
  <2>2. CASE k = i
    BY <1>7, <2>2, PartitionAssumption
  <2>3. CASE k = i + 1
    BY <1>7, <2>3
  <2>4. CASE k > i + 1
    <3>1. k - 1 \in 1..n
      BY <1>1, <1>11, <2>4
    <3>2. QED
      BY <1>5, <1>9, <2>4, <3>1
  <2>5. k < i \/ k = i \/ k = i + 1 \/ k > i + 1
    BY <1>1, <1>11
  <2>6. QED
    BY <2>1, <2>2, <2>3, <2>4, <2>5
<1>16. Count' = n + 1 /\ Count' - 1 = n
  BY <1>1, <1>2
<1>17. PartitionsTile'
  BY <1>3, <1>12, <1>13, <1>14, <1>15, <1>16 DEF PartitionsTile, Q
<1>18. Coalesced'
  BY <1>14, <1>16 DEF Coalesced, Q
<1>19. QED
  BY <1>17, <1>18 DEF TileInv

\* When the places, the order and the ends stay as they are, so does the tiling.
LEMMA SamePlaces ==
    ASSUME PartitionsTile, TypeOK', Count' = Count,
           \A k \in 1..Count : /\ partitions'[k].start = partitions[k].start
                               /\ End(partitions'[k]) = End(partitions[k])
                               /\ (partitions'[k].free <=> partitions'[k].owner = NoJob)
    PROVE  PartitionsTile'
<1> DEFINE P(k) == partitions[k]
           Q(k) == partitions'[k]
<1>0. /\ P(1).start = 0 /\ End(P(Count)) = TotalSize
      /\ \A k \in 1..(Count - 1) : P(k + 1).start = End(P(k))
  BY DEF PartitionsTile
<1>1. Count \in Nat /\ 1 \in 1..Count /\ Count \in 1..Count
  BY DEF PartitionsTile, TypeOK, Count
<1> HIDE DEF P, Q
<1>2. Q(1).start = 0 /\ End(Q(Count)) = TotalSize
  <2>1. Q(1).start = P(1).start /\ End(Q(Count)) = End(P(Count))
    BY <1>1 DEF P, Q
  <2>2. QED
    BY <1>0, <2>1
<1>3. ASSUME NEW k \in 1..(Count - 1) PROVE Q(k + 1).start = End(Q(k))
  <2>1. k \in 1..Count /\ k + 1 \in 1..Count
    BY <1>1
  <2>2. Q(k + 1).start = P(k + 1).start /\ End(Q(k)) = End(P(k))
    BY <2>1 DEF P, Q
  <2>3. QED
    BY <1>0, <2>2
<1>4. ASSUME NEW k \in 1..Count PROVE Q(k).free <=> Q(k).owner = NoJob
  BY DEF Q
<1>5. Count' - 1 = Count - 1
  OBVIOUS
<1>6. QED
  BY <1>2, <1>3, <1>4, <1>5 DEF PartitionsTile, Q

\* A request of a partition's whole size keeps the tiling.
LEMMA WholeStep ==
    ASSUME TileInv, it = 0, NEW j \in Jobs, NEW size \in Nat \ {0}, NEW i \in 1..Count,
           partitions[i].free, partitions[i].size = size, Split(i, j, size),
           algo' = algo, it' = it, result' = partitions[i].start
    PROVE  TileInv'
<1>1. TypeOK /\ PartitionsTile /\ Coalesced /\ Count \in Nat
  BY DEF TileInv, PartitionsTile, TypeOK, Count
<1>2. /\ partitions' \in Seq(Partition) /\ Count' = Count
      /\ \A k \in 1..Count :
            partitions'[k] = IF k = i THEN Taken(partitions[i], j, size) ELSE partitions[k]
  <2>1. TypeOK /\ partitions[i].size = size /\ Split(i, j, size)
    BY <1>1
  <2>2. QED
    BY <2>1, WholeFacts
<1>3. TypeOK'
  <2>1. result' \in Int
    BY <1>1, PartitionFields
  <2>2. QED
    BY <1>1, <1>2, <2>1 DEF TypeOK
<1>4. /\ partitions'[i].start = partitions[i].start
      /\ End(partitions'[i]) = End(partitions[i])
      /\ ~partitions'[i].free /\ partitions'[i].owner = j
  <2>1. partitions'[i] = Taken(partitions[i], j, size)
    BY <1>2
  <2>2. End(partitions[i]) = partitions[i].start + size
    BY DEF End
  <2>3. QED
    BY <2>1, <2>2, PartFields
<1>5. \A k \in 1..Count : k # i => partitions'[k] = partitions[k]
  BY <1>2
<1>6. PartitionsTile'
  <2>1. ASSUME NEW k \in 1..Count
        PROVE  /\ partitions'[k].start = partitions[k].start
               /\ End(partitions'[k]) = End(partitions[k])
               /\ (partitions'[k].free <=> partitions'[k].owner = NoJob)
    <3>1. CASE k = i
      BY <1>4, <3>1, PartitionAssumption
    <3>2. CASE k # i
      BY <1>1, <1>5, <3>2 DEF PartitionsTile
    <3>3. QED
      BY <3>1, <3>2
  <2>2. QED
    BY <1>1, <1>2, <1>3, <2>1, SamePlaces
<1>7. Coalesced'
  <2>1. ASSUME NEW k \in 1..(Count - 1)
        PROVE  ~(partitions'[k].free /\ partitions'[k + 1].free)
    <3>1. k \in 1..Count /\ k + 1 \in 1..Count
      BY <1>1
    <3>2. ~(partitions[k].free /\ partitions[k + 1].free)
      BY <1>1 DEF Coalesced
    <3>3. QED
      BY <1>4, <1>5, <3>1, <3>2
  <2>2. QED
    BY <1>2, <2>1 DEF Coalesced
<1>8. QED
  BY <1>6, <1>7 DEF TileInv

\* allocate cuts the partition it found, or takes it whole.
LEMMA AllocateStep ==
    ASSUME TileInv, NEW j \in Jobs, NEW size \in Sizes, Allocate(j, size)
    PROVE  TileInv'
<1>1. PICK i \in 1..Count : /\ Target(i, size) /\ Split(i, j, size)
                            /\ result' = partitions[i].start
  BY DEF Allocate
<1>2. it = 0 /\ it' = it /\ algo' = algo /\ size \in Nat \ {0}
  BY PartitionAssumption DEF Allocate, Idle
<1>3. partitions[i].free /\ partitions[i].size >= size
  BY <1>1 DEF Target, FirstFit, BestFit, Fits
<1>4. partitions[i].size \in Nat
  BY PartitionFields DEF TileInv, PartitionsTile
<1>5. partitions[i].size > size \/ partitions[i].size = size
  BY <1>2, <1>3, <1>4
<1>6. QED
  BY <1>1, <1>2, <1>3, <1>5, CutStep, WholeStep

\* reclaim gives partitions back where they are; the merge starts in front of
\* every pair of free neighbours.
LEMMA ReclaimStep ==
    ASSUME TileInv, NEW j \in Jobs, Reclaim(j)
    PROVE  TileInv'
<1> DEFINE freed(p) == [start |-> p.start, size |-> p.size, free |-> TRUE, owner |-> NoJob]
           new(k) == IF OwnedBy(partitions[k], j) THEN freed(partitions[k]) ELSE partitions[k]
<1>1. TypeOK /\ PartitionsTile /\ Count \in Nat /\ Count > 0
  BY DEF TileInv, PartitionsTile, TypeOK, Count
<1>2. ASSUME NEW k \in 1..Count
      PROVE  /\ partitions[k] \in Partition
             /\ [partitions[k] EXCEPT !.free = TRUE, !.owner = NoJob] = freed(partitions[k])
             /\ new(k) \in Partition
  <2>1. partitions[k] \in Partition
    BY <1>1 DEF TypeOK, Count
  <2>2. freed(partitions[k]) \in Partition
    BY <2>1 DEF Partition
  <2>3. QED
    BY <2>1, <2>2, Give
<1>3. partitions' = [k \in 1..Count |-> new(k)]
  BY <1>2 DEF Reclaim
<1>4. ASSUME NEW k \in 1..Count
      PROVE  /\ new(k).start = partitions[k].start /\ End(new(k)) = End(partitions[k])
             /\ (new(k).free <=> new(k).owner = NoJob)
  <2>1. CASE OwnedBy(partitions[k], j)
    BY <2>1 DEF End
  <2>2. CASE ~OwnedBy(partitions[k], j)
    BY <1>1, <2>2 DEF PartitionsTile
  <2>3. QED
    BY <2>1, <2>2
<1> HIDE DEF new
<1>5. partitions' \in Seq(Partition) /\ Count' = Count
  <2>1. partitions' \in [1..Count -> Partition]
    BY <1>2, <1>3
  <2>2. QED
    BY <1>1, <2>1, SeqDef DEF Count
<1>6. it' = 1 /\ result' = 1 /\ algo' = algo
  BY DEF Reclaim
<1>7. TypeOK'
  BY <1>1, <1>5, <1>6 DEF TypeOK
<1>8. PartitionsTile'
  BY <1>1, <1>3, <1>4, <1>5, <1>7, SamePlaces
<1>9. Coalesced'
  BY <1>1, <1>5, <1>6 DEF Coalesced
<1>10. QED
  BY <1>8, <1>9 DEF TileInv

\* A turn that merges: the sum of the sizes closes the place of the partition
\* that is erased.
LEMMA MergeStep ==
    ASSUME TileInv, it # 0, it < Count, partitions[it].free, partitions[it + 1].free,
           partitions' = RemoveAt([partitions EXCEPT ![it].size =
                                      @ + partitions[it + 1].size], it + 1),
           it' = it, algo' = algo, result' = result
    PROVE  TileInv'
<1> DEFINE P(k) == partitions[k]
           Q(k) == partitions'[k]
           n == Count
           m == [start |-> P(it).start, size |-> P(it).size + P(it + 1).size,
                 free |-> TRUE, owner |-> P(it).owner]
<1>1. TypeOK /\ n \in Nat /\ it \in 1..n /\ it < n
  BY DEF TileInv, PartitionsTile, TypeOK, Count
<1>2. /\ partitions' \in Seq(Partition) /\ Count' = n - 1
      /\ \A k \in 1..(n - 1) :
            Q(k) = IF k < it THEN P(k) ELSE IF k = it THEN m ELSE P(k + 1)
  BY <1>1, MergeFacts
<1>3. TypeOK'
  BY <1>1, <1>2 DEF TypeOK
<1>4. /\ P(it).start \in Nat /\ P(it).size \in Nat /\ P(it + 1).start \in Nat
      /\ P(it + 1).size \in Nat
      /\ End(P(it)) = P(it).start + P(it).size
      /\ End(P(it + 1)) = P(it + 1).start + P(it + 1).size
  <2>1. it \in 1..Count /\ it + 1 \in 1..Count
    BY <1>1
  <2>2. QED
    BY <1>1, <2>1, PartitionFields
<1>5. /\ P(1).start = 0 /\ End(P(n)) = TotalSize
      /\ \A k \in 1..(n - 1) : P(k + 1).start = End(P(k))
      /\ \A k \in 1..n : P(k).free <=> P(k).owner = NoJob
      /\ \A k \in 1..(n - 1) : P(k).free /\ P(k + 1).free => it <= k
  BY DEF TileInv, PartitionsTile, Coalesced
<1>6. /\ m.start = P(it).start /\ m.free /\ m.owner = NoJob
      /\ End(m) = End(P(it + 1))
  <2>1. P(it + 1).start = End(P(it))
    BY <1>1, <1>5
  <2>2. End(m) = P(it).start + (P(it).size + P(it + 1).size)
    BY DEF End
  <2>3. P(it).owner = NoJob
    BY <1>1, <1>5
  <2>4. QED
    BY <1>4, <2>1, <2>2, <2>3
<1> HIDE DEF P, Q, n, m
<1>7. /\ \A k \in 1..(n - 1) : k < it => Q(k) = P(k)
      /\ Q(it) = m
      /\ \A k \in 1..(n - 1) : k > it => Q(k) = P(k + 1)
  <2>1. ASSUME NEW k \in 1..(n - 1), k > it PROVE Q(k) = P(k + 1)
    <3>1. ~(k < it) /\ k # it
      BY <1>1, <2>1
    <3>2. QED
      BY <1>2, <3>1
  <2>2. it \in 1..(n - 1) /\ ~(it < it)
    BY <1>1
  <2>3. QED
    BY <1>2, <2>1, <2>2
<1>8. Q(1).start = 0
  <2>1. CASE it = 1
    BY <1>5, <1>6, <1>7, <2>1
  <2>2. CASE 1 < it
    BY <1>1, <1>5, <1>7, <2>2
  <2>3. QED
    BY <1>1, <2>1, <2>2
<1>9. End(Q(n - 1)) = TotalSize
  <2>1. ASSUME NEW k \in 1..(n - 1), k = n - 1 PROVE End(Q(k)) = TotalSize
    <3>1. k + 1 = n
      BY <1>1, <2>1
    <3>2. CASE k = it
      BY <1>5, <1>6, <1>7, <3>1, <3>2
    <3>3. CASE k > it
      BY <1>5, <1>7, <3>1, <3>3
    <3>4. QED
      BY <1>1, <2>1, <3>2, <3>3
  <2>2. n - 1 \in 1..(n - 1)
    BY <1>1
  <2>3. QED
    BY <2>1, <2>2
<1>10. ASSUME NEW k \in 1..(n - 2)
       PROVE  /\ Q(k + 1).start = End(Q(k))
              /\ Q(k).free /\ Q(k + 1).free => it <= k
  <2>1. CASE k + 1 < it
    <3>1. k \in 1..(n - 1) /\ k < it /\ k + 1 \in 1..(n - 1)
      BY <1>1, <2>1
    <3>2. QED
      BY <1>5, <1>7, <2>1, <3>1
  <2>2. CASE k + 1 = it
    <3>1. k \in 1..(n - 1) /\ k < it /\ ~(it <= k)
      BY <1>1, <2>2
    <3>2. Q(k) = P(k) /\ P(k + 1).start = End(P(k))
      BY <1>5, <1>7, <3>1
    <3>3. ~(P(k).free /\ P(k + 1).free)
      BY <1>5, <3>1
    <3>4. P(k + 1).free
      BY <2>2 DEF P
    <3>5. QED
      BY <1>6, <1>7, <2>2, <3>2, <3>3, <3>4
  <2>3. CASE k = it
    <3>1. /\ it <= k /\ k + 1 \in 1..(n - 1) /\ k + 1 > it
      BY <1>1, <2>3
    <3>2. Q(k + 1) = P((k + 1) + 1) /\ P((k + 1) + 1).start = End(P(k + 1))
      BY <1>5, <1>7, <3>1
    <3>3. QED
      BY <1>6, <1>7, <2>3, <3>1, <3>2
  <2>4. CASE k > it
    <3>1. /\ it <= k /\ k \in 1..(n - 1) /\ k + 1 \in 1..(n - 1) /\ k + 1 > it
      BY <1>1, <2>4
    <3>2. /\ Q(k) = P(k + 1) /\ Q(k + 1) = P((k + 1) + 1)
          /\ P((k + 1) + 1).start = End(P(k + 1))
      BY <1>5, <1>7, <2>4, <3>1
    <3>3. QED
      BY <3>1, <3>2
  <2>5. k + 1 < it \/ k + 1 = it \/ k = it \/ k > it
    BY <1>1
  <2>6. QED
    BY <2>1, <2>2, <2>3, <2>4, <2>5
<1>11. ASSUME NEW k \in 1..(n - 1) PROVE Q(k).free <=> Q(k).owner = NoJob
  <2>1. CASE k < it
    BY <1>1, <1>5, <1>7, <2>1
  <2>2. CASE k = it
    BY <1>6, <1>7, <2>2
  <2>3. CASE k > it
    <3>1. k + 1 \in 1..n
      BY <1>1
    <3>2. QED
      BY <1>5, <1>7, <2>3, <3>1
  <2>4. k < it \/ k = it \/ k > it
    BY <1>1
  <2>5. QED
    BY <2>1, <2>2, <2>3, <2>4
<1>12. Count' = n - 1 /\ Count' - 1 = n - 2
  BY <1>1, <1>2
<1>13. PartitionsTile'
  BY <1>3, <1>8, <1>9, <1>10, <1>11, <1>12 DEF PartitionsTile, Q
<1>14. Coalesced'
  BY <1>10, <1>12 DEF Coalesced, Q
<1>15. QED
  BY <1>13, <1>14 DEF TileInv

\* A turn that goes on leaves no pair of free neighbours behind it.
LEMMA AdvanceStep ==
    ASSUME TileInv, it # 0, ~(it < Count /\ partitions[it].free /\ partitions[it + 1].free),
           it' = (IF it >= Count THEN 0 ELSE it + 1),
           partitions' = partitions, algo' = algo, result' = result
    PROVE  TileInv'
<1>1. TypeOK /\ Count \in Nat /\ it \in 1..Count /\ Count' = Count
  BY DEF TileInv, PartitionsTile, TypeOK, Count
<1>2. TypeOK'
  BY <1>1 DEF TypeOK
<1>3. PartitionsTile'
  BY <1>1, <1>2 DEF TileInv, PartitionsTile
<1>4. ASSUME NEW k \in 1..(Count - 1), partitions[k].free, partitions[k + 1].free
      PROVE  it' # 0 /\ it' <= k
  <2>1. it <= k
    BY <1>4 DEF TileInv, Coalesced
  <2>2. it # k
    BY <1>1, <1>4
  <2>3. QED
    BY <1>1, <2>1, <2>2
<1>5. Coalesced'
  BY <1>1, <1>4 DEF Coalesced
<1>6. QED
  BY <1>3, <1>5 DEF TileInv

\* Calls that leave the list alone.
LEMMA TileFrame ==
    ASSUME TileInv, partitions' = partitions, it' = it, algo' \in PartitionAlgo, result' \in Int
    PROVE  TileInv'
<1>1. Count' = Count
  BY DEF Count
<1>2. TypeOK'
  BY <1>1 DEF TileInv, PartitionsTile, TypeOK
<1>3. PartitionsTile'
  BY <1>1, <1>2 DEF TileInv, PartitionsTile
<1>4. Coalesced'
  BY <1>1 DEF TileInv, Coalesced
<1>5. QED
  BY <1>3, <1>4 DEF TileInv

\* Every call keeps the tiling and the merging.
LEMMA TileStep == TileInv /\ [Next]_vars => TileInv'
<1> SUFFICES ASSUME TileInv, [Next]_vars PROVE TileInv'
  OBVIOUS
<1> USE DEF TileInv
<1>0. algo \in PartitionAlgo /\ result \in Int
  BY DEF PartitionsTile, TypeOK
<1>1. ASSUME NEW size \in Sizes, NEW j \in Jobs, AllocateFails(size) PROVE TileInv'
  BY <1>0, <1>1, TileFrame DEF AllocateFails
<1>2. ASSUME NEW size \in Sizes, NEW j \in Jobs, Allocate(j, size) PROVE TileInv'
  BY <1>2, AllocateStep
<1>3. ASSUME NEW j \in Jobs, Reclaim(j) PROVE TileInv'
  BY <1>3, ReclaimStep
<1>4. ASSUME NEW j \in Jobs, ReclaimFails(j) PROVE TileInv'
  BY <1>0, <1>4, TileFrame DEF ReclaimFails
<1>5. ASSUME NEW a \in PartitionAlgo, SetAlgorithm(a) PROVE TileInv'
  BY <1>0, <1>5, TileFrame DEF SetAlgorithm
<1>6. CASE MergeTurn
  <2>1. CASE it < Count /\ partitions[it].free /\ partitions[it + 1].free
    <3>1. /\ it # 0 /\ it' = it /\ algo' = algo /\ result' = result
          /\ partitions' = RemoveAt([partitions EXCEPT ![it].size =
                                        @ + partitions[it + 1].size], it + 1)
      BY <1>6, <2>1 DEF MergeTurn
    <3>2. QED
      BY <2>1, <3>1, MergeStep
  <2>2. CASE ~(it < Count /\ partitions[it].free /\ partitions[it + 1].free)
    <3>1. /\ it # 0 /\ it' = (IF it >= Count THEN 0 ELSE it + 1) /\ partitions' = partitions
          /\ algo' = algo /\ result' = result
      BY <1>6, <2>2 DEF MergeTurn
    <3>2. QED
      BY <2>2, <3>1, AdvanceStep
  <2>3. QED
    BY <2>1, <2>2
<1>7. CASE UNCHANGED vars
  BY <1>0, <1>7, TileFrame DEF vars
<1>8. QED
  BY <1>1, <1>2, <1>3, <1>4, <1>5, <1>6, <1>7 DEF Next

\* The list is well formed, tiles the memory and is merged, always.
THEOREM TileInvariant == Spec => []TileInv
BY TileInit, TileStep, PTL DEF Spec

\* The partitions tile the memory from 0 to TotalSize without gap or overlap,
\* after any history of splits and merges and in the middle of a merge too.
THEOREM PartitionsAlwaysTile == Spec => []PartitionsTile
<1>1. TileInv => PartitionsTile
  BY DEF TileInv
<1>2. QED
  BY <1>1, TileInvariant, PTL

\* Between two calls no two neighbours are both free: mergeAdjacentFree leaves
\* no pair of holes behind its iterator.
THEOREM PartitionsCoalesced == Spec => []Coalesced
<1>1. TileInv => Coalesced
  BY DEF TileInv
<1>2. QED
  BY <1>1, TileInvariant, PTL

-----------------------------------------------------------------------------
(* Every unit of memory lies in one partition.                             *)

\* What PartitionsTile says of a list.
Tiles(q) ==
    /\ q \in Seq(Partition) /\ Len(q) > 0
    /\ q[1].start = 0
    /\ \A k \in 1..(Len(q) - 1) : q[k + 1].start = End(q[k])
    /\ End(q[Len(q)]) = TotalSize
    /\ \A k \in 1..Len(q) : (q[k].free <=> q[k].owner = NoJob)

\* The unit at address a lies in partition k of the list.
In(q, k, a) == q[k].start <= a /\ a < End(q[k])

\* The numbers are well founded, without the operator OpToRel.
LEMMA NatOrder ==
    \E R : (\A x, y \in Nat : <<x, y>> \in R <=> x < y) /\ IsWellFoundedOn(R, Nat)
<1>1. IsWellFoundedOn(OpToRel(<, Nat), Nat)
  BY NatLessThanWellFounded
<1>2. \A x, y \in Nat : <<x, y>> \in OpToRel(<, Nat) <=> x < y
  BY DEF OpToRel
<1>3. QED
  BY <1>1, <1>2, Zenon

\* A set of numbers that is not empty has a least one.
LEMMA LeastNat ==
    ASSUME NEW T, T \subseteq Nat, T # {}
    PROVE  \E x \in T : \A y \in T : x <= y
<1>1. PICK R : (\A x, y \in Nat : <<x, y>> \in R <=> x < y) /\ IsWellFoundedOn(R, Nat)
  BY NatOrder
<1>2. IsWellFoundedOn(R, Nat)
  BY <1>1
<1>3. \E x \in T : \A y \in T : ~(<<y, x>> \in R)
  BY <1>2, WFMin
<1>4. \A x, y \in T : x <= y \/ <<y, x>> \in R
  <2>1. \A x, y \in Nat : ~(y < x) => x <= y
    OBVIOUS
  <2>2. \A x \in T : x \in Nat
    OBVIOUS
  <2>3. QED
    BY <1>1, <2>1, <2>2
<1>5. QED
  BY <1>3, <1>4

\* The places and sizes of a tiling are numbers.
LEMMA TileFields ==
    ASSUME NEW q, Tiles(q), NEW k \in 1..Len(q)
    PROVE  /\ q[k].start \in Nat /\ q[k].size \in Nat \ {0} /\ q[k].free \in BOOLEAN
           /\ End(q[k]) = q[k].start + q[k].size /\ End(q[k]) \in Nat
           /\ q[k].start < End(q[k])
<1>1. q[k] \in Partition
  BY DEF Tiles
<1>2. /\ q[k].start \in Nat /\ q[k].size \in Nat \ {0} /\ q[k].free \in BOOLEAN
      /\ End(q[k]) = q[k].start + q[k].size
  BY <1>1 DEF Partition, End
<1>3. QED
  BY <1>2

\* An earlier partition ends where a later one starts, or before: the least
\* exception would follow a partition that is none.
LEMMA TileOrder ==
    ASSUME NEW q, Tiles(q), NEW i \in 1..Len(q), NEW k \in 1..Len(q), i < k
    PROVE  End(q[i]) <= q[k].start
<1> DEFINE T == {m \in Nat : m \in 1..Len(q) /\ i < m /\ ~(End(q[i]) <= q[m].start)}
<1>1. Len(q) \in Nat /\ \A m \in 1..(Len(q) - 1) : q[m + 1].start = End(q[m])
  BY DEF Tiles
<1>2. T # {} => FALSE
  <2>1. SUFFICES ASSUME T # {} PROVE FALSE
    OBVIOUS
  <2>2. PICK m \in T : \A y \in T : m <= y
    <3>1. T \subseteq Nat
      OBVIOUS
    <3> HIDE DEF T
    <3>2. QED
      BY <2>1, <3>1, LeastNat
  <2>3. m \in 1..Len(q) /\ i < m /\ ~(End(q[i]) <= q[m].start)
    OBVIOUS
  <2> DEFINE p == m - 1
  <2>4. p \in 1..(Len(q) - 1) /\ p \in 1..Len(q) /\ p + 1 = m /\ ~(m <= p)
    BY <1>1, <2>3
  <2>5. p \notin T
    <3> HIDE DEF T, p
    <3>1. QED
      BY <2>2, <2>4
  <2>6. q[m].start = End(q[p])
    <3> HIDE DEF p
    <3>1. q[p + 1].start = End(q[p])
      BY <1>1, <2>4
    <3>2. QED
      BY <2>4, <3>1
  <2>7. p # i
    <3> HIDE DEF p
    <3>1. End(q[i]) \in Nat
      BY TileFields
    <3>2. QED
      BY <2>3, <2>6, <3>1
  <2>8. i < p
    BY <1>1, <2>3, <2>7
  <2>9. End(q[i]) <= q[p].start
    BY <2>4, <2>5, <2>8
  <2> HIDE DEF p
  <2>10. /\ q[p].start \in Nat /\ End(q[p]) \in Nat /\ q[p].start < End(q[p])
         /\ End(q[i]) \in Nat
    BY <2>4, TileFields
  <2>11. QED
    BY <2>3, <2>6, <2>9, <2>10
<1>3. k \notin T
  <2> HIDE DEF T
  <2>1. QED
    BY <1>2
<1>4. QED
  BY <1>3

\* The partitions lie inside the memory.
LEMMA TileInside ==
    ASSUME NEW q, Tiles(q), NEW k \in 1..Len(q)
    PROVE  End(q[k]) <= TotalSize
<1>1. Len(q) \in Nat /\ Len(q) \in 1..Len(q) /\ End(q[Len(q)]) = TotalSize
  BY DEF Tiles
<1>2. CASE k = Len(q)
  BY <1>1, <1>2, TileFields
<1>3. CASE k < Len(q)
  <2>1. End(q[k]) <= q[Len(q)].start
    BY <1>1, <1>3, TileOrder
  <2>2. /\ q[Len(q)].start \in Nat /\ End(q[Len(q)]) \in Nat /\ End(q[k]) \in Nat
        /\ q[Len(q)].start < End(q[Len(q)])
    BY <1>1, TileFields
  <2>3. QED
    BY <1>1, <2>1, <2>2
<1>4. QED
  BY <1>1, <1>2, <1>3

\* No unit lies in two partitions.
LEMMA TileUnique ==
    ASSUME NEW q, Tiles(q), NEW i \in 1..Len(q), NEW k \in 1..Len(q), NEW a \in Int,
           In(q, i, a), In(q, k, a)
    PROVE  i = k
<1>1. Len(q) \in Nat
  BY DEF Tiles
<1>2. ASSUME NEW x \in 1..Len(q), NEW y \in 1..Len(q), x < y, In(q, x, a), In(q, y, a)
      PROVE  FALSE
  <2>1. End(q[x]) <= q[y].start
    BY <1>2, TileOrder
  <2>2. End(q[x]) \in Nat /\ q[y].start \in Nat
    BY TileFields
  <2>3. a < End(q[x]) /\ q[y].start <= a
    BY <1>2 DEF In
  <2>4. QED
    BY <2>1, <2>2, <2>3
<1>3. ~(i < k) /\ ~(k < i)
  BY <1>2
<1>4. QED
  BY <1>1, <1>3

\* Every unit lies in a partition: the first one that ends behind it.
LEMMA TileCover ==
    ASSUME NEW q, Tiles(q), NEW a \in 0..(TotalSize - 1)
    PROVE  \E k \in 1..Len(q) : In(q, k, a)
<1> DEFINE T == {m \in Nat : m \in 1..Len(q) /\ a < End(q[m])}
<1>1. /\ Len(q) \in Nat /\ Len(q) \in 1..Len(q) /\ End(q[Len(q)]) = TotalSize
      /\ q[1].start = 0
      /\ \A m \in 1..(Len(q) - 1) : q[m + 1].start = End(q[m])
  BY DEF Tiles
<1>2. Len(q) \in T
  BY <1>1, PartitionAssumption
<1>3. PICK m \in T : \A y \in T : m <= y
  <2>1. T \subseteq Nat
    OBVIOUS
  <2> HIDE DEF T
  <2>2. QED
    BY <1>2, <2>1, LeastNat
<1>4. m \in 1..Len(q) /\ a < End(q[m])
  OBVIOUS
<1>5. CASE m = 1
  BY <1>1, <1>4, <1>5 DEF In
<1>6. CASE 1 < m
  <2> DEFINE p == m - 1
  <2>1. p \in 1..(Len(q) - 1) /\ p \in 1..Len(q) /\ p + 1 = m /\ ~(m <= p) /\ p \in Nat
    BY <1>1, <1>4, <1>6
  <2>2. p \notin T
    <3> HIDE DEF T, p
    <3>1. QED
      BY <1>3, <2>1
  <2>3. ~(a < End(q[p]))
    BY <2>1, <2>2
  <2> HIDE DEF p
  <2>4. q[p + 1].start = End(q[p])
    BY <1>1, <2>1
  <2>5. End(q[p]) \in Nat
    BY <2>1, TileFields
  <2>6. q[m].start <= a
    BY <2>1, <2>3, <2>4, <2>5
  <2>7. QED
    BY <1>4, <2>6 DEF In
<1>7. QED
  BY <1>1, <1>4, <1>5, <1>6

-----------------------------------------------------------------------------
(* The memory map of a list, and where a run of free units can lie.        *)

\* OwnerAt of a list.
OwnerIn(q, a) == q[CHOOSE i \in 1..Len(q) : In(q, i, a)].owner

CellMap(q) == [a \in 0..(TotalSize - 1) |-> OwnerIn(q, a)]

\* FreeRun and Hole of the map of a list.
FreeIn(q, a, n) ==
    /\ a \in 0..(TotalSize - 1) /\ a + n <= TotalSize
    /\ \A x \in a..(a + n - 1) : CellMap(q)[x] = NoJob

HoleIn(q, a, n) == n > 0 /\ FreeIn(q, a, n) /\ ~FreeIn(q, a - 1, n + 1) /\ ~FreeIn(q, a, n + 1)

\* No two neighbours are both free.
Merged(q) == \A k \in 1..(Len(q) - 1) : ~(q[k].free /\ q[k + 1].free)

\* The map shows each unit with the owner of its partition.
LEMMA CellIs ==
    ASSUME NEW q, Tiles(q), NEW k \in 1..Len(q), NEW a \in Int, In(q, k, a)
    PROVE  a \in 0..(TotalSize - 1) /\ CellMap(q)[a] = q[k].owner
<1>1. a \in 0..(TotalSize - 1)
  <2>1. q[k].start \in Nat /\ End(q[k]) \in Nat /\ End(q[k]) <= TotalSize
    BY TileFields, TileInside
  <2>2. QED
    BY <2>1, PartitionAssumption DEF In
<1> DEFINE c == CHOOSE i \in 1..Len(q) : In(q, i, a)
<1>2. c \in 1..Len(q) /\ In(q, c, a)
  OBVIOUS
<1>3. CellMap(q)[a] = q[c].owner
  BY <1>1 DEF CellMap, OwnerIn
<1> HIDE DEF c
<1>4. c = k
  BY <1>2, TileUnique
<1>5. QED
  BY <1>1, <1>3, <1>4

\* The units of a free partition are free ...
LEMMA BlockRun ==
    ASSUME NEW q, Tiles(q), NEW k \in 1..Len(q), q[k].free, NEW a \in Int, NEW n \in Nat \ {0},
           q[k].start <= a, a + n <= End(q[k])
    PROVE  FreeIn(q, a, n)
<1>1. q[k].start \in Nat /\ End(q[k]) \in Nat /\ End(q[k]) <= TotalSize
  BY TileFields, TileInside
<1>2. a \in 0..(TotalSize - 1) /\ a + n <= TotalSize
  BY <1>1, PartitionAssumption
<1>3. ASSUME NEW x \in a..(a + n - 1) PROVE CellMap(q)[x] = NoJob
  <2>1. In(q, k, x)
    BY <1>1 DEF In
  <2>2. q[k].owner = NoJob
    BY DEF Tiles
  <2>3. QED
    BY <2>1, <2>2, CellIs
<1>4. QED
  BY <1>2, <1>3 DEF FreeIn

\* ... and a run of free units lies in one of them, for no two are neighbours.
LEMMA RunBlock ==
    ASSUME NEW q, Tiles(q), Merged(q), NEW a \in Int, NEW n \in Nat \ {0}, FreeIn(q, a, n)
    PROVE  \E k \in 1..Len(q) : q[k].free /\ q[k].start <= a /\ a + n <= End(q[k])
<1>1. /\ a \in 0..(TotalSize - 1) /\ a + n <= TotalSize
      /\ \A x \in a..(a + n - 1) : CellMap(q)[x] = NoJob
  BY DEF FreeIn
<1>2. /\ Len(q) \in Nat /\ End(q[Len(q)]) = TotalSize
      /\ \A k \in 1..(Len(q) - 1) : q[k + 1].start = End(q[k])
      /\ \A k \in 1..Len(q) : (q[k].free <=> q[k].owner = NoJob)
  BY DEF Tiles
<1>3. PICK k \in 1..Len(q) : In(q, k, a)
  BY <1>1, TileCover
<1>4. q[k].free
  <2>1. a \in a..(a + n - 1)
    OBVIOUS
  <2>2. QED
    BY <1>1, <1>2, <1>3, <2>1, CellIs
<1>5. ASSUME ~(a + n <= End(q[k])) PROVE FALSE
  <2> DEFINE e == End(q[k])
  <2>1. e \in Nat /\ a < e
    BY <1>3, TileFields DEF In
  <2>2. e \in a..(a + n - 1) /\ e < TotalSize
    BY <1>1, <1>5, <2>1, PartitionAssumption
  <2>3. k # Len(q)
    BY <1>2, <2>1, <2>2, PartitionAssumption
  <2>4. k \in 1..(Len(q) - 1) /\ k + 1 \in 1..Len(q)
    BY <1>2, <2>3
  <2>5. q[k + 1].start = e
    BY <1>2, <2>4
  <2>6. In(q, k + 1, e)
    BY <2>4, <2>5, TileFields DEF In
  <2> HIDE DEF e
  <2>7. q[k + 1].owner = NoJob
    BY <1>1, <2>1, <2>2, <2>4, <2>6, CellIs
  <2>8. q[k + 1].free
    BY <1>2, <2>4, <2>7
  <2>9. QED
    BY <1>4, <2>4, <2>8 DEF Merged
<1>6. QED
  BY <1>3, <1>4, <1>5 DEF In

\* A free partition is a hole ...
LEMMA BlockHole ==
    ASSUME NEW q, Tiles(q), Merged(q), NEW k \in 1..Len(q), q[k].free
    PROVE  HoleIn(q, q[k].start, q[k].size)
<1> DEFINE a == q[k].start
           n == q[k].size
<1>1. a \in Nat /\ n \in Nat \ {0} /\ End(q[k]) = a + n
  BY TileFields
<1> HIDE DEF a, n
<1>2. FreeIn(q, a, n)
  BY <1>1, BlockRun DEF a
<1>3. In(q, k, a)
  BY <1>1 DEF In, a
<1>4. ~FreeIn(q, a - 1, n + 1)
  <2>1. SUFFICES ASSUME FreeIn(q, a - 1, n + 1) PROVE FALSE
    OBVIOUS
  <2> DEFINE b == a - 1
             m == n + 1
  <2>2. b \in Int /\ m \in Nat \ {0} /\ b + m = a + n
    BY <1>1
  <2>3. FreeIn(q, b, m)
    BY <2>1
  <2> HIDE DEF b, m
  <2>4. PICK i \in 1..Len(q) : q[i].start <= b /\ b + m <= End(q[i])
    BY <2>2, <2>3, RunBlock
  <2>5. q[i].start \in Nat /\ End(q[i]) \in Nat
    BY TileFields
  <2>6. In(q, i, a)
    BY <1>1, <2>2, <2>4, <2>5 DEF In, b
  <2>7. i = k
    BY <1>1, <1>3, <2>6, TileUnique
  <2>8. QED
    BY <1>1, <2>4, <2>7 DEF a, b
<1>5. ~FreeIn(q, a, n + 1)
  <2>1. SUFFICES ASSUME FreeIn(q, a, n + 1) PROVE FALSE
    OBVIOUS
  <2> DEFINE m == n + 1
  <2>2. m \in Nat \ {0} /\ n < m
    BY <1>1
  <2>3. FreeIn(q, a, m)
    BY <2>1
  <2> HIDE DEF m
  <2>4. PICK i \in 1..Len(q) : q[i].start <= a /\ a + m <= End(q[i])
    BY <1>1, <2>2, <2>3, RunBlock
  <2>5. q[i].start \in Nat /\ End(q[i]) \in Nat
    BY TileFields
  <2>6. In(q, i, a)
    BY <1>1, <2>2, <2>4, <2>5 DEF In
  <2>7. i = k
    BY <1>1, <1>3, <2>6, TileUnique
  <2>8. QED
    BY <1>1, <2>2, <2>4, <2>7
<1>6. QED
  BY <1>1, <1>2, <1>4, <1>5 DEF HoleIn, a, n

\* ... and there are no other holes.
LEMMA HoleBlock ==
    ASSUME NEW q, Tiles(q), Merged(q), NEW a \in Int, NEW n \in Nat \ {0}, HoleIn(q, a, n)
    PROVE  \E k \in 1..Len(q) : q[k].free /\ a = q[k].start /\ n = q[k].size
<1>1. FreeIn(q, a, n) /\ ~FreeIn(q, a - 1, n + 1) /\ ~FreeIn(q, a, n + 1)
  BY DEF HoleIn
<1>2. PICK k \in 1..Len(q) : q[k].free /\ q[k].start <= a /\ a + n <= End(q[k])
  BY <1>1, RunBlock
<1>3. /\ q[k].start \in Nat /\ q[k].size \in Nat /\ End(q[k]) \in Nat
      /\ End(q[k]) = q[k].start + q[k].size
  BY TileFields
<1>4. a - 1 \in Int /\ n + 1 \in Nat \ {0} /\ (a - 1) + (n + 1) = a + n
  OBVIOUS
<1>5. ~(q[k].start <= a - 1)
  BY <1>1, <1>2, <1>4, BlockRun
<1>6. ~(a + (n + 1) <= End(q[k]))
  BY <1>1, <1>2, <1>4, BlockRun
<1>7. a = q[k].start /\ n = q[k].size
  <2> DEFINE s == q[k].start
             z == q[k].size
  <2>1. s \in Nat /\ z \in Nat /\ s <= a /\ a + n <= s + z
    BY <1>2, <1>3
  <2>2. ~(s <= a - 1) /\ ~(a + (n + 1) <= s + z)
    BY <1>3, <1>5, <1>6
  <2> HIDE DEF s, z
  <2>3. a = s /\ n = z
    BY <2>1, <2>2
  <2>4. QED
    BY <2>3 DEF s, z
<1>8. QED
  BY <1>2, <1>7

-----------------------------------------------------------------------------
(* What a call does to the memory map.                                     *)

\* The list of a state, as a tiling.
LEMMA TilesOf == TileInv => Tiles(partitions) /\ Len(partitions) = Count /\ Count \in Nat
BY DEF TileInv, PartitionsTile, TypeOK, Tiles, Count

LEMMA TilesOfNext ==
    TileInv' => Tiles(partitions') /\ Len(partitions') = Count' /\ Count' \in Nat
BY DEF TileInv, PartitionsTile, TypeOK, Tiles, Count

\* The size units from address a on go to the job.
Given(q, a, size, j) ==
    [x \in 0..(TotalSize - 1) |-> IF x \in a..(a + size - 1) THEN j ELSE CellMap(q)[x]]

\* A cut gives the job the units it asked for, and no other.
LEMMA CutMap ==
    ASSUME TileInv, TileInv', NEW j \in Jobs, NEW size \in Nat \ {0}, NEW i \in 1..Count,
           partitions[i].free, partitions[i].size > size, Split(i, j, size)
    PROVE  CellMap(partitions') = Given(partitions, partitions[i].start, size, j)
<1> DEFINE P == partitions
           Q == partitions'
           a == P[i].start
           n == Len(P)
<1>1. Tiles(P) /\ Tiles(Q) /\ n = Count /\ n \in Nat /\ i \in 1..n
  BY TilesOf, TilesOfNext
<1>2. /\ Len(Q) = n + 1
      /\ \A k \in 1..(n + 1) :
            Q[k] = IF k < i THEN P[k] ELSE IF k = i THEN Taken(P[i], j, size)
                   ELSE IF k = i + 1 THEN Leftover(P[i], size) ELSE P[k - 1]
  <2>1. TypeOK /\ partitions[i].size > size /\ Split(i, j, size)
    BY DEF TileInv, PartitionsTile
  <2> HIDE DEF P, Q, n
  <2>2. /\ partitions' \in Seq(Partition) /\ Count' = Count + 1
        /\ \A k \in 1..(Count + 1) :
              partitions'[k] = IF k < i THEN partitions[k]
                               ELSE IF k = i THEN Taken(partitions[i], j, size)
                               ELSE IF k = i + 1 THEN Leftover(partitions[i], size)
                               ELSE partitions[k - 1]
    BY <2>1, CutFacts
  <2>3. Len(partitions') = Count'
    BY DEF Count
  <2>4. QED
    BY <1>1, <2>2, <2>3 DEF P, Q
<1>3. a \in Nat /\ P[i].size \in Nat /\ End(P[i]) = a + P[i].size /\ P[i].owner = NoJob
  BY <1>1, TileFields DEF Tiles
<1>4. /\ Q[i].start = a /\ End(Q[i]) = a + size /\ Q[i].owner = j
      /\ Q[i + 1].start = a + size /\ Q[i + 1].owner = NoJob
      /\ End(Q[i + 1]) = End(P[i])
  <2>1. i \in 1..(n + 1) /\ i + 1 \in 1..(n + 1) /\ ~(i < i) /\ ~(i + 1 < i) /\ i + 1 # i
    BY <1>1
  <2> HIDE DEF P, Q, n
  <2>2. Q[i] = Taken(P[i], j, size) /\ Q[i + 1] = Leftover(P[i], size)
    BY <1>2, <2>1
  <2>3. End(Q[i + 1]) = a + size + (P[i].size - size)
    BY <2>2, PartFields
  <2>4. QED
    BY <1>3, <2>2, <2>3, PartFields
<1> HIDE DEF P, Q, n, a
<1>5. ASSUME NEW x \in 0..(TotalSize - 1)
      PROVE  CellMap(Q)[x] = IF x \in a..(a + size - 1) THEN j ELSE CellMap(P)[x]
  <2>1. PICK k \in 1..n : In(P, k, x)
    BY <1>1, TileCover DEF n
  <2>2. x \in Int /\ CellMap(P)[x] = P[k].owner
    BY <1>1, <2>1, CellIs DEF n
  <2>3. CASE k = i
    <3>1. a <= x /\ x < End(P[i])
      BY <2>1, <2>3 DEF In, a
    <3>2. CASE x < a + size
      <4>1. In(Q, i, x) /\ i \in 1..Len(Q)
        BY <1>1, <1>2, <1>4, <3>1, <3>2 DEF In
      <4>2. CellMap(Q)[x] = j
        BY <1>1, <1>4, <2>2, <4>1, CellIs
      <4>3. x \in a..(a + size - 1)
        BY <1>3, <2>2, <3>1, <3>2
      <4>4. QED
        BY <4>2, <4>3
    <3>3. CASE ~(x < a + size)
      <4>1. i + 1 \in 1..Len(Q)
        BY <1>1, <1>2
      <4>2. In(Q, i + 1, x)
        BY <1>3, <1>4, <2>2, <3>1, <3>3 DEF In
      <4>3. CellMap(Q)[x] = NoJob
        BY <1>1, <1>4, <2>2, <4>1, <4>2, CellIs
      <4>4. x \notin a..(a + size - 1)
        BY <1>3, <2>2, <3>3
      <4>5. QED
        BY <1>3, <2>2, <2>3, <4>3, <4>4
    <3>4. QED
      BY <3>2, <3>3
  <2>4. CASE k # i
    <3>1. x \notin a..(a + size - 1)
      <4>1. SUFFICES ASSUME x \in a..(a + size - 1) PROVE FALSE
        OBVIOUS
      <4>2. P[i].size > size
        BY DEF P
      <4>3. In(P, i, x)
        BY <1>3, <4>1, <4>2 DEF In, a
      <4>4. QED
        BY <1>1, <2>1, <2>2, <2>4, <4>3, TileUnique DEF n
    <3>2. \E m \in 1..Len(Q) : Q[m] = P[k]
      <4>1. CASE k < i
        <5>1. k \in 1..(n + 1)
          BY <1>1
        <5>2. QED
          BY <1>2, <4>1, <5>1
      <4>2. CASE i < k
        <5>1. ASSUME NEW m, m = k + 1 PROVE m \in 1..(n + 1) /\ Q[m] = P[k]
          <6>1. /\ m \in 1..(n + 1) /\ ~(m < i) /\ m # i /\ m # i + 1 /\ m - 1 = k
            BY <1>1, <4>2, <5>1
          <6>2. Q[m] = P[m - 1]
            BY <1>2, <6>1
          <6>3. QED
            BY <6>1, <6>2
        <5>2. QED
          BY <1>2, <5>1
      <4>3. QED
        BY <1>1, <2>4, <4>1, <4>2
    <3>3. PICK m \in 1..Len(Q) : Q[m] = P[k]
      BY <3>2
    <3>4. In(Q, m, x)
      BY <2>1, <3>3 DEF In
    <3>5. CellMap(Q)[x] = P[k].owner
      BY <1>1, <2>2, <3>3, <3>4, CellIs
    <3>6. QED
      BY <2>2, <3>1, <3>5
  <2>5. QED
    BY <2>3, <2>4
<1>6. CellMap(Q) = [x \in 0..(TotalSize - 1) |-> CellMap(Q)[x]]
  BY DEF CellMap
<1>7. CellMap(Q) = Given(P, a, size, j)
  BY <1>5, <1>6 DEF Given
<1>8. QED
  BY <1>7 DEF P, Q, a

\* A list whose partitions lie where they lay shows the map that their new
\* owners give.
LEMMA SameBlocks ==
    ASSUME TileInv, TileInv', Count' = Count,
           \A k \in 1..Count : /\ partitions'[k].start = partitions[k].start
                               /\ End(partitions'[k]) = End(partitions[k]),
           NEW k \in 1..Count, NEW x \in 0..(TotalSize - 1), In(partitions, k, x)
    PROVE  /\ CellMap(partitions)[x] = partitions[k].owner
           /\ CellMap(partitions')[x] = partitions'[k].owner
<1>1. /\ Tiles(partitions) /\ k \in 1..Len(partitions) /\ x \in Int
      /\ Tiles(partitions') /\ k \in 1..Len(partitions')
  BY TilesOf, TilesOfNext
<1>2. In(partitions', k, x)
  BY DEF In
<1>3. QED
  BY <1>1, <1>2, CellIs

\* A partition taken whole is the job's.
LEMMA WholeMap ==
    ASSUME TileInv, TileInv', NEW j \in Jobs, NEW size \in Nat \ {0}, NEW i \in 1..Count,
           partitions[i].size = size, Split(i, j, size)
    PROVE  CellMap(partitions') = Given(partitions, partitions[i].start, size, j)
<1>1. TypeOK /\ partitions[i].size = size /\ Split(i, j, size)
  BY DEF TileInv, PartitionsTile
<1>2. /\ partitions' \in Seq(Partition) /\ Count' = Count
      /\ \A k \in 1..Count :
            partitions'[k] = IF k = i THEN Taken(partitions[i], j, size) ELSE partitions[k]
  BY <1>1, WholeFacts
<1>3. /\ Tiles(partitions) /\ Len(partitions) = Count /\ Count \in Nat
  BY TilesOf
<1>4. /\ partitions[i].start \in Nat
      /\ End(partitions[i]) = partitions[i].start + size
  BY <1>1, <1>3, TileFields
<1>5. /\ partitions'[i].owner = j /\ partitions'[i].start = partitions[i].start
      /\ End(partitions'[i]) = End(partitions[i])
  <2>1. partitions'[i] = Taken(partitions[i], j, size)
    BY <1>2
  <2>2. QED
    BY <1>4, <2>1, PartFields
<1>6. \A k \in 1..Count : k # i => partitions'[k] = partitions[k]
  BY <1>2
<1>7. \A k \in 1..Count : /\ partitions'[k].start = partitions[k].start
                          /\ End(partitions'[k]) = End(partitions[k])
  BY <1>5, <1>6
<1>8. ASSUME NEW x \in 0..(TotalSize - 1)
      PROVE  CellMap(partitions')[x] =
                 IF x \in partitions[i].start..(partitions[i].start + size - 1) THEN j
                 ELSE CellMap(partitions)[x]
  <2>1. PICK k \in 1..Count : In(partitions, k, x)
    BY <1>3, TileCover
  <2>2. /\ CellMap(partitions)[x] = partitions[k].owner
        /\ CellMap(partitions')[x] = partitions'[k].owner
    BY <1>2, <1>7, <2>1, SameBlocks
  <2>3. CASE k = i
    <3>1. x \in partitions[i].start..(partitions[i].start + size - 1)
      BY <1>4, <2>1, <2>3 DEF In
    <3>2. QED
      BY <1>5, <2>2, <2>3, <3>1
  <2>4. CASE k # i
    <3>1. x \notin partitions[i].start..(partitions[i].start + size - 1)
      <4>1. SUFFICES ASSUME x \in partitions[i].start..(partitions[i].start + size - 1)
                     PROVE  FALSE
        OBVIOUS
      <4>2. In(partitions, i, x)
        BY <1>4, <4>1 DEF In
      <4>3. QED
        BY <1>3, <2>1, <2>4, <4>2, TileUnique
    <3>2. QED
      BY <1>6, <2>2, <2>4, <3>1
  <2>5. QED
    BY <2>3, <2>4
<1>9. CellMap(partitions') = [x \in 0..(TotalSize - 1) |-> CellMap(partitions')[x]]
  BY DEF CellMap
<1>10. QED
  BY <1>8, <1>9 DEF Given

\* reclaim frees every unit of the job, and no other.
LEMMA ReclaimMap ==
    ASSUME TileInv, TileInv', NEW j \in Jobs, Reclaim(j)
    PROVE  CellMap(partitions') = [x \in 0..(TotalSize - 1) |->
               IF CellMap(partitions)[x] = j THEN NoJob ELSE CellMap(partitions)[x]]
<1> DEFINE freed(p) == [start |-> p.start, size |-> p.size, free |-> TRUE, owner |-> NoJob]
           new(k) == IF OwnedBy(partitions[k], j) THEN freed(partitions[k]) ELSE partitions[k]
<1>1. TypeOK /\ PartitionsTile /\ Count \in Nat
  BY DEF TileInv, PartitionsTile, TypeOK, Count
<1>2. ASSUME NEW k \in 1..Count
      PROVE  [partitions[k] EXCEPT !.free = TRUE, !.owner = NoJob] = freed(partitions[k])
  <2>1. partitions[k] \in Partition
    BY <1>1 DEF TypeOK, Count
  <2>2. QED
    BY <2>1, Give
<1>3. partitions' = [k \in 1..Count |-> new(k)]
  BY <1>2 DEF Reclaim
<1>4. ASSUME NEW k \in 1..Count
      PROVE  /\ new(k).start = partitions[k].start /\ End(new(k)) = End(partitions[k])
             /\ new(k).owner = IF partitions[k].owner = j THEN NoJob ELSE partitions[k].owner
  <2>1. partitions[k].free <=> partitions[k].owner = NoJob
    BY <1>1 DEF PartitionsTile
  <2>2. OwnedBy(partitions[k], j) <=> partitions[k].owner = j
    BY <2>1, PartitionAssumption DEF OwnedBy
  <2>3. CASE OwnedBy(partitions[k], j)
    BY <2>2, <2>3 DEF End
  <2>4. CASE ~OwnedBy(partitions[k], j)
    BY <2>2, <2>4
  <2>5. QED
    BY <2>3, <2>4
<1> HIDE DEF new
<1>5. Count' = Count
  BY <1>1, <1>3 DEF Count
<1>6. \A k \in 1..Count :
          /\ partitions'[k].start = partitions[k].start
          /\ End(partitions'[k]) = End(partitions[k])
          /\ partitions'[k].owner = IF partitions[k].owner = j THEN NoJob ELSE partitions[k].owner
  BY <1>3, <1>4
<1>7. ASSUME NEW x \in 0..(TotalSize - 1)
      PROVE  CellMap(partitions')[x] =
                 IF CellMap(partitions)[x] = j THEN NoJob ELSE CellMap(partitions)[x]
  <2>1. PICK k \in 1..Count : In(partitions, k, x)
    BY TilesOf, TileCover
  <2>2. /\ CellMap(partitions)[x] = partitions[k].owner
        /\ CellMap(partitions')[x] = partitions'[k].owner
    BY <1>5, <1>6, <2>1, SameBlocks
  <2>3. QED
    BY <1>6, <2>2
<1>8. CellMap(partitions') = [x \in 0..(TotalSize - 1) |-> CellMap(partitions')[x]]
  BY DEF CellMap
<1>9. QED
  BY <1>7, <1>8

\* A merge leaves every unit with its owner.
LEMMA MergeMap ==
    ASSUME TileInv, TileInv', it # 0, it < Count, partitions[it].free, partitions[it + 1].free,
           partitions' = RemoveAt([partitions EXCEPT ![it].size =
                                      @ + partitions[it + 1].size], it + 1)
    PROVE  CellMap(partitions') = CellMap(partitions)
<1> DEFINE P == partitions
           Q == partitions'
           n == Len(P)
           m == [start |-> P[it].start, size |-> P[it].size + P[it + 1].size,
                 free |-> TRUE, owner |-> P[it].owner]
<1>1. Tiles(P) /\ Tiles(Q) /\ n = Count /\ n \in Nat /\ it \in 1..n /\ it + 1 \in 1..n
  <2>1. it \in 0..Count /\ Count \in Nat
    BY DEF TileInv, PartitionsTile, TypeOK, Count
  <2>2. QED
    BY <2>1, TilesOf, TilesOfNext
<1>2. /\ Len(Q) = n - 1
      /\ \A k \in 1..(n - 1) :
            Q[k] = IF k < it THEN P[k] ELSE IF k = it THEN m ELSE P[k + 1]
  <2>1. TypeOK /\ it \in 1..Count
    BY <1>1 DEF TileInv, PartitionsTile
  <2>2. /\ partitions' \in Seq(Partition) /\ Count' = Count - 1
        /\ \A k \in 1..(Count - 1) :
              partitions'[k] =
                  IF k < it THEN partitions[k]
                  ELSE IF k = it
                       THEN [start |-> partitions[it].start,
                             size |-> partitions[it].size + partitions[it + 1].size,
                             free |-> TRUE, owner |-> partitions[it].owner]
                  ELSE partitions[k + 1]
    BY <2>1, MergeFacts
  <2>3. Len(partitions') = Count'
    BY DEF Count
  <2>4. QED
    BY <1>1, <2>2, <2>3
<1>3. /\ P[it].start \in Nat /\ P[it].size \in Nat /\ P[it + 1].start \in Nat
      /\ P[it + 1].size \in Nat /\ End(P[it]) = P[it].start + P[it].size
      /\ End(P[it + 1]) = P[it + 1].start + P[it + 1].size
      /\ P[it + 1].start = End(P[it]) /\ P[it].owner = NoJob /\ P[it + 1].owner = NoJob
  <2>1. /\ P[it].start \in Nat /\ P[it].size \in Nat /\ P[it + 1].start \in Nat
        /\ P[it + 1].size \in Nat /\ End(P[it]) = P[it].start + P[it].size
        /\ End(P[it + 1]) = P[it + 1].start + P[it + 1].size
    BY <1>1, TileFields
  <2>2. P[it].owner = NoJob /\ P[it + 1].owner = NoJob
    BY <1>1 DEF Tiles
  <2>3. P[it + 1].start = End(P[it])
    <3>1. it \in 1..(n - 1)
      BY <1>1
    <3>2. QED
      BY <1>1, <3>1 DEF Tiles
  <2>4. QED
    BY <2>1, <2>2, <2>3
<1>4. m.start = P[it].start /\ End(m) = End(P[it + 1]) /\ m.owner = NoJob
  <2>1. End(m) = P[it].start + (P[it].size + P[it + 1].size)
    BY DEF End
  <2>2. QED
    BY <1>3, <2>1
<1> HIDE DEF P, Q, n, m
<1>5. ASSUME NEW x \in 0..(TotalSize - 1) PROVE CellMap(Q)[x] = CellMap(P)[x]
  <2>1. PICK k \in 1..n : In(P, k, x)
    BY <1>1, TileCover DEF n
  <2>2. x \in Int /\ CellMap(P)[x] = P[k].owner
    BY <1>1, <2>1, CellIs DEF n
  <2>3. CASE k = it \/ k = it + 1
    <3>1. it \in 1..(n - 1) /\ ~(it < it)
      BY <1>1
    <3>2. Q[it] = m /\ it \in 1..Len(Q)
      BY <1>2, <3>1
    <3>3. In(Q, it, x)
      BY <1>3, <1>4, <2>1, <2>2, <2>3, <3>2 DEF In
    <3>4. CellMap(Q)[x] = NoJob
      BY <1>1, <1>4, <2>2, <3>2, <3>3, CellIs
    <3>5. QED
      BY <1>3, <2>2, <2>3, <3>4
  <2>4. CASE k < it \/ k > it + 1
    <3>1. \E l \in 1..Len(Q) : Q[l] = P[k]
      <4>1. CASE k < it
        <5>1. k \in 1..(n - 1)
          BY <1>1, <4>1
        <5>2. QED
          BY <1>2, <4>1, <5>1
      <4>2. CASE k > it + 1
        <5>1. ASSUME NEW l, l = k - 1 PROVE l \in 1..(n - 1) /\ Q[l] = P[k]
          <6>1. l \in 1..(n - 1) /\ ~(l < it) /\ l # it /\ l + 1 = k
            BY <1>1, <4>2, <5>1
          <6>2. Q[l] = P[l + 1]
            BY <1>2, <6>1
          <6>3. QED
            BY <6>1, <6>2
        <5>2. QED
          BY <1>2, <5>1
      <4>3. QED
        BY <2>4, <4>1, <4>2
    <3>2. PICK l \in 1..Len(Q) : Q[l] = P[k]
      BY <3>1
    <3>3. In(Q, l, x)
      BY <2>1, <3>2 DEF In
    <3>4. QED
      BY <1>1, <2>2, <3>2, <3>3, CellIs
  <2>5. QED
    BY <1>1, <2>3, <2>4
<1>6. /\ CellMap(Q) = [x \in 0..(TotalSize - 1) |-> CellMap(Q)[x]]
      /\ CellMap(P) = [x \in 0..(TotalSize - 1) |-> CellMap(P)[x]]
  BY DEF CellMap
<1>7. QED
  BY <1>5, <1>6 DEF P, Q

-----------------------------------------------------------------------------
(* What the searches find, said of the memory map.                         *)

\* Between two calls the list is merged.
LEMMA MergedNow == TileInv /\ it = 0 => Merged(partitions)
BY DEF TileInv, Coalesced, Merged, Count

\* A free run of the requested size shows that some partition fits.
LEMMA RunFits ==
    ASSUME TileInv, it = 0, NEW size \in Nat \ {0}, NEW a \in Int, FreeIn(partitions, a, size)
    PROVE  \E k \in 1..Count : /\ Fits(k, size) /\ partitions[k].start <= a
                               /\ a + size <= End(partitions[k])
<1>1. Tiles(partitions) /\ Merged(partitions) /\ Len(partitions) = Count
  BY TilesOf, MergedNow
<1>2. PICK k \in 1..Count : /\ partitions[k].free /\ partitions[k].start <= a
                            /\ a + size <= End(partitions[k])
  BY <1>1, RunBlock
<1>3. /\ partitions[k].start \in Nat /\ partitions[k].size \in Nat
      /\ End(partitions[k]) = partitions[k].start + partitions[k].size
  BY <1>1, TileFields
<1>4. partitions[k].size >= size
  BY <1>2, <1>3
<1>5. QED
  BY <1>2, <1>4 DEF Fits

\* The first partition that fits starts at the lowest free run.
LEMMA FirstFitMap ==
    ASSUME TileInv, it = 0, NEW size \in Nat \ {0}, NEW i \in 1..Count, FirstFit(i, size)
    PROVE  /\ FreeIn(partitions, partitions[i].start, size)
           /\ \A x \in 0..(TotalSize - 1) :
                 x < partitions[i].start => ~FreeIn(partitions, x, size)
<1>1. Tiles(partitions) /\ Len(partitions) = Count /\ Count \in Nat
  BY TilesOf
<1>2. /\ partitions[i].start \in Nat /\ partitions[i].size \in Nat
      /\ End(partitions[i]) = partitions[i].start + partitions[i].size
  BY <1>1, TileFields
<1>3. partitions[i].free /\ partitions[i].size >= size
  BY DEF FirstFit, Fits
<1>4. FreeIn(partitions, partitions[i].start, size)
  BY <1>1, <1>2, <1>3, BlockRun
<1>5. ASSUME NEW x \in 0..(TotalSize - 1), x < partitions[i].start, FreeIn(partitions, x, size)
      PROVE  FALSE
  <2>1. PICK k \in 1..Count : Fits(k, size) /\ partitions[k].start <= x
    BY <1>5, RunFits
  <2>2. ~(k < i)
    BY <2>1 DEF FirstFit
  <2>3. k # i
    BY <1>2, <1>5, <2>1
  <2>4. i < k
    BY <1>1, <2>2, <2>3
  <2>5. End(partitions[i]) <= partitions[k].start
    BY <1>1, <2>4, TileOrder
  <2>6. partitions[k].start \in Nat
    BY <1>1, TileFields
  <2>7. QED
    BY <1>2, <1>5, <2>1, <2>5, <2>6
<1>6. QED
  BY <1>4, <1>5

\* The best partition is a smallest hole, the lowest of those.
LEMMA BestFitMap ==
    ASSUME TileInv, it = 0, NEW size \in Nat \ {0}, NEW i \in 1..Count, BestFit(i, size)
    PROVE  \E n \in size..TotalSize :
              /\ HoleIn(partitions, partitions[i].start, n)
              /\ \A x \in 0..(TotalSize - 1), m \in size..TotalSize :
                    HoleIn(partitions, x, m) =>
                        n < m \/ (n = m /\ partitions[i].start <= x)
<1>1. /\ Tiles(partitions) /\ Merged(partitions) /\ Len(partitions) = Count
      /\ Count \in Nat
  BY TilesOf, MergedNow
<1>2. /\ partitions[i].start \in Nat /\ partitions[i].size \in Nat
      /\ End(partitions[i]) = partitions[i].start + partitions[i].size
      /\ partitions[i].start < End(partitions[i])
  BY <1>1, TileFields
<1>3. /\ partitions[i].free /\ partitions[i].size >= size
      /\ partitions[i].size < TotalSize + 1
  BY DEF BestFit, Fits
<1>4. partitions[i].size \in size..TotalSize
  BY <1>2, <1>3, PartitionAssumption
<1>5. HoleIn(partitions, partitions[i].start, partitions[i].size)
  BY <1>1, <1>3, BlockHole
<1>6. ASSUME NEW x \in 0..(TotalSize - 1), NEW m \in size..TotalSize, HoleIn(partitions, x, m)
      PROVE  \/ partitions[i].size < m
             \/ partitions[i].size = m /\ partitions[i].start <= x
  <2>1. x \in Int /\ m \in Nat \ {0} /\ m >= size
    BY PartitionAssumption
  <2>2. PICK k \in 1..Count : /\ partitions[k].free
                              /\ x = partitions[k].start /\ m = partitions[k].size
    BY <1>1, <1>6, <2>1, HoleBlock
  <2>3. Fits(k, size)
    BY <2>1, <2>2 DEF Fits
  <2>4. \/ partitions[i].size < m
        \/ partitions[i].size = m /\ i <= k
    BY <2>2, <2>3 DEF BestFit
  <2>5. ASSUME i <= k PROVE partitions[i].start <= x
    <3>1. CASE i = k
      BY <1>2, <2>2, <3>1
    <3>2. CASE i < k
      <4>1. End(partitions[i]) <= partitions[k].start
        BY <1>1, <3>2, TileOrder
      <4>2. QED
        BY <1>2, <2>1, <2>2, <4>1
    <3>3. QED
      BY <1>1, <2>5, <3>1, <3>2
  <2>6. QED
    BY <2>4, <2>5
<1>7. QED
  BY <1>4, <1>5, <1>6

\* A search that finds nothing leaves no free run unused: among the partitions
\* that fit there is a first one and a best one.
LEMMA FailMap ==
    ASSUME TileInv, it = 0, NEW size \in Nat \ {0}, \A i \in 1..Count : ~Target(i, size),
           NEW a \in 0..(TotalSize - 1), FreeIn(partitions, a, size)
    PROVE  FALSE
<1>1. Tiles(partitions) /\ Len(partitions) = Count /\ Count \in Nat
  BY TilesOf
<1>2. PICK f \in 1..Count : Fits(f, size)
  BY RunFits
<1> DEFINE F == {k \in Nat : k \in 1..Count /\ Fits(k, size)}
           B == {z \in Nat : \E k \in F : z = partitions[k].size}
<1>3. PICK k1 \in F : \A y \in F : k1 <= y
  <2>1. F \subseteq Nat /\ f \in F
    BY <1>2
  <2> HIDE DEF F
  <2>2. QED
    BY <2>1, LeastNat
<1>4. FirstFit(k1, size)
  <2>1. ASSUME NEW k \in 1..Count, k < k1, Fits(k, size) PROVE FALSE
    <3>1. k \in F
      BY <1>1, <2>1
    <3>2. k1 \in Nat /\ k \in Nat /\ k1 <= k
      BY <1>3, <3>1
    <3>3. QED
      BY <2>1, <3>2
  <2>2. QED
    BY <2>1 DEF FirstFit
<1>5. \A k \in F : partitions[k].size \in Nat
  BY <1>1, TileFields
<1>6. PICK z \in B : \A y \in B : z <= y
  <2>1. B \subseteq Nat
    OBVIOUS
  <2>2. partitions[k1].size \in B
    BY <1>5
  <2> HIDE DEF B
  <2>3. QED
    BY <2>1, <2>2, LeastNat
<1> DEFINE G == {k \in Nat : k \in F /\ partitions[k].size = z}
<1>7. PICK k2 \in G : \A y \in G : k2 <= y
  <2>1. G \subseteq Nat /\ G # {}
    BY <1>6
  <2> HIDE DEF G
  <2>2. QED
    BY <2>1, LeastNat
<1>8. BestFit(k2, size)
  <2>1. /\ k2 \in 1..Count /\ Fits(k2, size) /\ partitions[k2].size = z
        /\ k2 \in Nat /\ z \in Nat
    OBVIOUS
  <2>2. partitions[k2].size < TotalSize + 1
    <3>1. /\ partitions[k2].start \in Nat /\ End(partitions[k2]) \in Nat
          /\ End(partitions[k2]) = partitions[k2].start + partitions[k2].size
          /\ End(partitions[k2]) <= TotalSize
      BY <1>1, <2>1, TileFields, TileInside
    <3>2. QED
      BY <2>1, <3>1, PartitionAssumption
  <2>3. ASSUME NEW k \in 1..Count, Fits(k, size)
        PROVE  \/ partitions[k2].size < partitions[k].size
               \/ partitions[k2].size = partitions[k].size /\ k2 <= k
    <3>1. k \in F
      BY <1>1, <2>3
    <3>2. partitions[k].size \in Nat /\ partitions[k].size \in B
      BY <1>5, <3>1
    <3>3. z <= partitions[k].size
      BY <1>6, <3>2
    <3>4. partitions[k].size = z => k2 <= k
      <4>1. partitions[k].size = z => k \in G
        BY <3>1
      <4>2. QED
        BY <1>7, <4>1
    <3>5. QED
      BY <2>1, <3>2, <3>3, <3>4
  <2>4. QED
    BY <2>1, <2>2, <2>3 DEF BestFit
<1>9. k1 \in 1..Count /\ k2 \in 1..Count
  OBVIOUS
<1>10. QED
  BY <1>4, <1>8, <1>9 DEF Target

-----------------------------------------------------------------------------
(* The allocator implements MemoryMap.                                     *)

\* The cells of the refinement mapping.
Cells == [a \in 0..(TotalSize - 1) |-> OwnerAt(a)]

LEMMA CellsNow == Cells = CellMap(partitions)
BY DEF Cells, OwnerAt, CellMap, OwnerIn, In, Count

LEMMA CellsNext == Cells' = CellMap(partitions')
BY DEF Cells, OwnerAt, CellMap, OwnerIn, In, Count

\* The allocator starts with a map of free units.
LEMMA MapStart == Init => MM!MapInit
<1> SUFFICES ASSUME Init PROVE MM!MapInit
  OBVIOUS
<1>1. Tiles(partitions) /\ Len(partitions) = 1 /\ partitions[1].owner = NoJob
  <2>1. partitions[1].owner = NoJob /\ Len(partitions) = 1
    BY DEF Init
  <2>2. QED
    BY <2>1, TileInit, TilesOf
<1>2. ASSUME NEW a \in 0..(TotalSize - 1) PROVE CellMap(partitions)[a] = NoJob
  <2>1. PICK k \in 1..Len(partitions) : In(partitions, k, a)
    BY <1>1, TileCover
  <2>2. k = 1 /\ a \in Int
    BY <1>1
  <2>3. QED
    BY <1>1, <2>1, <2>2, CellIs
<1>3. Cells = [a \in 0..(TotalSize - 1) |-> CellMap(partitions)[a]]
  BY CellsNow DEF CellMap
<1>4. Cells = [a \in 0..(TotalSize - 1) |-> NoJob]
  BY <1>2, <1>3
<1>5. QED
  BY <1>4 DEF Init, MM!MapInit, MM!Addresses, Cells

\* A successful allocation is one of MemoryMap.
LEMMA AllocateMaps ==
    ASSUME TileInv, TileInv', NEW j \in Jobs, NEW size \in Sizes, Allocate(j, size)
    PROVE  MM!Allocate(j, size)
<1>1. PICK i \in 1..Count : /\ Target(i, size) /\ Split(i, j, size)
                            /\ result' = partitions[i].start
  BY DEF Allocate
<1> DEFINE a == partitions[i].start
<1>2. it = 0 /\ algo' = algo /\ size \in Nat \ {0} /\ size > 0
  BY PartitionAssumption DEF Allocate, Idle
<1>3. Tiles(partitions) /\ Len(partitions) = Count
  BY TilesOf
<1>4. partitions[i].free /\ partitions[i].size >= size
  BY <1>1 DEF Target, FirstFit, BestFit, Fits
<1>5. a \in 0..(TotalSize - 1)
  <2>1. /\ a \in Nat /\ End(partitions[i]) \in Nat /\ a < End(partitions[i])
        /\ End(partitions[i]) <= TotalSize
    BY <1>3, TileFields, TileInside
  <2>2. QED
    BY <2>1, PartitionAssumption
<1>6. Cells' = Given(partitions, a, size, j)
  <2>1. partitions[i].size > size \/ partitions[i].size = size
    BY <1>2, <1>3, <1>4, TileFields
  <2>2. CellMap(partitions') = Given(partitions, a, size, j)
    BY <1>1, <1>2, <1>4, <2>1, CutMap, WholeMap
  <2>3. QED
    BY <2>2, CellsNext
<1>7. CASE algo = "FIRST_FIT"
  <2>1. FirstFit(i, size)
    BY <1>1, <1>7 DEF Target
  <2>2. /\ FreeIn(partitions, a, size)
        /\ \A x \in 0..(TotalSize - 1) : x < a => ~FreeIn(partitions, x, size)
    BY <1>2, <2>1, FirstFitMap
  <2> HIDE DEF a
  <2>3. MM!FirstFitAt(a, size)
    BY <2>2, CellsNow DEF MM!FirstFitAt, MM!FreeRun, MM!Addresses, FreeIn, Cells
  <2>4. QED
    BY <1>1, <1>2, <1>5, <1>6, <1>7, <2>3, CellsNow
       DEF MM!Allocate, MM!Addresses, Given, Cells, a
<1>8. CASE algo # "FIRST_FIT"
  <2>1. BestFit(i, size) /\ algo = "BEST_FIT"
    BY <1>1, <1>8 DEF Target, TileInv, PartitionsTile, TypeOK, PartitionAlgo
  <2>2. \E n \in size..TotalSize :
            /\ HoleIn(partitions, a, n)
            /\ \A x \in 0..(TotalSize - 1), m \in size..TotalSize :
                  HoleIn(partitions, x, m) => n < m \/ (n = m /\ a <= x)
    BY <1>2, <2>1, BestFitMap
  <2> HIDE DEF a
  <2>3. MM!BestFitAt(a, size)
    <3>1. \A x, m : MM!Hole(x, m) <=> HoleIn(partitions, x, m)
      <4>1. \A x, m : MM!FreeRun(x, m) <=> FreeIn(partitions, x, m)
        BY CellsNow DEF MM!FreeRun, MM!Addresses, FreeIn, Cells
      <4>2. QED
        BY <4>1, Zenon DEF MM!Hole, HoleIn
    <3>2. QED
      BY <2>2, <3>1 DEF MM!BestFitAt, MM!Addresses
  <2>4. QED
    BY <1>1, <1>2, <1>5, <1>6, <2>1, <2>3, CellsNow
       DEF MM!Allocate, MM!Addresses, Given, Cells, a
<1>9. QED
  BY <1>7, <1>8

\* When nothing is found, no run of free units is long enough.
LEMMA FailureMaps ==
    ASSUME TileInv, NEW j \in Jobs, NEW size \in Sizes, AllocateFails(size)
    PROVE  MM!Allocate(j, size)
<1>1. /\ it = 0 /\ algo' = algo /\ partitions' = partitions /\ result' = -1
      /\ size <= 0 \/ \A i \in 1..Count : ~Target(i, size)
  BY DEF AllocateFails, Idle
<1>2. size <= 0 \/ ~\E a \in 0..(TotalSize - 1) : FreeIn(partitions, a, size)
  <2>1. SUFFICES ASSUME ~(size <= 0)
                 PROVE  ~\E a \in 0..(TotalSize - 1) : FreeIn(partitions, a, size)
    OBVIOUS
  <2>2. size \in Nat \ {0}
    BY <2>1, PartitionAssumption
  <2>3. \A i \in 1..Count : ~Target(i, size)
    BY <1>1, <2>1
  <2>4. QED
    BY <1>1, <2>2, <2>3, FailMap
<1>3. size <= 0 \/ ~\E a \in MM!Addresses : MM!FreeRun(a, size)
  BY <1>2, CellsNow DEF MM!Addresses, MM!FreeRun, FreeIn, Cells
<1>4. Cells' = Cells
  BY <1>1, CellsNow, CellsNext
<1>5. QED
  BY <1>1, <1>3, <1>4 DEF MM!Allocate, Cells

\* reclaim is MemoryMap's, found or not.
LEMMA ReclaimMaps ==
    ASSUME TileInv, TileInv', NEW j \in Jobs, Reclaim(j) \/ ReclaimFails(j)
    PROVE  MM!Reclaim(j)
<1>1. /\ Tiles(partitions) /\ Len(partitions) = Count
      /\ \A k \in 1..Count : (partitions[k].free <=> partitions[k].owner = NoJob)
  BY TilesOf DEF Tiles
<1>2. ASSUME NEW k \in 1..Count PROVE OwnedBy(partitions[k], j) <=> partitions[k].owner = j
  BY <1>1, PartitionAssumption DEF OwnedBy
<1>3. (\E x \in 0..(TotalSize - 1) : CellMap(partitions)[x] = j) <=>
          \E k \in 1..Count : OwnedBy(partitions[k], j)
  <2>1. ASSUME NEW x \in 0..(TotalSize - 1), CellMap(partitions)[x] = j
        PROVE  \E k \in 1..Count : OwnedBy(partitions[k], j)
    <3>1. PICK k \in 1..Count : In(partitions, k, x)
      BY <1>1, TileCover
    <3>2. CellMap(partitions)[x] = partitions[k].owner
      BY <1>1, <3>1, CellIs
    <3>3. QED
      BY <1>2, <2>1, <3>2
  <2>2. ASSUME NEW k \in 1..Count, OwnedBy(partitions[k], j)
        PROVE  \E x \in 0..(TotalSize - 1) : CellMap(partitions)[x] = j
    <3>1. In(partitions, k, partitions[k].start) /\ partitions[k].start \in Int
      BY <1>1, TileFields DEF In
    <3>2. /\ partitions[k].start \in 0..(TotalSize - 1)
          /\ CellMap(partitions)[partitions[k].start] = j
      BY <1>1, <1>2, <2>2, <3>1, CellIs
    <3>3. QED
      BY <3>2
  <2>3. QED
    BY <2>1, <2>2
<1>4. algo' = algo
  BY DEF Reclaim, ReclaimFails
<1>5. Cells' = [x \in 0..(TotalSize - 1) |-> IF Cells[x] = j THEN NoJob ELSE Cells[x]]
  <2>1. CASE Reclaim(j)
    BY <2>1, ReclaimMap, CellsNow, CellsNext
  <2>2. CASE ReclaimFails(j)
    <3>1. \A x \in 0..(TotalSize - 1) : Cells[x] # j
      BY <1>3, <2>2, CellsNow DEF ReclaimFails
    <3>2. Cells' = Cells
      BY <2>2, CellsNow, CellsNext DEF ReclaimFails
    <3>3. Cells = [x \in 0..(TotalSize - 1) |-> Cells[x]]
      BY DEF Cells
    <3>4. QED
      BY <3>1, <3>2, <3>3
  <2>3. QED
    BY <2>1, <2>2
<1>6. result' = IF \E x \in 0..(TotalSize - 1) : Cells[x] = j THEN 1 ELSE 0
  BY <1>3, CellsNow DEF Reclaim, ReclaimFails
<1>7. QED
  BY <1>4, <1>5, <1>6 DEF MM!Reclaim, MM!Addresses, Cells

\* Every step of the allocator is a step of MemoryMap, or leaves its state alone.
LEMMA MapStep == TileInv /\ TileInv' /\ [Next]_vars => [MM!MapNext]_(MM!map_vars)
<1> SUFFICES ASSUME TileInv, TileInv', [Next]_vars PROVE [MM!MapNext]_(MM!map_vars)
  OBVIOUS
<1>1. ASSUME partitions' = partitions PROVE Cells' = Cells
  BY <1>1, CellsNow, CellsNext
<1>2. ASSUME NEW j \in Jobs, NEW size \in Sizes, Allocate(j, size) PROVE MM!MapNext
  BY <1>2, AllocateMaps DEF MM!MapNext
<1>3. ASSUME NEW j \in Jobs, NEW size \in Sizes, AllocateFails(size) PROVE MM!MapNext
  BY <1>3, FailureMaps DEF MM!MapNext
<1>4. ASSUME NEW j \in Jobs, Reclaim(j) \/ ReclaimFails(j) PROVE MM!MapNext
  BY <1>4, ReclaimMaps DEF MM!MapNext
<1>5. ASSUME NEW b \in PartitionAlgo, SetAlgorithm(b) PROVE MM!MapNext
  <2>1. Cells' = Cells
    BY <1>1, <1>5 DEF SetAlgorithm
  <2>2. QED
    BY <1>5, <2>1 DEF SetAlgorithm, MM!MapNext, MM!SetAlgorithm, Cells
<1>6. CASE MergeTurn
  <2>1. Cells' = Cells
    <3>1. CASE it < Count /\ partitions[it].free /\ partitions[it + 1].free
      <4>1. /\ it # 0
            /\ partitions' = RemoveAt([partitions EXCEPT ![it].size =
                                          @ + partitions[it + 1].size], it + 1)
        BY <1>6, <3>1 DEF MergeTurn
      <4>2. QED
        BY <3>1, <4>1, MergeMap, CellsNow, CellsNext
    <3>2. CASE ~(it < Count /\ partitions[it].free /\ partitions[it + 1].free)
      BY <1>1, <1>6, <3>2 DEF MergeTurn
    <3>3. QED
      BY <3>1, <3>2
  <2>2. QED
    BY <1>6, <2>1 DEF MergeTurn, MM!map_vars, Cells
<1>7. CASE UNCHANGED vars
  BY <1>1, <1>7 DEF vars, MM!map_vars, Cells
<1>8. QED
  BY <1>2, <1>3, <1>4, <1>5, <1>6, <1>7 DEF Next

\* PartitionAllocator implements first fit and best fit on the memory itself:
\* it gives each unit to one job at most, fails only when no run of free units
\* is long enough, and gives back all a job has.
THEOREM AllocatorImplementsMap == Spec => ImplementsMemoryMap
<1>1. Spec => MM!MapInit /\ [][MM!MapNext]_(MM!map_vars)
  BY MapStart, MapStep, TileInvariant, PTL DEF Spec
<1>2. QED
  BY <1>1 DEF ImplementsMemoryMap, MM!MapSpec
=============================================================================
