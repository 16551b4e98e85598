----------------------------- MODULE VirtualFS -----------------------------
(***************************************************************************)
(* VirtualFS (src/virtual_fs.cpp): an inode table, a bitmap of blocks and  *)
(* the blocks themselves, with one action per call.  A name stands for a   *)
(* string; those that my_create refuses (empty, or VFS_MAX_NAME bytes and  *)
(* more) are the ones outside LegalNames.                                  *)
(*                                                                         *)
(*   inodes        inodes_; blocks is the part of the array that           *)
(*                 block_count covers, so block_count is its length        *)
(*   bitmap        bitmap_, TRUE for a block in use                        *)
(*   data_blocks   data_blocks_, byte by byte; Zero is the byte 0          *)
(*   ok, content   the last call did not return -1; the string that        *)
(*                 my_read returned, if it was the last call               *)
(***************************************************************************)
EXTENDS Naturals, Sequences, FiniteSets

CONSTANTS Names,             \* the names that calls are given
          LegalNames,        \* those that my_create accepts
          NoName,            \* the cleared name of an unused inode; no string
          Bytes, Zero,
          Data,              \* the strings given to my_write
          MaxFiles,          \* VFS_MAX_FILES
          MaxBlocks,         \* VFS_MAX_BLOCKS
          BlockSize,         \* VFS_BLOCK_SIZE
          BlocksPerFile      \* VFS_BLOCKS_PER_FILE

ASSUME VirtualFSAssumption ==
    /\ LegalNames \subseteq Names
    /\ NoName \notin Names \union Seq(Bytes)
    /\ Zero \in Bytes
    /\ Data \subseteq Seq(Bytes)
    /\ MaxFiles \in Nat /\ MaxBlocks \in Nat /\ BlocksPerFile \in Nat
    /\ BlockSize \in Nat \ {0}

VARIABLES inodes, bitmap, data_blocks, ok, content

vars == <<inodes, bitmap, data_blocks, ok, content>>

InodeIds == 0..(MaxFiles - 1)
Blocks == 0..(MaxBlocks - 1)
Offsets == 0..(BlockSize - 1)

UnusedInode == [used |-> FALSE, name |-> NoName, size |-> 0, blocks |-> << >>]
ZeroBlock == [x \in Offsets |-> Zero]

Init ==
    /\ inodes = [i \in InodeIds |-> UnusedInode]
    /\ bitmap = [b \in Blocks |-> FALSE]
    /\ data_blocks = [b \in Blocks |-> ZeroBlock]
    /\ ok = TRUE
    /\ content = << >>

-----------------------------------------------------------------------------
\* findFile returns i.
FindFile(n, i) == inodes[i].used /\ inodes[i].name = n

Missing(n) == \A i \in InodeIds : ~FindFile(n, i)

\* The blocks of inode i.
BlocksOf(i) == {inodes[i].blocks[k] : k \in 1..Len(inodes[i].blocks)}

\* A call that returns -1 (or "", for my_read) and changes nothing.
Refuse == ok' = FALSE /\ content' = << >> /\ UNCHANGED <<inodes, bitmap, data_blocks>>

Succeed == ok' = TRUE /\ content' = << >>

\* Mutant: freeBlock leaves the bytes in the block.
MutantErased(freed) == data_blocks

\* The blocks once freeBlock has erased those in the set freed.
Erased(freed) == [b \in Blocks |-> IF b \in freed THEN ZeroBlock ELSE data_blocks[b]]

\* The bitmap once freeBlock has cleared the bits in the set freed.
Cleared(freed) == [b \in Blocks |-> bitmap[b] /\ b \notin freed]

\* What successive calls of allocBlock return: the lowest blocks that are not
\* in use in the given bitmap, in ascending order.
AllocBlocks(bm, seq) ==
    /\ \A k \in 1..Len(seq) : ~bm[seq[k]]
    /\ \A k, l \in 1..Len(seq) : k < l => seq[k] < seq[l]
    /\ \A k \in 1..Len(seq) : \A b \in Blocks :
          ~bm[b] /\ b < seq[k] => \E l \in 1..Len(seq) : seq[l] = b

\* allocBlock has no block left once it has returned those of seq.
DiskFull(bm, seq) == \A b \in Blocks : bm[b] \/ \E k \in 1..Len(seq) : seq[k] = b

\* The number of blocks that a string needs.
NeededBlocks(d) == (Len(d) + BlockSize - 1) \div BlockSize

\* Mutant: every part is copied from the beginning of the string.
MutantChunk(d, k, old) ==
    [x \in Offsets |-> IF x + 1 <= Len(d) THEN d[x + 1] ELSE old[x]]

\* The block that holds the k-th part of d: memcpy leaves the bytes after a
\* short last part as they are in old.
Chunk(d, k, old) ==
    [x \in Offsets |-> LET at == (k - 1) * BlockSize + x + 1
                       IN  IF at <= Len(d) THEN d[at] ELSE old[x]]

-----------------------------------------------------------------------------
\* my_create: the first unused inode is taken.
Create(n) ==
    \/ /\ n \in LegalNames /\ Missing(n)
       /\ \E i \in InodeIds :
             /\ ~inodes[i].used
             /\ \A j \in InodeIds : j < i => inodes[j].used
             /\ inodes' = [inodes EXCEPT ![i] =
                    [used |-> TRUE, name |-> n, size |-> 0, blocks |-> << >>]]
       /\ Succeed
       /\ UNCHANGED <<bitmap, data_blocks>>
    \/ /\ n \notin LegalNames \/ ~Missing(n) \/ \A i \in InodeIds : inodes[i].used
       /\ Refuse

\* Mutant: the inode gets its blocks only when the write is complete.
MutantStore(i, d, seq) ==
    LET bm == Cleared(BlocksOf(i))
        erased == Erased(BlocksOf(i))
        done == Len(seq) = NeededBlocks(d)
    IN  /\ inodes' = [inodes EXCEPT ![i].blocks = IF done THEN seq ELSE << >>,
                                    ![i].size = IF done THEN Len(d) ELSE 0]
        /\ bitmap' = [b \in Blocks |-> bm[b] \/ \E k \in 1..Len(seq) : seq[k] = b]
        /\ data_blocks' = [b \in Blocks |->
               IF \E k \in 1..Len(seq) : seq[k] = b
               THEN Chunk(d, CHOOSE k \in 1..Len(seq) : seq[k] = b, erased[b])
               ELSE erased[b]]
        /\ ok' = done
        /\ content' = << >>

\* The loop of my_write with the blocks of seq; when allocBlock fails half way
\* the inode keeps the blocks it has got, and size stays 0.
Store(i, d, seq) ==
    LET bm == Cleared(BlocksOf(i))
        erased == Erased(BlocksOf(i))
        done == Len(seq) = NeededBlocks(d)
    IN  /\ inodes' = [inodes EXCEPT ![i].blocks = seq,
                                    ![i].size = IF done THEN Len(d) ELSE 0]
        /\ bitmap' = [b \in Blocks |-> bm[b] \/ \E k \in 1..Len(seq) : seq[k] = b]
        /\ data_blocks' = [b \in Blocks |->
               IF \E k \in 1..Len(seq) : seq[k] = b
               THEN Chunk(d, CHOOSE k \in 1..Len(seq) : seq[k] = b, erased[b])
               ELSE erased[b]]
        /\ ok' = done
        /\ content' = << >>

\* my_write of a string that fits into one file: the old blocks are freed,
\* then the new ones are taken one by one.
WriteBlocks(i, d) ==
    \E len \in 0..BlocksPerFile : \E seq \in [1..len -> Blocks] :
        /\ len <= NeededBlocks(d)
        /\ AllocBlocks(Cleared(BlocksOf(i)), seq)
        /\ len = NeededBlocks(d) \/ DiskFull(Cleared(BlocksOf(i)), seq)
        /\ Store(i, d, seq)

\* my_write of a string that does not: the old content is gone all the same.
WriteTooLarge(i) ==
    /\ inodes' = [inodes EXCEPT ![i].blocks = << >>, ![i].size = 0]
    /\ bitmap' = Cleared(BlocksOf(i))
    /\ data_blocks' = Erased(BlocksOf(i))
    /\ ok' = FALSE
    /\ content' = << >>

\* my_write.
Write(n, d) ==
    \/ Missing(n) /\ Refuse
    \/ \E i \in InodeIds :
          /\ FindFile(n, i)
          /\ IF NeededBlocks(d) > BlocksPerFile THEN WriteTooLarge(i)
                                                ELSE WriteBlocks(i, d)

\* The bytes that my_read of inode i collects: size of them, or as many as
\* the blocks hold.
BytesOf(i) ==
    LET size == inodes[i].size
        room == BlockSize * Len(inodes[i].blocks)
    IN  [x \in 1..(IF size <= room THEN size ELSE room) |->
            data_blocks[inodes[i].blocks[(x - 1) \div BlockSize + 1]]
                       [(x - 1) % BlockSize]]

\* my_read.
Read(n) ==
    \/ Missing(n) /\ Refuse
    \/ \E i \in InodeIds :
          /\ FindFile(n, i)
          /\ content' = BytesOf(i)
          /\ ok' = TRUE
          /\ UNCHANGED <<inodes, bitmap, data_blocks>>

\* my_delete.
Delete(n) ==
    \/ Missing(n) /\ Refuse
    \/ \E i \in InodeIds :
          /\ FindFile(n, i)
          /\ bitmap' = Cleared(BlocksOf(i))
          /\ data_blocks' = Erased(BlocksOf(i))
          /\ inodes' = [inodes EXCEPT ![i] = UnusedInode]
          /\ Succeed

Next ==
    \E n \in Names : Create(n) \/ Read(n) \/ Delete(n) \/ \E d \in Data : Write(n, d)

Spec == Init /\ [][Next]_vars

-----------------------------------------------------------------------------
(* Correctness.                                                            *)

Inode == [used : BOOLEAN, name : Names \union {NoName}, size : Nat, blocks : Seq(Blocks)]

TypeOK ==
    /\ inodes \in [InodeIds -> Inode]
    /\ bitmap \in [Blocks -> BOOLEAN]
    /\ data_blocks \in [Blocks -> [Offsets -> Bytes]]
    /\ ok \in BOOLEAN
    /\ content \in Seq(Bytes)

\* Bitmap and inodes agree: a block is marked exactly if some file holds it,
\* and no block is held twice, by two files or by one; no two files have the
\* same name; and only a file whose write ran out of space holds blocks that
\* its size does not account for.  It holds after every sequence of creates,
\* deletes and writes, also those that fail half way (allocBlock, freeBlock).
DiskConsistent ==
    /\ \A b \in Blocks : bitmap[b] <=> \E i \in InodeIds : b \in BlocksOf(i)
    /\ \A i, j \in InodeIds :
          \A k \in 1..Len(inodes[i].blocks), l \in 1..Len(inodes[j].blocks) :
              inodes[i].blocks[k] = inodes[j].blocks[l] => i = j /\ k = l
    /\ \A i, j \in InodeIds :
          inodes[i].used /\ inodes[j].used /\ inodes[i].name = inodes[j].name => i = j
    /\ \A i \in InodeIds : ~inodes[i].used => inodes[i].blocks = << >>
    /\ \A i \in InodeIds :
          LET size == inodes[i].size
              count == Len(inodes[i].blocks)
          IN  size # 0 => (count - 1) * BlockSize < size /\ size <= count * BlockSize

\* Nothing of a deleted or overwritten file survives: a block that no file
\* holds is zero, and so are the bytes after the end of a file in its last
\* block, though my_write copies no more than the bytes it is given
\* (the memset of freeBlock is what keeps them so).
FreedIsErased ==
    /\ \A b \in Blocks : ~bitmap[b] => data_blocks[b] = ZeroBlock
    /\ \A i \in InodeIds :
          LET size == inodes[i].size
          IN  size # 0 => \A k \in 1..Len(inodes[i].blocks), x \in Offsets :
                  (k - 1) * BlockSize + x >= size =>
                      data_blocks[inodes[i].blocks[k]][x] = Zero

-----------------------------------------------------------------------------
(* Refinement.                                                             *)

FileOf(n) == CHOOSE i \in InodeIds : FindFile(n, i)

FS == INSTANCE FileStore WITH
        NoFile <- NoName,
        files  <- [n \in Names |-> IF Missing(n) THEN NoName ELSE BytesOf(FileOf(n))],
        held   <- [n \in Names |-> IF Missing(n) THEN 0 ELSE Len(inodes[FileOf(n)].blocks)],
        free   <- Cardinality({b \in Blocks : ~bitmap[b]})

\* The file system is a store of named byte strings: my_read returns what the
\* last successful my_write stored, whatever happened to other files; a write
\* fails only for a file that is too large or a disk that has too few blocks
\* left beside the other files, and a create only for a name that is illegal
\* or taken or a full inode table.
ImplementsFileStore == FS!StoreSpec
=============================================================================
