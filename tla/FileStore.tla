----------------------------- MODULE FileStore -----------------------------
(***************************************************************************)
(* What VirtualFS promises to its callers: named files, each with the      *)
(* bytes last written to it, on a disk with a fixed number of blocks.      *)
(*                                                                         *)
(*   files     the content of every file, NoFile for a name that has none  *)
(*   held      the number of blocks a file keeps others from using         *)
(*   free      the number of blocks nobody holds                           *)
(*   ok        the last call succeeded (it returned no -1)                 *)
(*   content   the string the last call of my_read returned                *)
(*                                                                         *)
(* A write that fails leaves the file empty; one that fails for want of    *)
(* space also leaves it holding every block that was free.                 *)
(***************************************************************************)
EXTENDS Naturals, Sequences, FiniteSets

CONSTANTS Names, LegalNames, NoFile, Data, MaxFiles, MaxBlocks,
          BlockSize, BlocksPerFile

VARIABLES files, held, free, ok, content

store_vars == <<files, held, free, ok, content>>

StoreInit ==
    /\ files = [n \in Names |-> NoFile]
    /\ held = [n \in Names |-> 0]
    /\ free = MaxBlocks
    /\ ok = TRUE
    /\ content = << >>

Existing == {n \in Names : files[n] # NoFile}

\* The number of blocks that a string takes.
BlocksFor(d) == (Len(d) + BlockSize - 1) \div BlockSize

Fail == ok' = FALSE /\ content' = << >> /\ UNCHANGED <<files, held, free>>

Create(n) ==
    IF n \in LegalNames /\ n \notin Existing /\ Cardinality(Existing) < MaxFiles
    THEN /\ files' = [files EXCEPT ![n] = << >>]
         /\ ok' = TRUE /\ content' = << >>
         /\ UNCHANGED <<held, free>>
    ELSE Fail

\* The file becomes d, or empty, and holds the given number of blocks.
Replace(n, d, blocks) ==
    /\ files' = [files EXCEPT ![n] = d]
    /\ held' = [held EXCEPT ![n] = blocks]
    /\ free' = free + held[n] - blocks
    /\ content' = << >>

Write(n, d) ==
    \/ n \notin Existing /\ Fail
    \/ /\ n \in Existing
       /\ BlocksFor(d) > BlocksPerFile
       /\ Replace(n, << >>, 0) /\ ok' = FALSE
    \/ /\ n \in Existing
       /\ BlocksFor(d) <= BlocksPerFile
       /\ IF BlocksFor(d) <= free + held[n]
          THEN Replace(n, d, BlocksFor(d)) /\ ok' = TRUE
          ELSE Replace(n, << >>, free + held[n]) /\ ok' = FALSE

Read(n) ==
    IF n \in Existing
    THEN ok' = TRUE /\ content' = files[n] /\ UNCHANGED <<files, held, free>>
    ELSE Fail

Delete(n) ==
    IF n \in Existing
    THEN /\ files' = [files EXCEPT ![n] = NoFile]
         /\ held' = [held EXCEPT ![n] = 0]
         /\ free' = free + held[n]
         /\ ok' = TRUE /\ content' = << >>
    ELSE Fail

StoreNext ==
    \E n \in Names : Create(n) \/ Read(n) \/ Delete(n) \/ \E d \in Data : Write(n, d)

StoreSpec == StoreInit /\ [][StoreNext]_store_vars
=============================================================================
