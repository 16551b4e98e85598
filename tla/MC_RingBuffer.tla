--------------------------- MODULE MC_RingBuffer ---------------------------
(***************************************************************************)
(* TLC instance of RingBuffer: the items are interchangeable.              *)
(***************************************************************************)
EXTENDS RingBuffer, TLC

Symmetric == Permutations(Items)
=============================================================================
