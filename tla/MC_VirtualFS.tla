---------------------------- MODULE MC_VirtualFS ----------------------------
(***************************************************************************)
(* TLC instance of VirtualFS: a string of every length from nothing to one *)
(* byte more than a file can hold, with different bytes side by side.  The *)
(* legal names are interchangeable.                                        *)
(***************************************************************************)
EXTENDS VirtualFS, TLC

MCData == {<< >>, <<1>>, <<2, 1>>, <<1, 1, 2>>, <<2, 2, 1, 2>>, <<1, 2, 1, 2, 2>>}

Symmetric == Permutations(LegalNames)
=============================================================================
