---------------------------- MODULE MCBlockCache ----------------------------
(***************************************************************************)
(* A queue of two entries for three blocks, so that blocks are replaced,   *)
(* and closures nested three deep, so that the queue can be full of held   *)
(* entries.  The queue never has more than two live caches; the third is   *)
(* for the new cache of a replacement.                                     *)
(***************************************************************************)
EXTENDS BlockCache, TLC

CONSTANTS b1, b2, b3, c1, c2, c3

MCBlock == {b1, b2, b3}
MCCache == {c1, c2, c3}

BlockCacheSymmetry == Permutations(MCCache)
=============================================================================
