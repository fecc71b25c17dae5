------------------------------ MODULE MCEasyFs ------------------------------
(***************************************************************************)
(* Blocks of two slots, one direct block, indirect blocks of two entries:  *)
(* a file has at most seven data blocks and four indirect ones.  The data  *)
(* area has fourteen blocks and its bitmap fifteen bits in five blocks.    *)
(* There are three inodes, in two blocks, for the root and two files.      *)
(***************************************************************************)
EXTENDS EasyFs, TLC

CONSTANTS f, g, long

MCName == {f, g, long}

\* A byte tells the position it was written for and which write it was.
Req(offset, len, version) ==
    [offset |-> offset, buf |-> [k \in 1..len |-> 2 * (offset + k) + version]]

\* To the indirect block, to a row of the tree that is not full and over the
\* first one, to the last block of the tree and too far; the third leaves a
\* hole behind each of the others.
MCRequest == {Req(1, 4, 1), Req(2, 6, 0), Req(12, 1, 0), Req(13, 3, 0)}

NameSymmetry == Permutations({f, g})
=============================================================================
