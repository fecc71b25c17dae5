------------------------------ MODULE MCPacker ------------------------------
(***************************************************************************)
(* Three apps, of which the second needs an indirect block, on a disk of   *)
(* the proportions of MCEasyFs with two blocks of two inodes.              *)
(***************************************************************************)
EXTENDS Packer

CONSTANTS f, g, h

App(name, len) == [name |-> name, data |-> [k \in 1..len |-> k]]

MCApps == <<App(f, 3), App(g, 5), App(h, 3)>>
MCName == {f, g, h}
=============================================================================
