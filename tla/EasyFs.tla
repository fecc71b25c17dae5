------------------------------- MODULE EasyFs -------------------------------
(***************************************************************************)
(* The file system of easy-fs (bitmap.rs, efs.rs, vfs.rs): the geometry of *)
(* the disk, the two bitmaps, the inode area, the root directory and the   *)
(* operations on it.                                                       *)
(*                                                                         *)
(* Every operation holds the lock of the file system from its first access *)
(* to its last, so each one is a single step.  The view is what reading    *)
(* the blocks through the cache gives (module BlockCache shows that there  *)
(* is one such value per block).  block_cache_sync_all changes the device  *)
(* and not the view: module Packer adds the device.  A failed unwrap, an   *)
(* index out of range, a failed assertion or an access outside the device  *)
(* is a panic, which stops the machine.                                    *)
(***************************************************************************)
EXTENDS Layout, FiniteSetsExt

CONSTANTS
    TotalBlocks, InodeBitmapBlocks,     \* the arguments of create
    BLOCK_BITS,
    InodesPerBlock,                     \* BLOCK_SIZE / size_of DiskInode
    Name,
    LongName,                           \* those over NAME_LENGTH_LIMIT
    Request                             \* what callers write: offset and buf

ASSUME EasyFsAssumption ==
    /\ TotalBlocks \in Nat /\ InodeBitmapBlocks \in Nat \ {0}
    /\ BLOCK_BITS \in Nat \ {0} /\ InodesPerBlock \in Nat \ {0}
    /\ LongName \subseteq Name

VARIABLES
    view,       \* the contents of every block
    efs,        \* the EasyFileSystem object in memory
    panic       \* "no", or why the machine stopped

vars == <<view, efs, panic>>
-----------------------------------------------------------------------------
(***************************************************************************)
(* Bitmap.  A bitmap block is the set of its bits that are 1.  The first   *)
(* word that is not full and its trailing ones give the smallest bit that  *)
(* is 0.                                                                   *)
(***************************************************************************)
maximum(bitmap) == bitmap.blocks * BLOCK_BITS

IsSet(v, bitmap, bit) == bit % BLOCK_BITS \in v[bitmap.start + bit \div BLOCK_BITS]

FreeBits(v, bitmap) == {bit \in 0..maximum(bitmap) - 1 : ~IsSet(v, bitmap, bit)}

set_bit(v, bitmap, bit) ==
    [v EXCEPT ![bitmap.start + bit \div BLOCK_BITS] = @ \cup {bit % BLOCK_BITS}]

clear_bit(v, bitmap, bit) ==
    [v EXCEPT ![bitmap.start + bit \div BLOCK_BITS] = @ \ {bit % BLOCK_BITS}]
-----------------------------------------------------------------------------
(***************************************************************************)
(* EasyFileSystem: the geometry and the inode area.                        *)
(***************************************************************************)
InodeAreaBlocks ==
    (InodeBitmapBlocks * BLOCK_BITS + InodesPerBlock - 1) \div InodesPerBlock

DataTotalBlocks == TotalBlocks - 1 - (InodeBitmapBlocks + InodeAreaBlocks)

DataBitmapBlocks == (DataTotalBlocks + BLOCK_BITS) \div (BLOCK_BITS + 1)

super_block ==
    [inode_bitmap_blocks |-> InodeBitmapBlocks,
     inode_area_blocks   |-> InodeAreaBlocks,
     data_bitmap_blocks  |-> DataBitmapBlocks,
     data_area_blocks    |-> DataTotalBlocks - DataBitmapBlocks]

\* The object that open makes from a super block, and create from the
\* numbers it puts into one.
open(sb) ==
    LET inode_total_blocks == sb.inode_bitmap_blocks + sb.inode_area_blocks
    IN [inode_bitmap |-> [start |-> 1, blocks |-> sb.inode_bitmap_blocks],
        data_bitmap  |-> [start |-> 1 + inode_total_blocks, blocks |-> sb.data_bitmap_blocks],
        inode_area_start_block |-> 1 + sb.inode_bitmap_blocks,
        data_area_start_block  |-> 1 + inode_total_blocks + sb.data_bitmap_blocks]

\* A block of zeros, as the part of the disk it is in reads it.
ZeroBlock(fs, b) ==
    IF b < fs.inode_area_start_block THEN {}
    ELSE IF b < fs.data_bitmap.start THEN [k \in 0..InodesPerBlock - 1 |-> initialize("File")]
    ELSE IF b < fs.data_area_start_block THEN {}
    ELSE ZeroData

get_inode(v, fs, n) ==
    v[fs.inode_area_start_block + n \div InodesPerBlock][n % InodesPerBlock]

\* The inode at get_disk_inode_pos, modified.
put_inode(v, fs, n, inode) ==
    [v EXCEPT ![fs.inode_area_start_block + n \div InodesPerBlock][n % InodesPerBlock] = inode]

\* The disk that create leaves: all blocks cleared, the super block, the bit
\* of the root directory and its inode.
formatted(fs) ==
    LET cleared == [b \in 0..TotalBlocks - 1 |->
                      IF b = 0 THEN super_block ELSE ZeroBlock(fs, b)]
    IN put_inode(set_bit(cleared, fs.inode_bitmap, 0), fs, 0, initialize("Directory"))

Init ==
    /\ efs = open(super_block)
    /\ view = formatted(efs)
    /\ panic = "no"
-----------------------------------------------------------------------------
(***************************************************************************)
(* The operations of vfs.rs.  In an operation s has the inode it works on, *)
(* the view, the blocks allocated for it and how it failed.                *)
(***************************************************************************)
Working(v, number) ==
    [inode |-> get_inode(v, efs, number), view |-> v, new |-> <<>>, panic |-> "no"]

\* The closure on the inode returns, or the operation has failed.
Finish(number, s) ==
    /\ panic' = s.panic
    /\ view' = IF s.panic = "no" THEN put_inode(s.view, efs, number, s.inode) ELSE view
    /\ UNCHANGED efs

\* alloc_data, called for the k-th of the blocks that are needed.
alloc_data(s, k) ==
    LET free == FreeBits(s.view, efs.data_bitmap)
    IN IF s.panic # "no" THEN s
       ELSE IF free = {} THEN Fail(s, "no data block")
       ELSE [s EXCEPT !.view = set_bit(@, efs.data_bitmap, Min(free)),
                      !.new = Append(@, efs.data_area_start_block + Min(free))]

dealloc_data(s, b) ==
    LET bit == b - efs.data_area_start_block
    IN IF s.panic # "no" THEN s
       ELSE IF b \notin DOMAIN s.view THEN Fail(s, "outside the device")
       ELSE IF bit < 0 \/ ~IsSet(s.view, efs.data_bitmap, bit) THEN Fail(s, "assertion")
       ELSE [s EXCEPT !.view = clear_bit([@ EXCEPT ![b] = ZeroData], efs.data_bitmap, bit)]

\* Variant: the blocks for the new bytes, whatever the last block has room for.
grow_from_end(s, new_size) ==
    IF new_size < s.inode.size THEN s
    ELSE LET needed == total_blocks(new_size - s.inode.size)
             t      == FoldLeft(alloc_data, s, Count(0, needed))
         IN IF t.panic # "no" THEN t ELSE increase_size(t, new_size)

\* Inode::increase_size
grow(s, new_size) ==
    IF new_size < s.inode.size THEN s
    ELSE LET needed == total_blocks(new_size) - total_blocks(s.inode.size)
             t      == FoldLeft(alloc_data, s, Count(0, needed))
         IN IF t.panic # "no" THEN t ELSE increase_size(t, new_size)

\* The entries of the root directory.
Entry(v, fs) == LET root == get_inode(v, fs, 0) IN read_at(root, v, 0, root.size)

\* Inode::ls
ls(v, fs) == {e.name : e \in ToSet(Entry(v, fs))}

\* Inode::find, for a name that is there: the number of the first such entry.
find(v, fs, n) == LET e == Entry(v, fs)
                  IN e[Min({i \in DOMAIN e : e[i].name = n})].inode_number

\* Variant: the name is not looked up.
MayCreate_any(n) == panic = "no"

MayCreate(n) == panic = "no" /\ n \notin ls(view, efs)

\* Append an entry to the directory.
add_entry(v, n, number) ==
    LET s == Working(v, 0)
        t == grow(s, s.inode.size + 1)
    IN IF t.panic # "no" THEN t
       ELSE IF n \in LongName THEN Fail(t, "long name")
       ELSE write_blocks(t, s.inode.size, <<[name |-> n, inode_number |-> number]>>)

create(n) ==
    /\ MayCreate(n)
    /\ LET free   == FreeBits(view, efs.inode_bitmap)
           number == Min(free)
           v      == put_inode(set_bit(view, efs.inode_bitmap, number),
                               efs, number, initialize("File"))
       IN IF free = {} THEN Finish(0, Fail(Working(view, 0), "no inode"))
          ELSE Finish(0, add_entry(v, n, number))

\* What write_at makes of the inode with this number.
written(number, r) ==
    LET s == grow(Working(view, number), r.offset + Len(r.buf))
    IN IF s.panic # "no" THEN s ELSE write_blocks(s, r.offset, r.buf)

write_at(n, r) ==
    /\ panic = "no" /\ n \in ls(view, efs)
    /\ LET number == find(view, efs, n) IN Finish(number, written(number, r))

\* clear frees what clear_size returns, after an assertion on how much it is.
clear(n) ==
    /\ panic = "no" /\ n \in ls(view, efs)
    /\ LET number == find(view, efs, n)
           inode  == get_inode(view, efs, number)
           blocks == released_blocks(inode, view)
           s      == [Working(view, number) EXCEPT !.inode = clear_size(inode)]
       IN Finish(number, IF Len(blocks) # total_blocks(inode.size) THEN Fail(s, "assertion")
                         ELSE FoldLeft(dealloc_data, s, blocks))

\* The machine has stopped.
stopped == panic # "no" /\ UNCHANGED vars

Next ==
    \/ \E n \in Name : create(n) \/ clear(n)
    \/ \E n \in Name, r \in Request : write_at(n, r)
    \/ stopped

Spec == Init /\ [][Next]_vars
-----------------------------------------------------------------------------
Inodes == {n \in 0..maximum(efs.inode_bitmap) - 1 : IsSet(view, efs.inode_bitmap, n)}

DataArea == efs.data_area_start_block..TotalBlocks - 1

Taken == {b \in DataArea : IsSet(view, efs.data_bitmap, b - efs.data_area_start_block)}

BlocksOf(n) == released_blocks(get_inode(view, efs, n), view)

\* The type of the state: the parts of the disk hold what they are for.
TypeOK ==
    /\ DOMAIN view = 0..TotalBlocks - 1
    /\ efs = open(view[0])
    /\ \A b \in DOMAIN view \ {0} :
         IF b \in DataArea THEN DOMAIN view[b] = 0..BLOCK_SIZE - 1
         ELSE IF b \in efs.inode_area_start_block..efs.data_bitmap.start - 1
         THEN \A k \in 0..InodesPerBlock - 1 :
                /\ view[b][k].size \in Nat
                /\ view[b][k].type_ \in {"File", "Directory"}
         ELSE view[b] \subseteq 0..BLOCK_BITS - 1
    /\ panic \in {"no", "no inode", "no data block", "outside the device",
                  "file too large", "long name", "assertion"}

\* The state has its type, and bitmap and inodes agree: every block that is
\* marked as taken belongs to exactly one place of one file (as data or as an
\* indirect block), and what belongs to a file is marked and on the device.
\* No bit outside the data area stays set.  A block that is free is all zeros:
\* what lies between the old end of a file and a write beyond it reads as
\* zeros only because of this.
AllocationExact ==
    /\ TypeOK
    /\ \A n \in Inodes : IsInjective(BlocksOf(n))
    /\ \A m, n \in Inodes : m # n => ToSet(BlocksOf(m)) \cap ToSet(BlocksOf(n)) = {}
    /\ UNION {ToSet(BlocksOf(n)) : n \in Inodes} = Taken
    /\ FreeBits(view, efs.data_bitmap) =
         {bit \in 0..maximum(efs.data_bitmap) - 1 :
            efs.data_area_start_block + bit \notin Taken}
    /\ \A b \in DataArea \ Taken : view[b] = ZeroData

\* Names and inode numbers in the directory are distinct, and the inodes in
\* use are the root and those the directory names: none is lost.
DirectoryExact ==
    LET e == Entry(view, efs)
    IN /\ \A i, j \in DOMAIN e :
            i # j => e[i].name # e[j].name /\ e[i].inode_number # e[j].inode_number
       /\ {e[i].inode_number : i \in DOMAIN e} = Inodes \ {0}
       /\ \A n \in Inodes :
            get_inode(view, efs, n).type_ = IF n = 0 THEN "Directory" ELSE "File"

\* No sequence of calls makes an assertion of vfs.rs, bitmap.rs or
\* increase_size fail: the only panics are those for a limit that is reached.
NoAssertionFails == panic # "assertion"

\* A write goes through exactly if the file does not become too large and the
\* data area has the blocks it needs: the last block of the area is used, and
\* the bits of the data bitmap beyond the area never pass for blocks.
WritesUseAllSpace ==
    panic = "no" =>
      \A number \in Inodes \ {0}, r \in Request :
        LET size   == get_inode(view, efs, number).size
            end    == r.offset + Len(r.buf)
            needed == IF end < size THEN 0 ELSE total_blocks(end) - total_blocks(size)
        IN written(number, r).panic = "no" <=>
             needed <= Cardinality(DataArea \ Taken) /\ data_blocks(end) <= INDIRECT2_BOUND

\* What reading every file from start to end gives.
Files == [n \in ls(view, efs) |->
            LET inode == get_inode(view, efs, find(view, efs, n))
            IN read_at(inode, view, 0, inode.size)]

Flat == INSTANCE FlatFs WITH files <- Files, stopped <- panic # "no"

\* easy-fs is a directory of byte sequences: the bytes come back as written
\* at every offset, across direct, indirect and doubly indirect blocks, holes
\* are zeros, and no operation on a file changes another one.
ImplementsFlatFs == Flat!Spec
=============================================================================
