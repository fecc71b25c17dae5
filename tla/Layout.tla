------------------------------- MODULE Layout -------------------------------
(***************************************************************************)
(* The disk inode of easy-fs (easy-fs/src/layout.rs): how the numbers of   *)
(* the blocks of a file are kept in the inode, in one indirect block and   *)
(* in a tree of indirect blocks, and how they are found, added and given   *)
(* back.                                                                   *)
(*                                                                         *)
(* A view gives the contents of every block.  A block of the data area has *)
(* BLOCK_SIZE slots: a slot is a byte of a file, an entry of the directory *)
(* or a block number of an indirect block, and ZERO when it is all zeros.  *)
(* Sizes and offsets count slots.  The entries of the directory divide a   *)
(* block evenly in the code, so none of them lies across two blocks.       *)
(***************************************************************************)
EXTENDS Integers, Sequences, SequencesExt

CONSTANTS
    BLOCK_SIZE, INODE_DIRECT_COUNT, INODE_INDIRECT1_COUNT,
    ZERO

ASSUME LayoutAssumption ==
    /\ BLOCK_SIZE \in Nat \ {0}
    /\ INODE_DIRECT_COUNT \in Nat \ {0}
    /\ INODE_INDIRECT1_COUNT \in 1..BLOCK_SIZE

INODE_INDIRECT2_COUNT == INODE_INDIRECT1_COUNT * INODE_INDIRECT1_COUNT
DIRECT_BOUND    == INODE_DIRECT_COUNT
INDIRECT1_BOUND == DIRECT_BOUND + INODE_INDIRECT1_COUNT
INDIRECT2_BOUND == INDIRECT1_BOUND + INODE_INDIRECT2_COUNT

Smaller(x, y) == IF x <= y THEN x ELSE y

\* The numbers from..to-1, in order.
Count(from, to) == [k \in 1..(to - from) |-> from + k - 1]

ZeroData == [s \in 0..BLOCK_SIZE - 1 |-> ZERO]

\* DiskInode::initialize
initialize(type) ==
    [size |-> 0, direct |-> [i \in 0..INODE_DIRECT_COUNT - 1 |-> 0],
     indirect1 |-> 0, indirect2 |-> 0, type_ |-> type]

data_blocks(size) == (size + BLOCK_SIZE - 1) \div BLOCK_SIZE

\* The data blocks and the indirect blocks a file of this size has.
total_blocks(size) ==
    LET n == data_blocks(size)
    IN n + (IF n > DIRECT_BOUND THEN 1 ELSE 0)
         + (IF n > INDIRECT1_BOUND
            THEN 1 + (n - INDIRECT1_BOUND + INODE_INDIRECT1_COUNT - 1)
                       \div INODE_INDIRECT1_COUNT
            ELSE 0)

\* Variant: always the first row of the tree.
get_block_id_first_row(inode, view, i) ==
    IF i < DIRECT_BOUND THEN inode.direct[i]
    ELSE IF i < INDIRECT1_BOUND THEN view[inode.indirect1][i - DIRECT_BOUND]
    ELSE LET j   == i - INDIRECT1_BOUND
             row == view[inode.indirect2][0]
         IN view[row][j % INODE_INDIRECT1_COUNT]

get_block_id(inode, view, i) ==
    IF i < DIRECT_BOUND THEN inode.direct[i]
    ELSE IF i < INDIRECT1_BOUND THEN view[inode.indirect1][i - DIRECT_BOUND]
    ELSE LET j   == i - INDIRECT1_BOUND
             row == view[inode.indirect2][j \div INODE_INDIRECT1_COUNT]
         IN view[row][j % INODE_INDIRECT1_COUNT]
-----------------------------------------------------------------------------
(***************************************************************************)
(* increase_size.  Its loops place one data block after the other; s has   *)
(* the inode, the view, the new blocks not yet used and how it failed.     *)
(***************************************************************************)

\* How many of the new blocks the i-th data block takes, with the indirect
\* blocks that come into being with it.
Takes(i) ==
    1 + (IF i = DIRECT_BOUND THEN 1 ELSE 0)
      + (IF i = INDIRECT1_BOUND THEN 1 ELSE 0)
      + (IF i >= INDIRECT1_BOUND /\ (i - INDIRECT1_BOUND) % INODE_INDIRECT1_COUNT = 0
         THEN 1 ELSE 0)

Fail(s, why) == [s EXCEPT !.panic = why]

\* Write a block number into an indirect block, which must be on the device.
put_entry(s, b, k, id) ==
    IF b \in DOMAIN s.view THEN [s EXCEPT !.view[b][k] = id]
    ELSE Fail(s, "outside the device")

place_direct(s, i) == [s EXCEPT !.inode.direct[i] = s.new[1]]

place_indirect1(s, i) ==
    LET t == IF i = DIRECT_BOUND THEN [s EXCEPT !.inode.indirect1 = s.new[1]] ELSE s
    IN put_entry(t, t.inode.indirect1, i - DIRECT_BOUND, s.new[Takes(i)])

place_indirect2(s, i) ==
    LET j == i - INDIRECT1_BOUND
        a == j \div INODE_INDIRECT1_COUNT
        b == j % INODE_INDIRECT1_COUNT
        t == IF j = 0 THEN [s EXCEPT !.inode.indirect2 = s.new[1]] ELSE s
        u == IF b = 0 THEN put_entry(t, t.inode.indirect2, a, s.new[Takes(i) - 1]) ELSE t
    IN IF u.panic # "no" THEN u
       ELSE put_entry(u, u.view[u.inode.indirect2][a], b, s.new[Takes(i)])

\* Variant: the last block that the tree has room for is refused.
place_short(s, i) ==
    IF s.panic # "no" THEN s
    ELSE IF i >= INDIRECT2_BOUND - 1 THEN Fail(s, "file too large")
    ELSE IF Len(s.new) < Takes(i) THEN Fail(s, "assertion")
    ELSE LET t == IF i < DIRECT_BOUND THEN place_direct(s, i)
                  ELSE IF i < INDIRECT1_BOUND THEN place_indirect1(s, i)
                  ELSE place_indirect2(s, i)
         IN [t EXCEPT !.new = SubSeq(@, Takes(i) + 1, Len(@))]

place(s, i) ==
    IF s.panic # "no" THEN s
    ELSE IF i >= INDIRECT2_BOUND THEN Fail(s, "file too large")
    ELSE IF Len(s.new) < Takes(i) THEN Fail(s, "assertion")
    ELSE LET t == IF i < DIRECT_BOUND THEN place_direct(s, i)
                  ELSE IF i < INDIRECT1_BOUND THEN place_indirect1(s, i)
                  ELSE place_indirect2(s, i)
         IN [t EXCEPT !.new = SubSeq(@, Takes(i) + 1, Len(@))]

increase_size(s, new_size) ==
    FoldLeft(place, [s EXCEPT !.inode.size = new_size],
             Count(data_blocks(s.inode.size), data_blocks(new_size)))
-----------------------------------------------------------------------------
Entries(view, b, n) == [k \in 1..n |-> view[b][k - 1]]

\* An indirect block of the tree and the first n of its entries.
Row(inode, view, a, n) ==
    LET b == view[inode.indirect2][a] IN <<b>> \o Entries(view, b, n)

\* Variant: a last row that is not full is forgotten.
released_blocks_full_rows(inode, view) ==
    LET n  == data_blocks(inode.size)
        n1 == n - INODE_DIRECT_COUNT
        n2 == n1 - INODE_INDIRECT1_COUNT
        a1 == n2 \div INODE_INDIRECT1_COUNT
    IN [k \in 1..Smaller(n, INODE_DIRECT_COUNT) |-> inode.direct[k - 1]]
       \o (IF n1 <= 0 THEN <<>>
           ELSE <<inode.indirect1>>
                \o Entries(view, inode.indirect1, Smaller(n1, INODE_INDIRECT1_COUNT)))
       \o (IF n2 <= 0 THEN <<>>
           ELSE <<inode.indirect2>>
                \o FlattenSeq([a \in 1..a1 |-> Row(inode, view, a - 1, INODE_INDIRECT1_COUNT)]))

\* The blocks that clear_size returns.
released_blocks(inode, view) ==
    LET n  == data_blocks(inode.size)
        n1 == n - INODE_DIRECT_COUNT
        n2 == n1 - INODE_INDIRECT1_COUNT
        a1 == n2 \div INODE_INDIRECT1_COUNT
        b1 == n2 % INODE_INDIRECT1_COUNT
    IN [k \in 1..Smaller(n, INODE_DIRECT_COUNT) |-> inode.direct[k - 1]]
       \o (IF n1 <= 0 THEN <<>>
           ELSE <<inode.indirect1>>
                \o Entries(view, inode.indirect1, Smaller(n1, INODE_INDIRECT1_COUNT)))
       \o (IF n2 <= 0 THEN <<>>
           ELSE <<inode.indirect2>>
                \o FlattenSeq([a \in 1..a1 |-> Row(inode, view, a - 1, INODE_INDIRECT1_COUNT)])
                \o (IF b1 > 0 THEN Row(inode, view, a1, b1) ELSE <<>>))

\* The inode that clear_size leaves.  The entries it sets to zero in the
\* indirect block are in a block that its caller zeroes next.
clear_size(inode) ==
    LET n == data_blocks(inode.size)
    IN [inode EXCEPT
          !.size = 0,
          !.direct = [i \in DOMAIN @ |-> IF i < n THEN 0 ELSE @[i]],
          !.indirect1 = IF n > DIRECT_BOUND THEN 0 ELSE @,
          !.indirect2 = IF n > INDIRECT1_BOUND THEN 0 ELSE @]
-----------------------------------------------------------------------------
\* DiskInode::read_at, slot by slot.
read_at(inode, view, offset, len) ==
    [k \in 1..(Smaller(offset + len, inode.size) - offset) |->
       LET p == offset + k - 1
       IN view[get_block_id(inode, view, p \div BLOCK_SIZE)][p % BLOCK_SIZE]]

\* One round of the loop of write_at, for the k-th block of the file.
write_block(inode, offset, buf, s, k) ==
    LET b   == get_block_id(inode, s.view, k)
        end == Smaller(offset + Len(buf), inode.size)
    IN IF s.panic # "no" THEN s
       ELSE IF b \notin DOMAIN s.view THEN Fail(s, "outside the device")
       ELSE [s EXCEPT !.view[b] =
               [x \in DOMAIN @ |->
                  LET p == k * BLOCK_SIZE + x
                  IN IF offset <= p /\ p < end THEN buf[p - offset + 1] ELSE @[x]]]

\* DiskInode::write_at
write_blocks(s, offset, buf) ==
    LET end      == Smaller(offset + Len(buf), s.inode.size)
        round(t, k) == write_block(s.inode, offset, buf, t, k)
    IN IF offset >= end THEN s
       ELSE FoldLeft(round, s, Count(offset \div BLOCK_SIZE, data_blocks(end)))
=============================================================================
