----------------------------- MODULE PageTable ------------------------------
(***************************************************************************)
(* SV39 page tables (os/src/mm/page_table.rs) over the addresses of        *)
(* os/src/mm/address.rs.  A frame has ENTRIES words (512 in the code); a   *)
(* page table entry is a word, and so is what a program stores.  Addresses *)
(* count words.  mem[ppn] has the words of a frame that are not zero.      *)
(*                                                                         *)
(* The functions that change memory take and return a record s with the    *)
(* allocator, the memory, the reason of a panic ("none"), and what is      *)
(* being built: the root and the frames of a page table, and the frames of *)
(* an area.  After a panic s does not change any more.                     *)
(***************************************************************************)
EXTENDS FrameAllocator

CONSTANTS
    ENTRIES,    \* words of a frame, entries of a page table
    ZERO        \* the word 0

ASSUME EntriesAssumption == ENTRIES \in Nat \ {0, 1}

PAGE_SIZE == ENTRIES

floor(va) == va \div PAGE_SIZE
ceil(va) == (va - 1 + PAGE_SIZE) \div PAGE_SIZE
page_offset(va) == va % PAGE_SIZE

\* VirtPageNum::indexes: the index at each of the three levels.
indexes(vpn) ==
    <<(vpn \div (ENTRIES * ENTRIES)) % ENTRIES, (vpn \div ENTRIES) % ENTRIES, vpn % ENTRIES>>

\* The last two pages of an address space.
TRAMPOLINE == ENTRIES * ENTRIES * ENTRIES - 1
TRAP_CONTEXT == TRAMPOLINE - 1

EmptyFrame == [i \in {} |-> ZERO]

Word(mem, ppn, i) == IF i \in DOMAIN mem[ppn] THEN mem[ppn][i] ELSE ZERO

\* The words of a frame after one of them was stored.
Stored(frame, i, w) ==
    [j \in IF w = ZERO THEN DOMAIN frame \ {i} ELSE DOMAIN frame \cup {i} |->
        IF j = i THEN w ELSE frame[j]]

\* The loop over the elements of seq: each is given what the one before it left.
ForEach(op(_, _), s, seq) ==
    LET Loop[i \in 0..Len(seq)] ==
            IF i = 0 THEN s
            ELSE LET t == Loop[i - 1] IN IF t.panic # "none" THEN t ELSE op(t, seq[i])
    IN Loop[Len(seq)]

Fail(s, why) == [s EXCEPT !.panic = why]

\* frame_alloc().unwrap(): the frame, cleared, is in s.got.
frame_alloc(s) ==
    IF s.panic # "none" THEN s
    ELSE IF Exhausted(s.alloc) THEN Fail(s, "frame_alloc")
    ELSE [s EXCEPT !.alloc = alloc(@), !.got = alloc_result(s.alloc),
                   !.mem[alloc_result(s.alloc)] = EmptyFrame]

\* Drop for FrameTracker.
frame_dealloc(s, ppn) ==
    IF s.panic # "none" THEN s
    ELSE IF dealloc_fails(s.alloc, ppn) THEN Fail(s, "frame_dealloc")
    ELSE [s EXCEPT !.alloc = dealloc(@, ppn)]
-----------------------------------------------------------------------------
PTE(ppn, flags) == [ppn |-> ppn, flags |-> flags]

is_valid(word) == word # ZERO /\ "V" \in word.flags

\* The new frame s.got becomes the table that the entry i of the table s.at names.
add_table(s, i) ==
    IF s.panic # "none" THEN s
    ELSE [s EXCEPT !.mem[s.at] = Stored(@, i, PTE(s.got, {"V"})),
                   !.frames = Append(@, s.got),
                   !.at = s.got]

\* One level of find_pte_create, from the table s.at to the one below it.
descend(s, i) ==
    IF s.panic # "none" THEN s
    ELSE IF is_valid(Word(s.mem, s.at, i)) THEN [s EXCEPT !.at = Word(s.mem, s.at, i).ppn]
    ELSE add_table(frame_alloc(s), i)

\* The table of the lowest level that has the entry of vpn is in s.at.
find_pte_create(s, vpn) ==
    descend(descend([s EXCEPT !.at = s.root], indexes(vpn)[1]), indexes(vpn)[2])

NoTable == -1

\* find_pte: the table of the lowest level, or NoTable.
find_pte(mem, root, vpn) ==
    LET p == Word(mem, root, indexes(vpn)[1])
        q == Word(mem, p.ppn, indexes(vpn)[2])
    IN IF ~is_valid(p) THEN NoTable ELSE IF ~is_valid(q) THEN NoTable ELSE q.ppn

set_pte(s, i, pte) ==
    IF s.panic # "none" THEN s
    ELSE IF is_valid(Word(s.mem, s.at, i)) THEN Fail(s, "mapped")
    ELSE [s EXCEPT !.mem[s.at] = Stored(@, i, pte)]

map(s, vpn, ppn, flags) ==
    set_pte(find_pte_create(s, vpn), indexes(vpn)[3], PTE(ppn, flags \cup {"V"}))

unmap(s, vpn) ==
    LET leaf == find_pte(s.mem, s.root, vpn)
        i    == indexes(vpn)[3]
    IN IF s.panic # "none" THEN s
       ELSE IF leaf = NoTable THEN Fail(s, "unmap")
       ELSE IF ~is_valid(Word(s.mem, leaf, i)) THEN Fail(s, "unmap")
       ELSE [s EXCEPT !.mem[leaf] = Stored(@, i, ZERO)]

\* The frame that translate(vpn).unwrap().ppn() gives for a mapped page.
translate(mem, root, vpn) == Word(mem, find_pte(mem, root, vpn), indexes(vpn)[3]).ppn

(***************************************************************************)
(* translated_byte_buffer: the parts of the frames behind len words from   *)
(* ptr on, one per page.  The last one ends at the end of its page when    *)
(* the offset of the end is 0.  UserBufferIterator goes through them in    *)
(* order.                                                                  *)
(***************************************************************************)
translated_byte_buffer(mem, root, ptr, len) ==
    LET end == ptr + len
        to(vpn) == IF (vpn + 1) * PAGE_SIZE <= end THEN PAGE_SIZE ELSE page_offset(end)
        from(vpn) == IF vpn = floor(ptr) THEN page_offset(ptr) ELSE 0
        slice(vpn) == [ppn |-> translate(mem, root, vpn), from |-> from(vpn), to |-> to(vpn)]
    IN [k \in 1..(floor(end - 1) - floor(ptr) + 1) |-> slice(floor(ptr) + k - 1)]

\* The words (frame and index) a buffer consists of.
WordsOf(slices) ==
    UNION {{<<slices[k].ppn, i>> : i \in slices[k].from..(slices[k].to - 1)}
             : k \in DOMAIN slices}
=============================================================================
