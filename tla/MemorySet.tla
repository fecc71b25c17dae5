----------------------------- MODULE MemorySet ------------------------------
(***************************************************************************)
(* Address spaces (os/src/mm/memory_set.rs): a memory set is a page table  *)
(* and the areas mapped through it.  A MapArea has its range of pages      *)
(* [start, end), its map_type, its permissions and, when it is Framed, the *)
(* frame of each page.  The functions work on the record s of PageTable,   *)
(* whose fields root, frames and areas are the memory set at hand and      *)
(* data_frames the area being mapped.                                      *)
(*                                                                         *)
(* An ELF file is the sequence of its loadable segments: the address (page *)
(* aligned by user/src/linker.ld), the size in memory, the permissions and *)
(* the data, which may be shorter than the size.                           *)
(***************************************************************************)
EXTENDS PageTable

CONSTANTS
    STRAMPOLINE,        \* the frame of the trampoline code, in .text
    SECTIONS,           \* .text, .rodata, .data and .bss, as identical areas
    MMIO,               \* the memory-mapped registers, as identical areas
    EKERNEL,            \* the first frame after the kernel
    MEMORY_END,         \* the end of physical memory, in frames
    USER_STACK_PAGES,
    KERNEL_STACK_PAGES

\* Physical memory goes on after the kernel.
ASSUME FramesAssumption == EKERNEL \in Nat /\ MEMORY_END \in Nat /\ EKERNEL <= MEMORY_END

VPNRange(start, end) == [i \in 1..(end - start) |-> start + i - 1]

Framed(start, end, perm) ==
    [start |-> start, end |-> end, type |-> "Framed", perm |-> perm, data_frames |-> EmptyFrame]

Identical(start, end, perm) == [Framed(start, end, perm) EXCEPT !.type = "Identical"]

\* An area before it is mapped; its range is one that SimpleRange::new accepts.
NewArea ==
    {a \in [start : Nat, end : Nat, type : {"Framed", "Identical"},
            perm : SUBSET {"R", "W", "X", "U"}, data_frames : {EmptyFrame}] : a.start <= a.end}

\* The areas of the kernel come from its linker script and the board.
ASSUME KernelAssumption == SECTIONS \in Seq(NewArea) /\ MMIO \in Seq(NewArea)

ASSUME StackAssumption == USER_STACK_PAGES \in Nat /\ KERNEL_STACK_PAGES \in Nat

\* An executable: at least one segment, none empty, none with more data than its size.
IsElf(elf) ==
    /\ elf \in Seq(ToSet(elf)) /\ elf # <<>>
    /\ \A k \in DOMAIN elf : /\ elf[k].va \in Nat /\ elf[k].mem_size \in Nat \ {0}
                             /\ elf[k].perm \subseteq {"R", "W", "X"}
                             /\ elf[k].data \in Seq(ToSet(elf[k].data))
                             /\ Len(elf[k].data) <= elf[k].mem_size

\* The memory set that s works on.
With(s, ms) == [s EXCEPT !.root = ms.root, !.frames = ms.frames, !.areas = ms.areas]
SetOf(s) == [root |-> s.root, frames |-> s.frames, areas |-> s.areas]
NoSet == [root |-> NoTable, frames |-> <<>>, areas |-> <<>>]

\* BTreeMap::insert
Inserted(m, key, value) ==
    [k \in DOMAIN m \cup {key} |-> IF k = key THEN value ELSE m[k]]

\* The new frame s.got is the area's for the page.
map_frame(s, vpn, perm) ==
    IF s.panic # "none" THEN s
    ELSE map([s EXCEPT !.data_frames = Inserted(@, vpn, s.got)], vpn, s.got, perm)

map_one(s, area, vpn) ==
    IF area.type = "Identical" THEN map(s, vpn, vpn, area.perm)
    ELSE map_frame(frame_alloc(s), vpn, area.perm)

area_map(s, area) ==
    ForEach(LAMBDA t, vpn : map_one(t, area, vpn),
             [s EXCEPT !.data_frames = EmptyFrame], VPNRange(area.start, area.end))

\* Stores through the page table s.root, as translated_ref_mut allows them.
StoreVia(s, va, w) ==
    [s EXCEPT !.mem[translate(s.mem, s.root, floor(va))] = Stored(@, page_offset(va), w)]

StoreAll(s, va, words) ==
    ForEach(LAMBDA t, i : StoreVia(t, va + i - 1, words[i]), s, [i \in DOMAIN words |-> i])

\* The loop translates the area's first page even if there is no data; no area it is
\* called for is empty, so the page is mapped.
copy_data(s, area, data) ==
    IF s.panic # "none" THEN s ELSE StoreAll(s, area.start * PAGE_SIZE, data)

add_area(s, area) ==
    [s EXCEPT !.areas = Append(@, [area EXCEPT !.data_frames = s.data_frames])]

push(s, area, data) == add_area(copy_data(area_map(s, area), area, data), area)

\* A memory set of nothing but the table in the new frame s.got.
bare(s) == [s EXCEPT !.root = s.got, !.frames = <<s.got>>, !.areas = <<>>]

new_bare(s) == bare(frame_alloc(s))

map_trampoline(s) == map(s, TRAMPOLINE, STRAMPOLINE, {"R", "X"})

new_kernel(s) ==
    ForEach(LAMBDA t, area : push(t, area, <<>>),
             map_trampoline(new_bare(s)),
             SECTIONS \o <<Identical(EKERNEL, MEMORY_END, {"R", "W"})>> \o MMIO)
-----------------------------------------------------------------------------
(***************************************************************************)
(* User address spaces.                                                    *)
(***************************************************************************)
segment_area(seg) == Framed(floor(seg.va), ceil(seg.va + seg.mem_size), seg.perm \cup {"U"})

\* A guard page lies between the last segment and the user stack.
user_stack_bottom(elf) == segment_area(Last(elf)).end + 1
user_stack_top(elf) == (user_stack_bottom(elf) + USER_STACK_PAGES) * PAGE_SIZE

from_elf(s, elf) ==
    LET loaded == ForEach(LAMBDA t, seg : push(t, segment_area(seg), seg.data),
                           map_trampoline(new_bare(s)), elf)
        stack  == Framed(user_stack_bottom(elf), user_stack_bottom(elf) + USER_STACK_PAGES,
                         {"R", "W", "U"})
        trap   == Framed(TRAP_CONTEXT, TRAMPOLINE, {"R", "W"})
    IN push(push(loaded, stack, <<>>), trap, <<>>)

copy_page(s, from, vpn) ==
    IF s.panic # "none" THEN s
    ELSE [s EXCEPT !.mem[translate(s.mem, s.root, vpn)] = s.mem[translate(s.mem, from.root, vpn)]]

\* Variant: the child's pages are mapped to the parent's frames.
copy_area_shared(s, from, area) ==
    IF s.panic # "none" THEN s
    ELSE ForEach(LAMBDA t, vpn : map(t, vpn, translate(t.mem, from.root, vpn), area.perm),
                  [s EXCEPT !.areas = Append(@, area)], VPNRange(area.start, area.end))

copy_area(s, from, area) ==
    ForEach(LAMBDA t, vpn : copy_page(t, from, vpn), push(s, area, <<>>),
             VPNRange(area.start, area.end))

from_existed_user(s, user_space) ==
    ForEach(LAMBDA t, area : copy_area(t, user_space, area),
             map_trampoline(new_bare(s)), user_space.areas)

(***************************************************************************)
(* The end of areas and memory sets.  A frame is freed when the vector or  *)
(* map that holds it is dropped: the table's frames, then those of each    *)
(* area in the order of its pages.                                         *)
(***************************************************************************)
free(s, frames) == ForEach(frame_dealloc, s, frames)

area_frames(area) ==
    IF area.type = "Identical" THEN <<>>
    ELSE [i \in 1..(area.end - area.start) |-> area.data_frames[area.start + i - 1]]

drop_areas(s, ms) == ForEach(LAMBDA t, area : free(t, area_frames(area)), s, ms.areas)

\* Variant: a page table does not own its frames.
drop_memory_set_areas(s, ms) == drop_areas(s, ms)

drop_memory_set(s, ms) == drop_areas(free(s, ms.frames), ms)

\* Variant: the frames are freed and the pages stay mapped.
unmap_one_mapped(s, area, vpn) ==
    IF area.type = "Identical" THEN s ELSE frame_dealloc(s, area.data_frames[vpn])

unmap_one(s, area, vpn) ==
    unmap(IF area.type = "Identical" THEN s ELSE frame_dealloc(s, area.data_frames[vpn]), vpn)

area_unmap(s, area) ==
    ForEach(LAMBDA t, vpn : unmap_one(t, area, vpn), s, VPNRange(area.start, area.end))

remove_area(s, idx) == [area_unmap(s, s.areas[idx]) EXCEPT !.areas = RemoveAt(@, idx)]

AreasFrom(areas, start_vpn) == {k \in DOMAIN areas : areas[k].start = start_vpn}

\* The first area that starts at the page.
remove_area_with_start_vpn(s, start_vpn) ==
    IF AreasFrom(s.areas, start_vpn) = {} THEN s
    ELSE remove_area(s, Min(AreasFrom(s.areas, start_vpn)))
=============================================================================
