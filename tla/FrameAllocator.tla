--------------------------- MODULE FrameAllocator ---------------------------
(***************************************************************************)
(* The physical frames (os/src/mm/frame_allocator.rs).  A state of         *)
(* StackFrameAllocator is a record a: the frames below a.current have been *)
(* given out at least once, and those of them that came back are on the    *)
(* stack a.recycled.  A FrameTracker is the number of its frame, held by   *)
(* the page table or the area that owns it, and is dropped by dealloc.     *)
(***************************************************************************)
EXTENDS Integers, Sequences, SequencesExt

\* init(l, r)
new_allocator(l, r) == [current |-> l, end |-> r, recycled |-> <<>>]

\* alloc returns None.
Exhausted(a) == a.recycled = <<>> /\ a.current = a.end

alloc_result(a) == IF a.recycled = <<>> THEN a.current ELSE Last(a.recycled)

alloc(a) ==
    IF a.recycled = <<>> THEN [a EXCEPT !.current = @ + 1]
    ELSE [a EXCEPT !.recycled = Front(@)]

\* The validity check of dealloc, which panics.
dealloc_fails(a, ppn) == ppn >= a.current \/ ppn \in ToSet(a.recycled)

dealloc(a, ppn) == [a EXCEPT !.recycled = Append(@, ppn)]
-----------------------------------------------------------------------------
(***************************************************************************)
(* Of the frames from start on, exactly those in held are out: the others  *)
(* are on the stack, once each, or have never been given out.              *)
(***************************************************************************)
Partitioned(a, start, held) ==
    /\ start <= a.current /\ a.current <= a.end
    /\ IsInjective(a.recycled)
    /\ held \cap ToSet(a.recycled) = {}
    /\ held \cup ToSet(a.recycled) = start..(a.current - 1)
=============================================================================
