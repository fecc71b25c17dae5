-------------------------- MODULE MemorySetProofs ---------------------------
(***************************************************************************)
(* Frames through the functions of MemorySet, for memories of any size and *)
(* any history of calls.  First StackFrameAllocator: from a state in which *)
(* the frames are partitioned into those held, those recycled and those    *)
(* never given out, alloc hands out a frame nobody holds, dealloc accepts  *)
(* every frame that is held, and the frames stay partitioned.  Then what   *)
(* each function that builds or drops a memory set does to the frames and  *)
(* their owners; its loops are shown correct by the rule of Loops.         *)
(***************************************************************************)
EXTENDS MemorySet, SeqLemmas, FiniteSetTheorems, WellFoundedInduction

\* The states of the allocator.
Allocators == [current : Nat, end : Nat, recycled : Seq(Nat)]

(***************************************************************************)
(* After init the frames are partitioned and none is held.                 *)
(***************************************************************************)
THEOREM InitPartitions ==
  ASSUME NEW l \in Nat, NEW r \in Nat, l <= r
  PROVE  new_allocator(l, r) \in Allocators /\ Partitioned(new_allocator(l, r), l, {})
<1>1. new_allocator(l, r) \in Allocators
  BY DEF new_allocator, Allocators
<1>2. ToSet(<<>>) = {} /\ IsInjective(<<>>)
  BY DEF ToSet, IsInjective
<1>3. l..(l - 1) = {}
  OBVIOUS
<1> DEFINE n == new_allocator(l, r)
<1>4. n.current = l /\ n.end = r /\ n.recycled = <<>>
  BY DEF new_allocator
<1> HIDE DEF n
<1>5. l <= n.current /\ n.current <= n.end
  BY <1>4
<1>6. {} \cup ToSet(n.recycled) = l..(n.current - 1)
  BY <1>2, <1>3, <1>4
<1>7. Partitioned(n, l, {})
  BY <1>2, <1>4, <1>5, <1>6, Zenon DEF Partitioned
<1> QED
  BY <1>1, <1>7 DEF n

(***************************************************************************)
(* alloc returns None only when every frame is held, and otherwise a frame *)
(* of the range [start, end) that nobody holds; afterwards that frame is   *)
(* held and the frames are still partitioned.                              *)
(***************************************************************************)
THEOREM AllocGivesFreeFrame ==
  ASSUME NEW a \in Allocators, NEW start \in Nat, NEW held, Partitioned(a, start, held)
  PROVE  /\ Exhausted(a) => held = start..(a.end - 1)
         /\ ~Exhausted(a) =>
              /\ alloc_result(a) \in start..(a.end - 1)
              /\ alloc_result(a) \notin held
              /\ alloc(a) \in Allocators
              /\ Partitioned(alloc(a), start, held \cup {alloc_result(a)})
<1> DEFINE s == a.recycled
           c == a.current
<1>1. /\ c \in Nat /\ a.end \in Nat /\ s \in Seq(Nat)
      /\ a = [current |-> c, end |-> a.end, recycled |-> s]
  BY DEF Allocators
<1>2. /\ start <= c /\ c <= a.end /\ IsInjective(s)
      /\ held \cap ToSet(s) = {}
      /\ held \cup ToSet(s) = start..(c - 1)
  BY DEF Partitioned
<1>3. CASE s = <<>>
  <2>1. ToSet(s) = {}
    BY <1>3 DEF ToSet
  <2>2. held = start..(c - 1)
    BY <2>1, <1>2
  <2>3. alloc_result(a) = c /\ alloc(a) = [current |-> c + 1, end |-> a.end, recycled |-> s]
    BY <1>1, <1>3 DEF alloc_result, alloc
  <2>4. Exhausted(a) <=> c = a.end
    BY <1>3 DEF Exhausted
  <2>5. ASSUME c # a.end
        PROVE  /\ c \in start..(a.end - 1) /\ c \notin held
               /\ held \cup {c} = start..(c + 1 - 1)
               /\ c + 1 <= a.end /\ start <= c + 1
    <3> HIDE DEF c
    <3> QED BY <1>1, <1>2, <2>2, <2>5
  <2>6. ASSUME c # a.end
        PROVE  Partitioned(alloc(a), start, held \cup {c})
    BY <2>1, <2>3, <2>5, <2>6, <1>2 DEF Partitioned
  <2>7. alloc(a) \in Allocators
    BY <2>3, <1>1 DEF Allocators
  <2> QED
    BY <2>2, <2>3, <2>4, <2>5, <2>6, <2>7
<1>4. CASE s # <<>>
  <2>1. /\ Front(s) \in Seq(Nat)
        /\ Last(s) \in ToSet(s)
        /\ ToSet(Front(s)) = ToSet(s) \ {Last(s)}
        /\ IsInjective(Front(s))
    <3> HIDE DEF s
    <3> QED BY <1>1, <1>2, <1>4, FrontElements
  <2>2. /\ alloc_result(a) = Last(s)
        /\ alloc(a) = [current |-> c, end |-> a.end, recycled |-> Front(s)]
    BY <1>1, <1>4 DEF alloc_result, alloc
  <2>3. ~Exhausted(a)
    BY <1>4 DEF Exhausted
  <2>4. Last(s) \in start..(c - 1) /\ Last(s) \notin held
    BY <2>1, <1>2
  <2>5. Last(s) \in start..(a.end - 1)
    <3> HIDE DEF c
    <3> QED BY <2>4, <1>1, <1>2
  <2>6. /\ (held \cup {Last(s)}) \cap ToSet(Front(s)) = {}
        /\ (held \cup {Last(s)}) \cup ToSet(Front(s)) = start..(c - 1)
    BY <2>1, <1>2
  <2>7. Partitioned(alloc(a), start, held \cup {Last(s)})
    BY <2>1, <2>2, <2>6, <1>2 DEF Partitioned
  <2>8. alloc(a) \in Allocators
    BY <2>1, <2>2, <1>1 DEF Allocators
  <2> QED
    BY <2>2, <2>3, <2>4, <2>5, <2>7, <2>8
<1> QED
  BY <1>3, <1>4

(***************************************************************************)
(* dealloc of a frame that is held passes the validity check, and only     *)
(* that one: giving a frame back twice, or one that was never given out,   *)
(* panics.  Afterwards the frames are still partitioned.                   *)
(***************************************************************************)
THEOREM DeallocTakesFrameBack ==
  ASSUME NEW a \in Allocators, NEW start \in Nat, NEW held, Partitioned(a, start, held),
         NEW ppn \in Nat, start <= ppn
  PROVE  /\ dealloc_fails(a, ppn) <=> ppn \notin held
         /\ ppn \in held => /\ dealloc(a, ppn) \in Allocators
                            /\ Partitioned(dealloc(a, ppn), start, held \ {ppn})
<1> DEFINE s == a.recycled
           c == a.current
<1>1. /\ c \in Nat /\ a.end \in Nat /\ s \in Seq(Nat)
      /\ a = [current |-> c, end |-> a.end, recycled |-> s]
  BY DEF Allocators
<1>2. /\ start <= c /\ c <= a.end /\ IsInjective(s)
      /\ held \cap ToSet(s) = {}
      /\ held \cup ToSet(s) = start..(c - 1)
  BY DEF Partitioned
<1>3. ppn >= c <=> ppn \notin start..(c - 1)
  <2> HIDE DEF c
  <2> QED BY <1>1
<1>4. dealloc_fails(a, ppn) <=> ppn \notin held
  BY <1>2, <1>3 DEF dealloc_fails
<1>5. ASSUME ppn \in held
      PROVE  dealloc(a, ppn) \in Allocators /\ Partitioned(dealloc(a, ppn), start, held \ {ppn})
  <2>1. ppn \notin ToSet(s)
    BY <1>2, <1>5
  <2>2. /\ Append(s, ppn) \in Seq(Nat)
        /\ ToSet(Append(s, ppn)) = ToSet(s) \cup {ppn}
        /\ IsInjective(Append(s, ppn))
    <3> HIDE DEF s
    <3> QED BY <1>1, <1>2, <2>1, AppendElements
  <2>3. /\ (held \ {ppn}) \cap (ToSet(s) \cup {ppn}) = {}
        /\ (held \ {ppn}) \cup (ToSet(s) \cup {ppn}) = start..(c - 1)
    BY <1>2, <1>5
  <2>5. dealloc(a, ppn) = [current |-> c, end |-> a.end, recycled |-> Append(s, ppn)]
    <3> DEFINE t == Append(s, ppn)
    <3>1. dealloc(a, ppn) = [a EXCEPT !.recycled = t]
      BY DEF dealloc
    <3> HIDE DEF t, s, c
    <3>2. [a EXCEPT !.recycled = t] = [current |-> c, end |-> a.end, recycled |-> t]
      BY <1>1
    <3> QED
      BY <3>1, <3>2 DEF t
  <2>4. dealloc(a, ppn) \in Allocators
    BY <2>2, <2>5, <1>1 DEF Allocators
  <2> QED
    BY <2>2, <2>3, <2>4, <2>5, <1>1, <1>2 DEF Partitioned
<1> QED
  BY <1>4, <1>5
-----------------------------------------------------------------------------
(***************************************************************************)
(* A claim says who holds a frame and where: the owner of the memory set   *)
(* and, as in Holdings, the place in it.  The claims C are exact for an    *)
(* allocator when the frames they name are the ones that are out, and no   *)
(* two of them name the same frame.                                        *)
(***************************************************************************)
Claim(o, kind, i, f) == <<o, <<kind, i, f>>>>

Frame(c) == c[2][3]

FramesOf(C) == {Frame(c) : c \in C}

Exact(a, C) ==
    /\ a \in Allocators
    /\ Partitioned(a, EKERNEL, FramesOf(C))
    /\ \A c, d \in C : Frame(c) = Frame(d) => c = d

\* A claim determines its owner, its place and its frame.
LEMMA ClaimFacts ==
  /\ \A o, kind, i, f : Frame(Claim(o, kind, i, f)) = f /\ Claim(o, kind, i, f)[1] = o
  /\ \A o, kind, i, f, p, k2, j, g : Claim(o, kind, i, f) = Claim(p, k2, j, g) <=> (o = p /\ kind = k2 /\ i = j /\ f = g)
  BY DEF Frame, Claim

\* A claimed frame is one of those the allocator manages.
LEMMA ExactFrames ==
  ASSUME NEW a, NEW C, Exact(a, C), NEW c \in C
  PROVE  Frame(c) \in Nat /\ EKERNEL <= Frame(c) /\ Frame(c) < a.end
<1>1. a.current \in Nat /\ a.end \in Nat
  BY DEF Exact, Allocators
<1>2. Frame(c) \in EKERNEL..(a.current - 1) /\ a.current <= a.end
  BY DEF Exact, Partitioned, FramesOf
<1>3. QED BY <1>1, <1>2, FramesAssumption

\* StackFrameAllocator::alloc: the frame it returns may be claimed for any place.
LEMMA ExactNew ==
  ASSUME NEW a, NEW C, Exact(a, C), ~Exhausted(a), NEW o, NEW kind, NEW i
  PROVE  /\ Exact(alloc(a), C \cup {Claim(o, kind, i, alloc_result(a))})
         /\ alloc_result(a) \in Nat
<1> DEFINE n == Claim(o, kind, i, alloc_result(a))
           D == C \cup {n}
<1>1. /\ alloc_result(a) \in EKERNEL..(a.end - 1)
      /\ alloc_result(a) \notin FramesOf(C)
      /\ alloc(a) \in Allocators
      /\ Partitioned(alloc(a), EKERNEL, FramesOf(C) \cup {alloc_result(a)})
  BY AllocGivesFreeFrame, FramesAssumption DEF Exact
<1>2. Frame(n) = alloc_result(a)
  BY ClaimFacts
<1> HIDE DEF n
<1>3. FramesOf(D) = FramesOf(C) \cup {alloc_result(a)}
  BY <1>2 DEF FramesOf
<1>4. \A c, d \in D : Frame(c) = Frame(d) => c = d
  BY <1>1, <1>2 DEF Exact, FramesOf
<1>5. Exact(alloc(a), D)
  BY <1>1, <1>3, <1>4 DEF Exact
<1>6. alloc_result(a) \in Nat
  BY <1>1, FramesAssumption DEF Exact, Allocators
<1>7. QED BY <1>5, <1>6 DEF n

\* StackFrameAllocator::dealloc accepts a claimed frame, and one claim is gone.
LEMMA ExactFree ==
  ASSUME NEW a, NEW C, Exact(a, C), NEW c \in C
  PROVE  ~dealloc_fails(a, Frame(c)) /\ Exact(dealloc(a, Frame(c)), C \ {c})
<1>1. Frame(c) \in FramesOf(C)
  BY DEF FramesOf
<1>2. /\ ~dealloc_fails(a, Frame(c))
      /\ dealloc(a, Frame(c)) \in Allocators
      /\ Partitioned(dealloc(a, Frame(c)), EKERNEL, FramesOf(C) \ {Frame(c)})
  BY <1>1, ExactFrames, DeallocTakesFrameBack, FramesAssumption DEF Exact
<1>3. FramesOf(C \ {c}) = FramesOf(C) \ {Frame(c)}
  BY DEF FramesOf, Exact
<1>4. QED BY <1>2, <1>3 DEF Exact

(***************************************************************************)
(* The same frames under other names.                                      *)
(***************************************************************************)
LEMMA ExactRenamed ==
  ASSUME NEW a, NEW C, Exact(a, C), NEW D, FramesOf(D) = FramesOf(C),
         \A c, d \in D : Frame(c) = Frame(d) => c = d
  PROVE  Exact(a, D)
  BY DEF Exact

-----------------------------------------------------------------------------
(***************************************************************************)
(* The record the functions work on, and the claims of its parts.          *)
(***************************************************************************)
IsMachine(s) ==
    s = [alloc |-> s.alloc, mem |-> s.mem, panic |-> s.panic, got |-> s.got, at |-> s.at,
         root |-> s.root, frames |-> s.frames, areas |-> s.areas, data_frames |-> s.data_frames]

SomeSeq(q) == \E S : q \in Seq(S)

\* The frames of a page table.
Tables(o, frames) == {Claim(o, "table", i, frames[i]) : i \in DOMAIN frames}

\* While a page table grows: nothing is known of the allocator after a panic.
Holds(o, R, s) ==
    /\ IsMachine(s)
    /\ SomeSeq(s.frames)
    /\ s.panic = "none" => Exact(s.alloc, R \cup Tables(o, s.frames))

\* What happens to the page table leaves the rest of the memory set alone.
Keeps(s, t) == t.root = s.root /\ t.areas = s.areas /\ t.data_frames = s.data_frames

(***************************************************************************)
(* Sequences of whatever elements.                                         *)
(***************************************************************************)
LEMMA SomeSeqFacts ==
  ASSUME NEW q, SomeSeq(q)
  PROVE  /\ Len(q) \in Nat /\ DOMAIN q = 1..Len(q)
         /\ \A x : /\ SomeSeq(Append(q, x))
                   /\ Len(Append(q, x)) = Len(q) + 1
                   /\ DOMAIN Append(q, x) = 1..(Len(q) + 1)
                   /\ \A i \in 1..Len(q) : Append(q, x)[i] = q[i]
                   /\ Append(q, x)[Len(q) + 1] = x
<1>1. PICK S : q \in Seq(S)
  BY DEF SomeSeq
<1>2. Len(q) \in Nat /\ DOMAIN q = 1..Len(q)
  BY <1>1, LenProperties
<1>3. ASSUME NEW x
      PROVE  /\ SomeSeq(Append(q, x))
             /\ Len(Append(q, x)) = Len(q) + 1
             /\ DOMAIN Append(q, x) = 1..(Len(q) + 1)
             /\ \A i \in 1..Len(q) : Append(q, x)[i] = q[i]
             /\ Append(q, x)[Len(q) + 1] = x
  <2> DEFINE T == S \cup {x}
  <2>1. q \in Seq(T) /\ x \in T
    BY <1>1, SeqMonotonic
  <2> HIDE DEF T
  <2>2. /\ Append(q, x) \in Seq(T) /\ Len(Append(q, x)) = Len(q) + 1
        /\ \A i \in 1..Len(q) : Append(q, x)[i] = q[i]
        /\ Append(q, x)[Len(q) + 1] = x
    BY <2>1, AppendProperties
  <2>3. DOMAIN Append(q, x) = 1..(Len(q) + 1)
    BY <2>2, LenProperties
  <2>4. QED BY <2>2, <2>3 DEF SomeSeq
<1>4. QED BY <1>2, <1>3

(***************************************************************************)
(* A frame that is added to a table is one claim more.                     *)
(***************************************************************************)
LEMMA TablesAppend ==
  ASSUME NEW o, NEW frames, SomeSeq(frames), NEW f
  PROVE  Tables(o, Append(frames, f)) = Tables(o, frames) \cup {Claim(o, "table", Len(frames) + 1, f)}
<1> DEFINE q == Append(frames, f)
<1>1. /\ Len(frames) \in Nat /\ DOMAIN frames = 1..Len(frames)
      /\ DOMAIN q = 1..(Len(frames) + 1)
      /\ \A i \in 1..Len(frames) : q[i] = frames[i]
      /\ q[Len(frames) + 1] = f
  BY SomeSeqFacts
<1> HIDE DEF q
<1>2. 1..(Len(frames) + 1) = (1..Len(frames)) \cup {Len(frames) + 1}
  BY <1>1
<1>3. Tables(o, q) = Tables(o, frames) \cup {Claim(o, "table", Len(frames) + 1, f)}
  BY <1>1, <1>2 DEF Tables
<1>4. QED BY <1>3 DEF q

(***************************************************************************)
(* frame_alloc().unwrap() gives a frame that may be claimed for any place, *)
(* or panics.                                                              *)
(***************************************************************************)
LEMMA FrameAlloc ==
  ASSUME NEW s, IsMachine(s), NEW C, s.panic = "none" => Exact(s.alloc, C), NEW t, t = frame_alloc(s)
  PROVE  /\ IsMachine(t)
         /\ Keeps(s, t) /\ t.frames = s.frames /\ t.at = s.at
         /\ t.panic = "none" => s.panic = "none"
         /\ t.panic = "none" => \A o, kind, i : Exact(t.alloc, C \cup {Claim(o, kind, i, t.got)})
<1>1. CASE s.panic # "none"
  BY <1>1 DEF frame_alloc, Keeps
<1>2. CASE s.panic = "none" /\ Exhausted(s.alloc)
  <2>1. t = [s EXCEPT !.panic = "frame_alloc"]
    BY <1>2 DEF frame_alloc, Fail
  <2>2. /\ IsMachine(t) /\ t.root = s.root /\ t.areas = s.areas /\ t.data_frames = s.data_frames
        /\ t.frames = s.frames /\ t.at = s.at /\ t.panic = "frame_alloc"
    BY <2>1 DEF IsMachine
  <2>3. QED BY <2>2 DEF Keeps
<1>3. CASE s.panic = "none" /\ ~Exhausted(s.alloc)
  <2>1. t = [s EXCEPT !.alloc = alloc(s.alloc), !.got = alloc_result(s.alloc),
                   !.mem = [s.mem EXCEPT ![alloc_result(s.alloc)] = EmptyFrame]]
    BY <1>3 DEF frame_alloc, IsMachine
  <2>2. /\ IsMachine(t) /\ t.root = s.root /\ t.areas = s.areas /\ t.data_frames = s.data_frames
        /\ t.frames = s.frames /\ t.at = s.at
        /\ t.alloc = alloc(s.alloc) /\ t.got = alloc_result(s.alloc)
    BY <2>1 DEF IsMachine
  <2>3. \A o, kind, i : Exact(t.alloc, C \cup {Claim(o, kind, i, t.got)})
    BY <1>3, <2>2, ExactNew
  <2>4. QED BY <1>3, <2>2, <2>3 DEF Keeps
<1>4. QED BY <1>1, <1>2, <1>3

-----------------------------------------------------------------------------
(***************************************************************************)
(* Page tables.  find_pte_create takes the frames it needs for tables and  *)
(* adds them to the page table; map does no more.                          *)
(***************************************************************************)
LEMMA Descend ==
  ASSUME NEW s, NEW o, NEW R, Holds(o, R, s), NEW i, NEW t, t = descend(s, i)
  PROVE  Holds(o, R, t) /\ Keeps(s, t) /\ (t.panic = "none" => s.panic = "none")
<1>1. CASE s.panic # "none"
  BY <1>1 DEF descend, Keeps
<1>2. CASE s.panic = "none" /\ is_valid(Word(s.mem, s.at, i))
  <2>1. t = [s EXCEPT !.at = Word(s.mem, s.at, i).ppn]
    BY <1>2 DEF descend
  <2>2. /\ IsMachine(t) /\ t.frames = s.frames /\ t.alloc = s.alloc /\ t.panic = s.panic
        /\ t.root = s.root /\ t.areas = s.areas /\ t.data_frames = s.data_frames
    BY <2>1 DEF Holds, IsMachine
  <2>3. QED BY <2>2, <1>2 DEF Holds, Keeps
<1>3. CASE s.panic = "none" /\ ~is_valid(Word(s.mem, s.at, i))
  <2> DEFINE u == frame_alloc(s)
             C == R \cup Tables(o, s.frames)
  <2>1. t = add_table(u, i)
    BY <1>3 DEF descend
  <2>2. /\ IsMachine(u) /\ Keeps(s, u) /\ u.frames = s.frames
        /\ u.panic = "none" => \A oo, kind, j : Exact(u.alloc, C \cup {Claim(oo, kind, j, u.got)})
    BY FrameAlloc DEF Holds
  <2> HIDE DEF u
  <2>3. CASE u.panic # "none"
    BY <2>1, <2>2, <2>3, <1>3 DEF add_table, Holds
  <2>4. CASE u.panic = "none"
    <3>1. t = [u EXCEPT !.mem = [u.mem EXCEPT ![u.at] = Stored(u.mem[u.at], i, PTE(u.got, {"V"}))],
                        !.frames = Append(u.frames, u.got), !.at = u.got]
      BY <2>1, <2>2, <2>4 DEF add_table, IsMachine
    <3>2. /\ IsMachine(t) /\ t.frames = Append(s.frames, u.got) /\ t.alloc = u.alloc
          /\ t.root = u.root /\ t.areas = u.areas /\ t.data_frames = u.data_frames
      BY <3>1, <2>2 DEF IsMachine
    <3>3. SomeSeq(t.frames)
      BY <3>2, SomeSeqFacts DEF Holds
    <3>4. R \cup Tables(o, t.frames) = C \cup {Claim(o, "table", Len(s.frames) + 1, u.got)}
      BY <3>2, TablesAppend DEF Holds
    <3>5. Exact(t.alloc, R \cup Tables(o, t.frames))
      BY <3>2, <3>4, <2>2, <2>4
    <3>6. QED BY <3>2, <3>3, <3>5, <2>2, <1>3 DEF Holds, Keeps
  <2>5. QED BY <2>3, <2>4
<1>4. QED BY <1>1, <1>2, <1>3

\* PageTable::map claims for the page table exactly the frames it takes for new tables.
LEMMA MapTakesTables ==
  ASSUME NEW s, NEW o, NEW R, Holds(o, R, s), NEW vpn, NEW ppn, NEW flags,
         NEW t, t = map(s, vpn, ppn, flags)
  PROVE  Holds(o, R, t) /\ Keeps(s, t) /\ (t.panic = "none" => s.panic = "none")
<1> DEFINE a == [s EXCEPT !.at = s.root]
           b == descend(a, indexes(vpn)[1])
           c == descend(b, indexes(vpn)[2])
           i == indexes(vpn)[3]
           pte == PTE(ppn, flags \cup {"V"})
<1>1. /\ IsMachine(a) /\ a.frames = s.frames /\ a.alloc = s.alloc /\ a.panic = s.panic
      /\ a.root = s.root /\ a.areas = s.areas /\ a.data_frames = s.data_frames
  BY DEF Holds, IsMachine
<1>2. Holds(o, R, a) /\ Keeps(s, a)
  BY <1>1 DEF Holds, Keeps
<1>3. t = set_pte(c, i, pte)
  BY DEF map, find_pte_create
<1> HIDE DEF a
<1>4. Holds(o, R, b) /\ Keeps(a, b) /\ (b.panic = "none" => a.panic = "none")
  BY <1>2, Descend
<1> HIDE DEF b
<1>5. Holds(o, R, c) /\ Keeps(b, c) /\ (c.panic = "none" => b.panic = "none")
  BY <1>4, Descend
<1> HIDE DEF c
<1>6. Keeps(s, c) /\ (c.panic = "none" => s.panic = "none")
  BY <1>1, <1>2, <1>4, <1>5 DEF Keeps
<1>7. CASE c.panic # "none"
  BY <1>3, <1>5, <1>6, <1>7 DEF set_pte
<1>8. CASE c.panic = "none" /\ is_valid(Word(c.mem, c.at, i))
  <2>1. t = [c EXCEPT !.panic = "mapped"]
    BY <1>3, <1>8 DEF set_pte, Fail
  <2>2. /\ IsMachine(t) /\ t.frames = c.frames /\ t.panic # "none"
        /\ t.root = c.root /\ t.areas = c.areas /\ t.data_frames = c.data_frames
    BY <2>1, <1>5 DEF Holds, IsMachine
  <2>3. QED BY <2>2, <1>5, <1>6 DEF Holds, Keeps
<1>9. CASE c.panic = "none" /\ ~is_valid(Word(c.mem, c.at, i))
  <2>1. t = [c EXCEPT !.mem = [c.mem EXCEPT ![c.at] = Stored(c.mem[c.at], i, pte)]]
    BY <1>3, <1>5, <1>9 DEF set_pte, Holds, IsMachine
  <2>2. /\ IsMachine(t) /\ t.frames = c.frames /\ t.panic = c.panic /\ t.alloc = c.alloc
        /\ t.root = c.root /\ t.areas = c.areas /\ t.data_frames = c.data_frames
    BY <2>1, <1>5 DEF Holds, IsMachine
  <2>3. QED BY <2>2, <1>5, <1>6 DEF Holds, Keeps
<1>10. QED BY <1>7, <1>8, <1>9

-----------------------------------------------------------------------------
(***************************************************************************)
(* Areas.  A Framed area that is mapped has a frame for each of its pages, *)
(* an Identical one has none.                                              *)
(***************************************************************************)
IsArea(a) ==
    /\ a = [start |-> a.start, end |-> a.end, type |-> a.type, perm |-> a.perm,
            data_frames |-> a.data_frames]
    /\ a.start \in Int /\ a.end \in Int /\ a.start <= a.end

MappedArea(a) ==
    /\ IsArea(a)
    /\ DOMAIN a.data_frames = IF a.type = "Identical" THEN {} ELSE a.start..(a.end - 1)

\* The frames of the k-th area of a memory set.
Pages(o, k, data_frames) ==
    {Claim(o, "area", <<k, vpn>>, data_frames[vpn]) : vpn \in DOMAIN data_frames}

\* BTreeMap::insert of a new page into data_frames is one claim more.
LEMMA PagesInserted ==
  ASSUME NEW o, NEW k, NEW df, NEW vpn, vpn \notin DOMAIN df, NEW f
  PROVE  Pages(o, k, Inserted(df, vpn, f)) = Pages(o, k, df) \cup {Claim(o, "area", <<k, vpn>>, f)}
<1> DEFINE e == Inserted(df, vpn, f)
<1>1. /\ DOMAIN e = DOMAIN df \cup {vpn}
      /\ e[vpn] = f
      /\ \A v \in DOMAIN df : e[v] = df[v]
  BY DEF Inserted
<1> HIDE DEF e
<1>2. Pages(o, k, e) = Pages(o, k, df) \cup {Claim(o, "area", <<k, vpn>>, f)}
  BY <1>1 DEF Pages
<1>3. QED BY <1>1, <1>2 DEF e

\* The area being mapped has got frames for the pages in S.
Gets(s, t, S) == DOMAIN t.data_frames = DOMAIN s.data_frames \cup S

\* MapArea::map_one of a page that the area does not have yet.
LEMMA MapOne ==
  ASSUME NEW s, NEW o, NEW R, NEW k, Holds(o, R \cup Pages(o, k, s.data_frames), s),
         NEW area, NEW vpn, s.panic = "none", vpn \notin DOMAIN s.data_frames,
         NEW t, t = map_one(s, area, vpn)
  PROVE  /\ Holds(o, R \cup Pages(o, k, t.data_frames), t)
         /\ t.root = s.root /\ t.areas = s.areas
         /\ t.panic = "none" => Gets(s, t, IF area.type = "Identical" THEN {} ELSE {vpn})
<1> DEFINE P == R \cup Pages(o, k, s.data_frames)
<1>1. CASE area.type = "Identical"
  <2>1. t = map(s, vpn, vpn, area.perm)
    BY <1>1 DEF map_one
  <2>2. Holds(o, P, t) /\ Keeps(s, t) /\ (t.panic = "none" => s.panic = "none")
    BY <2>1, MapTakesTables
  <2>3. QED BY <2>2, <1>1 DEF Keeps, Gets
<1>2. CASE area.type # "Identical"
  <2> DEFINE u == frame_alloc(s)
             C == P \cup Tables(o, s.frames)
  <2>1. t = map_frame(u, vpn, area.perm)
    BY <1>2 DEF map_one
  <2>2. /\ IsMachine(u) /\ Keeps(s, u) /\ u.frames = s.frames
        /\ u.panic = "none" => s.panic = "none"
        /\ u.panic = "none" => \A oo, kind, j : Exact(u.alloc, C \cup {Claim(oo, kind, j, u.got)})
    BY FrameAlloc DEF Holds
  <2> HIDE DEF u
  <2>3. CASE u.panic # "none"
    <3>1. t = u
      BY <2>1, <2>3 DEF map_frame
    <3>2. QED BY <3>1, <2>2, <2>3 DEF Holds, Keeps, Gets
  <2>4. CASE u.panic = "none"
    <3> DEFINE d == Inserted(s.data_frames, vpn, u.got)
               v == [u EXCEPT !.data_frames = d]
               Q == R \cup Pages(o, k, d)
    <3>1. t = map(v, vpn, u.got, area.perm)
      BY <2>1, <2>2, <2>4 DEF map_frame, Keeps
    <3>2. /\ Pages(o, k, d) = Pages(o, k, s.data_frames) \cup {Claim(o, "area", <<k, vpn>>, u.got)}
          /\ DOMAIN d = DOMAIN s.data_frames \cup {vpn}
      <4>1. vpn \notin DOMAIN s.data_frames
        BY <2>2, <2>4
      <4>2. DOMAIN d = DOMAIN s.data_frames \cup {vpn}
        BY DEF Inserted
      <4>3. QED BY <4>1, <4>2, PagesInserted
    <3> HIDE DEF d
    <3>3. /\ IsMachine(v) /\ v.frames = s.frames /\ v.alloc = u.alloc /\ v.panic = u.panic
          /\ v.data_frames = d /\ v.root = u.root /\ v.areas = u.areas
      BY <2>2 DEF IsMachine
    <3> HIDE DEF v
    <3>4. Q \cup Tables(o, v.frames) = C \cup {Claim(o, "area", <<k, vpn>>, u.got)}
      BY <3>2, <3>3
    <3>5. Holds(o, Q, v)
      BY <3>3, <3>4, <2>2, <2>4 DEF Holds
    <3>6. Holds(o, Q, t) /\ Keeps(v, t)
      BY <3>1, <3>5, MapTakesTables
    <3>7. QED BY <3>6, <3>3, <3>2, <2>2, <2>4, <1>2 DEF Keeps, Gets
  <2>5. QED BY <2>3, <2>4
<1>3. QED BY <1>1, <1>2

\* An interval and its next number.
LEMMA IntervalGrows ==
  ASSUME NEW a \in Int, NEW i \in Int, i >= 1
  PROVE  (a..(a + i - 2)) \cup {a + i - 1} = a..(a + i - 1)
  OBVIOUS

\* The pages of a range, in order, as the iterator of VPNRange gives them.
LEMMA VPNRangeIsSeq ==
  ASSUME NEW start \in Int, NEW end \in Int, start <= end
  PROVE  /\ SomeSeq(VPNRange(start, end)) /\ Len(VPNRange(start, end)) = end - start
         /\ \A i \in 1..(end - start) : VPNRange(start, end)[i] = start + i - 1
<1> DEFINE n == end - start
           q == VPNRange(start, end)
<1>1. n \in Nat
  OBVIOUS
<1>2. q \in [1..n -> Int]
  BY DEF VPNRange
<1>3. q \in Seq(Int) /\ Len(q) = n
  BY <1>1, <1>2
<1>4. QED BY <1>1, <1>3 DEF SomeSeq, VPNRange

(***************************************************************************)
(* A set of natural numbers that is not empty has a least element.         *)
(***************************************************************************)
LEMMA LeastNumber ==
  ASSUME NEW T, T \subseteq Nat, T # {}
  PROVE  \E n \in T : \A m \in T : n <= m
<1> DEFINE D == {0..n : n \in T}
<1>1. D \subseteq FiniteSubsetsOf(Nat) /\ D # {}
  <2>1. ASSUME NEW n \in T PROVE 0..n \in FiniteSubsetsOf(Nat)
    <3>1. IsFiniteSet(0..n)
      BY FS_Interval
    <3>2. QED BY <3>1 DEF FiniteSubsetsOf
  <2>2. QED BY <2>1
<1>2. IsWellFoundedOn(StrictSubsetOrdering(Nat), FiniteSubsetsOf(Nat))
  BY FS_StrictSubsetOrderingWellFounded
<1>3. PICK x \in D : \A y \in D : ~(<<y, x>> \in StrictSubsetOrdering(Nat))
  <2> HIDE DEF D
  <2> QED BY <1>1, <1>2, WFMin
<1>4. PICK n \in T : x = 0..n
  OBVIOUS
<1>5. ASSUME NEW m \in T, m < n PROVE FALSE
  <2>1. 0..m \in D
    OBVIOUS
  <2>2. 0..m \subseteq 0..n /\ 0..m # 0..n
    BY <1>5
  <2>3. <<0..m, 0..n>> \in StrictSubsetOrdering(Nat)
    BY <2>2 DEF StrictSubsetOrdering
  <2>4. QED BY <2>1, <2>3, <1>3, <1>4
<1>6. QED BY <1>5

(***************************************************************************)
(* Induction up to n.                                                      *)
(***************************************************************************)
LEMMA UpTo ==
  ASSUME NEW n \in Nat, NEW T, 0 \in T, \A i \in 1..n : i - 1 \in T => i \in T
  PROVE  0..n \subseteq T
<1> SUFFICES ASSUME (0..n) \ T # {} PROVE FALSE
  OBVIOUS
<1>1. PICK m \in (0..n) \ T : \A k \in (0..n) \ T : m <= k
  <2>1. (0..n) \ T \subseteq Nat
    OBVIOUS
  <2>2. QED BY <2>1, LeastNumber
<1>2. m - 1 \in T
  BY <1>1
<1>3. QED BY <1>2, <1>1

(***************************************************************************)
(* MapArea::map: after i turns the first i pages have their frames.        *)
(***************************************************************************)
map_turn(area, unused, t, vpn) == map_one(t, area, vpn)

MapInv(p, i, t) ==
    /\ Holds(p.o, p.R \cup Pages(p.o, p.k, t.data_frames), t)
    /\ t.root = p.s.root /\ t.areas = p.s.areas
    /\ t.panic = "none" =>
         /\ p.s.panic = "none"
         /\ DOMAIN t.data_frames =
              IF p.area.type = "Identical" THEN {} ELSE p.area.start..(p.area.start + i - 1)

MapLoop == INSTANCE Loops WITH op <- map_turn, Inv <- MapInv

\* What map of the k-th area makes of s.
AreaMapped(o, R, k, s, area, t) ==
    /\ Holds(o, R \cup Pages(o, k, t.data_frames), t)
    /\ t.root = s.root /\ t.areas = s.areas
    /\ t.panic = "none" =>
         /\ s.panic = "none"
         /\ MappedArea([area EXCEPT !.data_frames = t.data_frames])

\* MapArea::map: a Framed area claims a frame per page, an Identical one none.
LEMMA AreaMap ==
  ASSUME NEW s, NEW o, NEW R, Holds(o, R, s), NEW k, NEW area, IsArea(area),
         NEW t, t = area_map(s, area)
  PROVE  AreaMapped(o, R, k, s, area, t)
<1> DEFINE z == [s EXCEPT !.data_frames = EmptyFrame]
           q == VPNRange(area.start, area.end)
           p == [o |-> o, R |-> R, k |-> k, s |-> s, area |-> area]
           n == area.end - area.start
<1>1. /\ area.start \in Int /\ area.end \in Int /\ n \in Nat
      /\ Len(q) = n /\ \A i \in 1..n : q[i] = area.start + i - 1
  BY VPNRangeIsSeq DEF IsArea
<1>2. t = MapLoop!Run(area, 0, z, q)
  BY Zenon DEF area_map, ForEach, MapLoop!Run, map_turn
<1>3. MapInv(p, 0, z)
  <2>1. /\ IsMachine(z) /\ z.frames = s.frames /\ z.alloc = s.alloc /\ z.panic = s.panic
        /\ z.data_frames = EmptyFrame /\ z.root = s.root /\ z.areas = s.areas
    BY DEF Holds, IsMachine
  <2> HIDE DEF z
  <2>2. DOMAIN z.data_frames = {} /\ Pages(o, k, z.data_frames) = {}
    BY <2>1 DEF EmptyFrame, Pages
  <2>3. area.start..(area.start + 0 - 1) = {}
    BY <1>1
  <2>4. Holds(o, R \cup Pages(o, k, z.data_frames), z)
    BY <2>1, <2>2 DEF Holds
  <2>5. QED BY <2>1, <2>2, <2>3, <2>4 DEF MapInv
<1> HIDE DEF z
<1>4. ASSUME NEW i \in 1..Len(q), NEW u, MapInv(p, i - 1, u)
      PROVE  MapInv(p, i, IF u.panic # "none" THEN u ELSE map_turn(area, 0, u, q[i]))
  <2>1. CASE u.panic # "none"
    BY <2>1, <1>4 DEF MapInv
  <2>2. CASE u.panic = "none"
    <3> DEFINE vpn == q[i]
               w == map_one(u, area, vpn)
    <3>1. vpn = area.start + i - 1 /\ i \in Int /\ i >= 1
      BY <1>1
    <3>2. /\ Holds(o, R \cup Pages(o, k, u.data_frames), u)
          /\ u.root = s.root /\ u.areas = s.areas /\ s.panic = "none"
          /\ DOMAIN u.data_frames = IF area.type = "Identical" THEN {} ELSE area.start..(area.start + i - 2)
      BY <1>4, <2>2, <1>1 DEF MapInv
    <3>3. vpn \notin DOMAIN u.data_frames
      BY <3>1, <3>2, <1>1
    <3> HIDE DEF vpn
    <3>4. /\ Holds(o, R \cup Pages(o, k, w.data_frames), w)
          /\ w.root = u.root /\ w.areas = u.areas
          /\ w.panic = "none" => Gets(u, w, IF area.type = "Identical" THEN {} ELSE {vpn})
      BY <3>2, <3>3, <2>2, MapOne
    <3> HIDE DEF w
    <3>5. (area.start..(area.start + i - 2)) \cup {vpn} = area.start..(area.start + i - 1)
      BY <3>1, <1>1, IntervalGrows
    <3>6. w.panic = "none" =>
               DOMAIN w.data_frames = IF area.type = "Identical" THEN {} ELSE area.start..(area.start + i - 1)
      BY <3>2, <3>4, <3>5 DEF Gets
    <3>7. MapInv(p, i, w)
      BY <3>2, <3>4, <3>6 DEF MapInv
    <3>8. QED BY <3>7, <2>2 DEF w, vpn, map_turn
  <2>3. QED BY <2>1, <2>2
<1>5. MapInv(p, Len(q), MapLoop!Run(area, 0, z, q))
  <2> HIDE DEF p, q
  <2>1. Len(q) \in Nat
    BY <1>1
  <2>2. MapLoop!Induction
    BY UpTo DEF MapLoop!Induction
  <2>3. QED BY <2>1, <2>2, <1>3, <1>4, MapLoop!LoopInvariant
<1>6. MapInv(p, n, t)
  BY <1>1, <1>2, <1>5
<1>7. /\ Holds(o, R \cup Pages(o, k, t.data_frames), t)
      /\ t.root = s.root /\ t.areas = s.areas
      /\ t.panic = "none" =>
           /\ s.panic = "none"
           /\ DOMAIN t.data_frames = IF area.type = "Identical" THEN {} ELSE area.start..(area.start + n - 1)
  BY <1>6 DEF MapInv
<1>8. area.start + n - 1 = area.end - 1
  BY <1>1
<1>9. ASSUME t.panic = "none"
      PROVE  MappedArea([area EXCEPT !.data_frames = t.data_frames])
  BY <1>7, <1>8, <1>9 DEF MappedArea, IsArea
<1>10. QED BY <1>7, <1>9 DEF AreaMapped

-----------------------------------------------------------------------------
(***************************************************************************)
(* Stores through a page table change the memory and nothing else.         *)
(***************************************************************************)
OnlyStores(s, t) ==
    /\ IsMachine(t) /\ Keeps(s, t)
    /\ t.frames = s.frames /\ t.alloc = s.alloc /\ t.panic = s.panic

\* A store through a page table changes the memory alone.
LEMMA StoreViaOnlyStores ==
  ASSUME NEW s, IsMachine(s), NEW va, NEW w
  PROVE  OnlyStores(s, StoreVia(s, va, w))
<1> DEFINE f == translate(s.mem, s.root, floor(va))
           t == StoreVia(s, va, w)
<1>1. t = [s EXCEPT !.mem = [s.mem EXCEPT ![f] = Stored(s.mem[f], page_offset(va), w)]]
  BY DEF StoreVia, IsMachine
<1> HIDE DEF t
<1>2. /\ IsMachine(t) /\ t.root = s.root /\ t.areas = s.areas /\ t.data_frames = s.data_frames
      /\ t.frames = s.frames /\ t.alloc = s.alloc /\ t.panic = s.panic
  BY <1>1 DEF IsMachine
<1>3. QED BY <1>2 DEF OnlyStores, Keeps, t

store_turn(va, words, t, i) == StoreVia(t, va + i - 1, words[i])

StoreInv(s, i, t) == OnlyStores(s, t)

StoreLoop == INSTANCE Loops WITH op <- store_turn, Inv <- StoreInv

\* Stores one after the other.
LEMMA OnlyStoresTrans ==
  ASSUME NEW s, NEW t, OnlyStores(s, t), NEW u, OnlyStores(t, u)
  PROVE  OnlyStores(s, u)
  BY DEF OnlyStores, Keeps

\* The indices of a sequence, as a sequence.
LEMMA IndexSeq ==
  ASSUME NEW q, SomeSeq(q)
  PROVE  Len([i \in DOMAIN q |-> i]) = Len(q) /\ Len(q) \in Nat
<1>1. Len(q) \in Nat /\ DOMAIN q = 1..Len(q)
  BY SomeSeqFacts
<1> DEFINE r == [i \in DOMAIN q |-> i]
<1>2. r \in [1..Len(q) -> Nat]
  BY <1>1
<1> HIDE DEF r
<1>3. Len(r) = Len(q)
  BY <1>1, <1>2
<1>4. QED BY <1>1, <1>3 DEF r

\* The loop of MapArea::copy_data changes the memory alone.
LEMMA StoreAllOnlyStores ==
  ASSUME NEW s, IsMachine(s), NEW va, NEW words, SomeSeq(words)
  PROVE  OnlyStores(s, StoreAll(s, va, words))
<1> DEFINE q == [i \in DOMAIN words |-> i]
<1>1. StoreAll(s, va, words) = StoreLoop!Run(va, words, s, q)
  BY Zenon DEF StoreAll, ForEach, StoreLoop!Run, store_turn
<1>2. Len(q) \in Nat
  BY IndexSeq
<1>3. StoreInv(s, 0, s)
  BY DEF StoreInv, OnlyStores, Keeps
<1>4. ASSUME NEW i \in 1..Len(q), NEW u, StoreInv(s, i - 1, u)
      PROVE  StoreInv(s, i, IF u.panic # "none" THEN u ELSE store_turn(va, words, u, q[i]))
  <2>1. OnlyStores(s, u) /\ IsMachine(u)
    BY <1>4 DEF StoreInv, OnlyStores
  <2> DEFINE w == store_turn(va, words, u, q[i])
  <2>2. OnlyStores(u, w)
    BY <2>1, StoreViaOnlyStores DEF store_turn
  <2> HIDE DEF w
  <2>3. StoreInv(s, i, w) /\ StoreInv(s, i, u)
    BY <2>1, <2>2, OnlyStoresTrans DEF StoreInv
  <2>4. QED BY <2>3 DEF w
<1> HIDE DEF q
<1>5. StoreInv(s, Len(q), StoreLoop!Run(va, words, s, q))
  <2>1. StoreLoop!Induction
    BY UpTo DEF StoreLoop!Induction
  <2>2. QED BY <2>1, <1>2, <1>3, <1>4, StoreLoop!LoopInvariant
<1>6. QED BY <1>1, <1>5 DEF StoreInv

(***************************************************************************)
(* Memory sets.  While the memory set of o is built or changed, R are the  *)
(* claims of the others.                                                   *)
(***************************************************************************)
AreasClaims(o, areas) == UNION {Pages(o, k, areas[k].data_frames) : k \in DOMAIN areas}

MappedAreas(areas) == SomeSeq(areas) /\ \A k \in DOMAIN areas : MappedArea(areas[k])

OwnsSet(o, R, s) ==
    /\ Holds(o, R \cup AreasClaims(o, s.areas), s)
    /\ s.panic = "none" => MappedAreas(s.areas)

\* Vec::push of an area adds the claims of its pages.
LEMMA AreasClaimsAppend ==
  ASSUME NEW o, NEW areas, SomeSeq(areas), NEW area
  PROVE  AreasClaims(o, Append(areas, area))
           = AreasClaims(o, areas) \cup Pages(o, Len(areas) + 1, area.data_frames)
<1> DEFINE q == Append(areas, area)
<1>1. /\ Len(areas) \in Nat /\ DOMAIN areas = 1..Len(areas)
      /\ DOMAIN q = 1..(Len(areas) + 1)
      /\ \A i \in 1..Len(areas) : q[i] = areas[i]
      /\ q[Len(areas) + 1] = area
  BY SomeSeqFacts
<1> HIDE DEF q
<1>2. 1..(Len(areas) + 1) = (1..Len(areas)) \cup {Len(areas) + 1}
  BY <1>1
<1>3. AreasClaims(o, q) = AreasClaims(o, areas) \cup Pages(o, Len(areas) + 1, area.data_frames)
  BY <1>1, <1>2 DEF AreasClaims
<1>4. QED BY <1>3 DEF q

\* Vec::push of a mapped area keeps the areas mapped.
LEMMA MappedAreasAppend ==
  ASSUME NEW areas, MappedAreas(areas), NEW area, MappedArea(area)
  PROVE  MappedAreas(Append(areas, area))
<1> DEFINE q == Append(areas, area)
<1>1. /\ Len(areas) \in Nat /\ DOMAIN areas = 1..Len(areas)
      /\ SomeSeq(q)
      /\ DOMAIN q = 1..(Len(areas) + 1)
      /\ \A i \in 1..Len(areas) : q[i] = areas[i]
      /\ q[Len(areas) + 1] = area
  BY SomeSeqFacts DEF MappedAreas
<1> HIDE DEF q
<1>2. 1..(Len(areas) + 1) = (1..Len(areas)) \cup {Len(areas) + 1}
  BY <1>1
<1>3. \A k \in DOMAIN q : MappedArea(q[k])
  BY <1>1, <1>2 DEF MappedAreas
<1>4. QED BY <1>1, <1>3 DEF MappedAreas, q

(***************************************************************************)
(* push maps an area and makes it the last one of the memory set.          *)
(***************************************************************************)
LEMMA Push ==
  ASSUME NEW s, NEW o, NEW R, OwnsSet(o, R, s), NEW area, IsArea(area), NEW data, SomeSeq(data),
         NEW t, t = push(s, area, data)
  PROVE  OwnsSet(o, R, t) /\ t.root = s.root /\ (t.panic = "none" => s.panic = "none")
<1> DEFINE k == Len(s.areas) + 1
           Q == R \cup AreasClaims(o, s.areas)
           u == area_map(s, area)
           v == copy_data(u, area, data)
           new == [area EXCEPT !.data_frames = v.data_frames]
<1>1. /\ Holds(o, Q \cup Pages(o, k, u.data_frames), u)
      /\ u.root = s.root /\ u.areas = s.areas
      /\ u.panic = "none" =>
           /\ s.panic = "none"
           /\ MappedArea([area EXCEPT !.data_frames = u.data_frames])
  <2>1. Holds(o, Q, s) /\ u = area_map(s, area)
    BY DEF OwnsSet
  <2> HIDE DEF k, Q, u
  <2>2. AreaMapped(o, Q, k, s, area, u)
    BY <2>1, AreaMap
  <2>3. QED BY <2>2 DEF AreaMapped
<1>2. t = add_area(v, area)
  BY DEF push
<1> HIDE DEF u
<1>3. OnlyStores(u, v)
  <2>1. IsMachine(u)
    BY <1>1 DEF Holds
  <2>2. CASE u.panic # "none"
    BY <2>1, <2>2 DEF copy_data, OnlyStores, Keeps
  <2>3. CASE u.panic = "none"
    BY <2>1, <2>3, StoreAllOnlyStores DEF copy_data
  <2>4. QED BY <2>2, <2>3
<1> HIDE DEF v
<1>4. /\ IsMachine(v) /\ v.root = s.root /\ v.areas = s.areas /\ v.frames = u.frames
      /\ v.alloc = u.alloc /\ v.panic = u.panic /\ v.data_frames = u.data_frames
  BY <1>1, <1>3 DEF OnlyStores, Keeps
<1>5. t = [v EXCEPT !.areas = Append(v.areas, new)]
  BY <1>2, <1>4 DEF add_area, IsMachine
<1>6. new.data_frames = v.data_frames
  BY DEF IsArea
<1>7. v.panic = "none" => MappedArea(new) /\ s.panic = "none"
  BY <1>1, <1>4
<1> HIDE DEF new
<1>8. /\ IsMachine(t) /\ t.areas = Append(s.areas, new) /\ t.root = s.root /\ t.frames = u.frames
      /\ t.alloc = u.alloc /\ t.panic = u.panic
  BY <1>4, <1>5 DEF IsMachine
<1>9. CASE t.panic # "none"
  BY <1>1, <1>8, <1>9 DEF OwnsSet, Holds
<1>10. CASE t.panic = "none"
  <2>1. s.panic = "none" /\ MappedArea(new) /\ MappedAreas(s.areas)
    BY <1>4, <1>7, <1>8, <1>10 DEF OwnsSet
  <2>2. MappedAreas(t.areas)
    BY <2>1, <1>8, MappedAreasAppend
  <2>3. AreasClaims(o, t.areas) = AreasClaims(o, s.areas) \cup Pages(o, k, v.data_frames)
    <3>1. SomeSeq(s.areas)
      BY <2>1 DEF MappedAreas
    <3>2. AreasClaims(o, Append(s.areas, new))
            = AreasClaims(o, s.areas) \cup Pages(o, Len(s.areas) + 1, new.data_frames)
      BY <3>1, AreasClaimsAppend
    <3>3. QED BY <3>2, <1>6, <1>8
  <2>4. R \cup AreasClaims(o, t.areas) = Q \cup Pages(o, k, u.data_frames)
    BY <2>3, <1>4
  <2>5. Holds(o, R \cup AreasClaims(o, t.areas), t)
    <3> HIDE DEF Q, k
    <3>1. Holds(o, Q \cup Pages(o, k, u.data_frames), t)
      BY <1>1, <1>8 DEF Holds
    <3>2. QED BY <3>1, <2>4
  <2>6. QED BY <2>1, <2>2, <2>5, <1>8 DEF OwnsSet
<1>11. QED BY <1>9, <1>10

-----------------------------------------------------------------------------
(***************************************************************************)
(* The memory sets that are built: the kernel's, an executable's and the   *)
(* copy for fork.                                                          *)
(***************************************************************************)
LEMMA NewBare ==
  ASSUME NEW s, IsMachine(s), NEW R, s.panic = "none" => Exact(s.alloc, R), NEW o,
         NEW t, t = new_bare(s)
  PROVE  OwnsSet(o, R, t) /\ (t.panic = "none" => s.panic = "none")
<1> DEFINE u == frame_alloc(s)
<1>1. /\ IsMachine(u)
      /\ u.panic = "none" => s.panic = "none"
      /\ u.panic = "none" => \A oo, kind, i : Exact(u.alloc, R \cup {Claim(oo, kind, i, u.got)})
  BY FrameAlloc
<1>2. t = [u EXCEPT !.root = u.got, !.frames = <<u.got>>, !.areas = <<>>]
  BY DEF new_bare, bare
<1> HIDE DEF u
<1>3. /\ IsMachine(t) /\ t.frames = <<u.got>> /\ t.areas = <<>> /\ t.alloc = u.alloc /\ t.panic = u.panic
  BY <1>1, <1>2 DEF IsMachine
<1>4. /\ SomeSeq(t.frames) /\ SomeSeq(t.areas)
      /\ DOMAIN t.areas = {} /\ DOMAIN t.frames = {1} /\ t.frames[1] = u.got
  <2>1. <<u.got>> \in Seq({u.got})
    OBVIOUS
  <2>2. t.areas \in Seq({})
    BY <1>3
  <2>3. SomeSeq(t.frames) /\ SomeSeq(t.areas)
    BY <2>1, <2>2, <1>3 DEF SomeSeq
  <2>4. DOMAIN t.areas = {} /\ DOMAIN t.frames = {1} /\ t.frames[1] = u.got
    BY <1>3
  <2>5. QED BY <2>3, <2>4
<1>5. AreasClaims(o, t.areas) = {} /\ MappedAreas(t.areas)
  BY <1>4 DEF AreasClaims, MappedAreas
<1>6. Tables(o, t.frames) = {Claim(o, "table", 1, u.got)}
  BY <1>4 DEF Tables
<1>7. t.panic = "none" => Exact(t.alloc, (R \cup AreasClaims(o, t.areas)) \cup Tables(o, t.frames))
  BY <1>1, <1>3, <1>5, <1>6
<1>8. QED BY <1>1, <1>3, <1>4, <1>5, <1>7 DEF OwnsSet, Holds

\* PageTable::map in a memory set.
LEMMA MapOwns ==
  ASSUME NEW s, NEW o, NEW R, OwnsSet(o, R, s), NEW vpn, NEW ppn, NEW flags,
         NEW t, t = map(s, vpn, ppn, flags)
  PROVE  OwnsSet(o, R, t) /\ t.root = s.root /\ (t.panic = "none" => s.panic = "none")
<1>1. /\ Holds(o, R \cup AreasClaims(o, s.areas), t) /\ Keeps(s, t)
      /\ t.panic = "none" => s.panic = "none"
  BY MapTakesTables DEF OwnsSet
<1>2. QED BY <1>1 DEF OwnsSet, Keeps

\* new_bare followed by map_trampoline.
LEMMA Bare ==
  ASSUME NEW s, IsMachine(s), NEW R, s.panic = "none" => Exact(s.alloc, R), NEW o,
         NEW t, t = map_trampoline(new_bare(s))
  PROVE  OwnsSet(o, R, t) /\ (t.panic = "none" => s.panic = "none")
<1> DEFINE u == new_bare(s)
<1>1. OwnsSet(o, R, u) /\ (u.panic = "none" => s.panic = "none")
  BY NewBare
<1> HIDE DEF u
<1>2. t = map(u, TRAMPOLINE, STRAMPOLINE, {"R", "X"})
  BY DEF map_trampoline, u
<1>3. OwnsSet(o, R, t) /\ (t.panic = "none" => u.panic = "none")
  BY <1>1, <1>2, MapOwns
<1>4. QED BY <1>1, <1>3

\* What each of the three loops keeps.
BuildInv(p, i, t) == OwnsSet(p.o, p.R, t) /\ (t.panic = "none" => p.s.panic = "none")

\* MemorySet::push as the turn of a loop that builds a memory set.
LEMMA BuildTurn ==
  ASSUME NEW p, NEW i, NEW j, NEW u, BuildInv(p, i, u), NEW w, OwnsSet(p.o, p.R, w),
         w.panic = "none" => u.panic = "none"
  PROVE  BuildInv(p, j, u) /\ BuildInv(p, j, w)
  BY DEF BuildInv

kernel_turn(unused1, unused2, t, area) == push(t, area, <<>>)

KernelLoop == INSTANCE Loops WITH op <- kernel_turn, Inv <- BuildInv

\* The areas of the linker script and of the board can be mapped.
LEMMA NewAreaIsArea ==
  ASSUME NEW a \in NewArea
  PROVE  IsArea(a)
  BY DEF NewArea, IsArea

\* The empty sequence.
LEMMA EmptyIsSeq == SomeSeq(<<>>)
<1>1. <<>> \in Seq({})
  OBVIOUS
<1>2. QED BY <1>1 DEF SomeSeq

\* MemorySet::new_kernel: every frame taken is claimed once by the new memory set.
LEMMA NewKernel ==
  ASSUME NEW s, IsMachine(s), NEW R, s.panic = "none" => Exact(s.alloc, R), NEW o,
         NEW t, t = new_kernel(s)
  PROVE  OwnsSet(o, R, t) /\ (t.panic = "none" => s.panic = "none")
<1> DEFINE q == SECTIONS \o <<Identical(EKERNEL, MEMORY_END, {"R", "W"})>> \o MMIO
           z == map_trampoline(new_bare(s))
           p == [o |-> o, R |-> R, s |-> s]
<1>1. t = KernelLoop!Run(0, 0, z, q)
  BY Zenon DEF new_kernel, ForEach, KernelLoop!Run, kernel_turn
<1>2. q \in Seq(NewArea)
  <2>1. Identical(EKERNEL, MEMORY_END, {"R", "W"}) \in NewArea
    BY FramesAssumption DEF Identical, Framed, NewArea
  <2>2. QED BY <2>1, KernelAssumption
<1> HIDE DEF q
<1>3. Len(q) \in Nat /\ \A i \in 1..Len(q) : IsArea(q[i])
  BY <1>2, NewAreaIsArea
<1>4. BuildInv(p, 0, z)
  BY Bare DEF BuildInv
<1> HIDE DEF z, p
<1>5. p.o = o /\ p.R = R /\ p.s = s
  BY DEF p
<1>6. ASSUME NEW i \in 1..Len(q), NEW u, BuildInv(p, i - 1, u)
      PROVE  BuildInv(p, i, IF u.panic # "none" THEN u ELSE kernel_turn(0, 0, u, q[i]))
  <2> DEFINE w == kernel_turn(0, 0, u, q[i])
  <2>1. OwnsSet(p.o, p.R, w) /\ (w.panic = "none" => u.panic = "none")
    <3>1. w = push(u, q[i], <<>>) /\ OwnsSet(p.o, p.R, u) /\ IsArea(q[i])
      BY <1>3, <1>6 DEF kernel_turn, BuildInv
    <3> HIDE DEF w
    <3>2. QED BY <3>1, EmptyIsSeq, Push
  <2> HIDE DEF w
  <2>2. BuildInv(p, i, u) /\ BuildInv(p, i, w)
    BY <2>1, <1>6, BuildTurn
  <2>3. QED BY <2>2 DEF w
<1>7. BuildInv(p, Len(q), KernelLoop!Run(0, 0, z, q))
  <2>1. KernelLoop!Induction
    BY UpTo DEF KernelLoop!Induction
  <2>2. QED BY <2>1, <1>3, <1>4, <1>6, KernelLoop!LoopInvariant
<1>8. QED BY <1>1, <1>5, <1>7 DEF BuildInv

(***************************************************************************)
(* The pages of a segment and of what follows it.                          *)
(***************************************************************************)
LEMMA PageBounds ==
  ASSUME NEW va \in Nat, NEW size \in Nat
  PROVE  floor(va) \in Nat /\ ceil(va + size) \in Nat /\ floor(va) <= ceil(va + size)
<1> DEFINE P == PAGE_SIZE
           x == va - 1 + size + P
<1>1. P \in Nat /\ P >= 2
  BY EntriesAssumption DEF PAGE_SIZE
<1> HIDE DEF P
<1>2. x \in Nat /\ va <= x
  BY <1>1
<1>3. va \div P \in Nat /\ x \div P \in Nat
  BY <1>1, <1>2
<1>4. va \div P <= x \div P
  <2>1. va = P * (va \div P) + (va % P) /\ va % P \in 0..(P - 1)
    BY <1>1
  <2>2. x = P * (x \div P) + (x % P) /\ x % P \in 0..(P - 1)
    BY <1>1, <1>2
  <2> DEFINE a == va \div P
             b == x \div P
  <2>3. SUFFICES ASSUME a >= b + 1 PROVE FALSE
    BY <1>3
  <2>4. P * a >= P * (b + 1)
    BY <1>1, <1>3, <2>3
  <2>5. P * (b + 1) = P * b + P
    BY <1>1, <1>3
  <2>6. P * a \in Int /\ P * b \in Int
    BY <1>1, <1>3
  <2>7. QED BY <2>1, <2>2, <2>4, <2>5, <2>6, <1>1, <1>2
<1>5. floor(va) = va \div P /\ ceil(va + size) = x \div P
  BY <1>1 DEF floor, ceil, P
<1>6. QED BY <1>3, <1>4, <1>5

\* The area of a segment begins before it ends.
LEMMA SegmentArea ==
  ASSUME NEW elf, IsElf(elf), NEW i \in 1..Len(elf)
  PROVE  /\ IsArea(segment_area(elf[i]))
         /\ segment_area(elf[i]).end \in Nat
         /\ SomeSeq(elf[i].data)
<1>1. DOMAIN elf = 1..Len(elf)
  BY LenProperties DEF IsElf
<1>2. elf[i].va \in Nat /\ elf[i].mem_size \in Nat /\ elf[i].data \in Seq(ToSet(elf[i].data))
  BY <1>1 DEF IsElf
<1> DEFINE lo == floor(elf[i].va)
           hi == ceil(elf[i].va + elf[i].mem_size)
           a == segment_area(elf[i])
<1>3. lo \in Nat /\ hi \in Nat /\ lo <= hi
  BY <1>2, PageBounds
<1> HIDE DEF lo, hi
<1>4. a = [start |-> lo, end |-> hi, type |-> "Framed", perm |-> elf[i].perm \cup {"U"},
           data_frames |-> EmptyFrame]
  BY DEF segment_area, Framed, lo, hi
<1> HIDE DEF a
<1>5. IsArea(a) /\ a.end \in Nat
  BY <1>3, <1>4 DEF IsArea
<1>6. QED BY <1>2, <1>5 DEF SomeSeq, a

elf_turn(unused1, unused2, t, seg) == push(t, segment_area(seg), seg.data)

ElfLoop == INSTANCE Loops WITH op <- elf_turn, Inv <- BuildInv

\* An area from its two ends.
LEMMA FramedIsArea ==
  ASSUME NEW start \in Int, NEW end \in Int, start <= end, NEW perm
  PROVE  IsArea(Framed(start, end, perm))
  BY DEF IsArea, Framed

\* MemorySet::from_elf: every frame taken is claimed once by the new memory set.
LEMMA FromElf ==
  ASSUME NEW s, IsMachine(s), NEW R, s.panic = "none" => Exact(s.alloc, R), NEW o,
         NEW elf, IsElf(elf), NEW t, t = from_elf(s, elf)
  PROVE  OwnsSet(o, R, t) /\ (t.panic = "none" => s.panic = "none")
<1> DEFINE z == map_trampoline(new_bare(s))
           p == [o |-> o, R |-> R, s |-> s]
           loaded == ForEach(LAMBDA u, seg : push(u, segment_area(seg), seg.data), z, elf)
           stack == Framed(user_stack_bottom(elf), user_stack_bottom(elf) + USER_STACK_PAGES,
                         {"R", "W", "U"})
           trap == Framed(TRAP_CONTEXT, TRAMPOLINE, {"R", "W"})
           mid == push(loaded, stack, <<>>)
<1>1. t = push(mid, trap, <<>>)
  BY DEF from_elf
<1>2. loaded = ElfLoop!Run(0, 0, z, elf)
  BY Zenon DEF ForEach, ElfLoop!Run, elf_turn
<1>3. Len(elf) \in Nat /\ Len(elf) # 0
  BY EmptySeq, LenProperties DEF IsElf
<1>4. BuildInv(p, 0, z)
  BY Bare DEF BuildInv
<1> HIDE DEF z, p, loaded
<1>5. p.o = o /\ p.R = R /\ p.s = s
  BY DEF p
<1>6. ASSUME NEW i \in 1..Len(elf), NEW u, BuildInv(p, i - 1, u)
      PROVE  BuildInv(p, i, IF u.panic # "none" THEN u ELSE elf_turn(0, 0, u, elf[i]))
  <2> DEFINE w == elf_turn(0, 0, u, elf[i])
  <2>1. OwnsSet(p.o, p.R, w) /\ (w.panic = "none" => u.panic = "none")
    <3> DEFINE ar == segment_area(elf[i])
               da == elf[i].data
    <3>1. w = push(u, ar, da) /\ OwnsSet(p.o, p.R, u)
      BY <1>6 DEF elf_turn, BuildInv
    <3>2. IsArea(ar) /\ SomeSeq(da)
      BY SegmentArea
    <3> HIDE DEF w, ar, da
    <3>3. QED BY <3>1, <3>2, Push
  <2> HIDE DEF w
  <2>2. BuildInv(p, i, u) /\ BuildInv(p, i, w)
    BY <2>1, <1>6, BuildTurn
  <2>3. QED BY <2>2 DEF w
<1>7. BuildInv(p, Len(elf), ElfLoop!Run(0, 0, z, elf))
  <2>1. ElfLoop!Induction
    BY UpTo DEF ElfLoop!Induction
  <2>2. QED BY <2>1, <1>3, <1>4, <1>6, ElfLoop!LoopInvariant
<1>8. OwnsSet(o, R, loaded) /\ (loaded.panic = "none" => s.panic = "none")
  BY <1>2, <1>5, <1>7 DEF BuildInv
<1>9. IsArea(stack)
  <2>1. Last(elf) = elf[Len(elf)] /\ Len(elf) \in 1..Len(elf)
    BY <1>3 DEF Last
  <2>2. user_stack_bottom(elf) \in Nat
    BY <2>1, SegmentArea DEF user_stack_bottom
  <2>3. QED BY <2>2, StackAssumption, FramedIsArea
<1>10. IsArea(trap)
  <2>1. TRAMPOLINE \in Int
    <3>1. ENTRIES \in Int
      BY EntriesAssumption
    <3>2. ENTRIES * ENTRIES \in Int
      BY <3>1
    <3>3. ENTRIES * ENTRIES * ENTRIES \in Int
      BY <3>1, <3>2
    <3>4. QED BY <3>3 DEF TRAMPOLINE
  <2>2. TRAP_CONTEXT \in Int /\ TRAP_CONTEXT <= TRAMPOLINE
    BY <2>1 DEF TRAP_CONTEXT
  <2>3. QED BY <2>1, <2>2, FramedIsArea
<1> HIDE DEF stack, trap
<1>11. OwnsSet(o, R, mid) /\ (mid.panic = "none" => loaded.panic = "none")
  BY <1>8, <1>9, EmptyIsSeq, Push
<1> HIDE DEF mid
<1>12. OwnsSet(o, R, t) /\ (t.panic = "none" => mid.panic = "none")
  BY <1>1, <1>10, <1>11, EmptyIsSeq, Push
<1>13. QED BY <1>8, <1>11, <1>12

(***************************************************************************)
(* fork: the pages are copied after each area is mapped.                   *)
(***************************************************************************)
copy_turn(from, unused, t, vpn) == copy_page(t, from, vpn)

CopyLoop == INSTANCE Loops WITH op <- copy_turn, Inv <- StoreInv

\* copy_from_slice of a page, in from_existed_user, changes the memory alone.
LEMMA CopyPageOnlyStores ==
  ASSUME NEW s, IsMachine(s), NEW from, NEW vpn
  PROVE  OnlyStores(s, copy_page(s, from, vpn))
<1> DEFINE f == translate(s.mem, s.root, vpn)
           g == translate(s.mem, from.root, vpn)
           t == copy_page(s, from, vpn)
<1>1. CASE s.panic # "none"
  BY <1>1 DEF copy_page, OnlyStores, Keeps
<1>2. CASE s.panic = "none"
  <2>1. t = [s EXCEPT !.mem = [s.mem EXCEPT ![f] = s.mem[g]]]
    BY <1>2 DEF copy_page, IsMachine
  <2> HIDE DEF t
  <2>2. /\ IsMachine(t) /\ t.root = s.root /\ t.areas = s.areas /\ t.data_frames = s.data_frames
        /\ t.frames = s.frames /\ t.alloc = s.alloc /\ t.panic = s.panic
    BY <2>1 DEF IsMachine
  <2>3. QED BY <2>2 DEF OnlyStores, Keeps, t
<1>3. QED BY <1>1, <1>2

\* The loop over the pages of an area, in from_existed_user, changes the memory alone.
LEMMA CopyPages ==
  ASSUME NEW s, IsMachine(s), NEW from, NEW q, SomeSeq(q)
  PROVE  OnlyStores(s, CopyLoop!Run(from, 0, s, q))
<1>2. Len(q) \in Nat
  BY SomeSeqFacts
<1>3. StoreInv(s, 0, s)
  BY DEF StoreInv, OnlyStores, Keeps
<1>4. ASSUME NEW i \in 1..Len(q), NEW u, StoreInv(s, i - 1, u)
      PROVE  StoreInv(s, i, IF u.panic # "none" THEN u ELSE copy_turn(from, 0, u, q[i]))
  <2>1. OnlyStores(s, u) /\ IsMachine(u)
    BY <1>4 DEF StoreInv, OnlyStores
  <2> DEFINE w == copy_turn(from, 0, u, q[i])
  <2>2. OnlyStores(u, w)
    BY <2>1, CopyPageOnlyStores DEF copy_turn
  <2> HIDE DEF w
  <2>3. StoreInv(s, i, w) /\ StoreInv(s, i, u)
    BY <2>1, <2>2, OnlyStoresTrans DEF StoreInv
  <2>4. QED BY <2>3 DEF w
<1>5. StoreInv(s, Len(q), CopyLoop!Run(from, 0, s, q))
  <2>1. CopyLoop!Induction
    BY UpTo DEF CopyLoop!Induction
  <2>2. QED BY <2>1, <1>2, <1>3, <1>4, CopyLoop!LoopInvariant
<1>6. QED BY <1>5 DEF StoreInv

\* Stores keep the claims of a memory set.
LEMMA OnlyStoresOwns ==
  ASSUME NEW s, NEW o, NEW R, OwnsSet(o, R, s), NEW t, OnlyStores(s, t)
  PROVE  OwnsSet(o, R, t)
  BY DEF OwnsSet, Holds, OnlyStores, Keeps

\* One area of from_existed_user: pushed, then its pages copied.
LEMMA CopyArea ==
  ASSUME NEW s, NEW o, NEW R, OwnsSet(o, R, s), NEW from, NEW area, IsArea(area),
         NEW t, t = copy_area(s, from, area)
  PROVE  OwnsSet(o, R, t) /\ (t.panic = "none" => s.panic = "none")
<1> DEFINE u == push(s, area, <<>>)
           q == VPNRange(area.start, area.end)
<1>1. OwnsSet(o, R, u) /\ (u.panic = "none" => s.panic = "none")
  BY EmptyIsSeq, Push
<1>2. t = CopyLoop!Run(from, 0, u, q)
  BY Zenon DEF copy_area, ForEach, CopyLoop!Run, copy_turn
<1>3. IsMachine(u) /\ SomeSeq(q)
  BY <1>1, VPNRangeIsSeq DEF OwnsSet, Holds, IsArea
<1> HIDE DEF u, q
<1>4. OnlyStores(u, t)
  BY <1>2, <1>3, CopyPages
<1>5. t.panic = u.panic
  BY <1>4 DEF OnlyStores
<1>6. QED BY <1>1, <1>4, <1>5, OnlyStoresOwns

area_turn(from, unused, t, area) == copy_area(t, from, area)

ForkLoop == INSTANCE Loops WITH op <- area_turn, Inv <- BuildInv

\* MemorySet::from_existed_user: every frame taken is claimed once by the new memory set.
LEMMA FromExistedUser ==
  ASSUME NEW s, IsMachine(s), NEW R, s.panic = "none" => Exact(s.alloc, R), NEW o,
         NEW from, MappedAreas(from.areas), NEW t, t = from_existed_user(s, from)
  PROVE  OwnsSet(o, R, t) /\ (t.panic = "none" => s.panic = "none")
<1> DEFINE z == map_trampoline(new_bare(s))
           p == [o |-> o, R |-> R, s |-> s]
           q == from.areas
<1>1. t = ForkLoop!Run(from, 0, z, q)
  BY Zenon DEF from_existed_user, ForEach, ForkLoop!Run, area_turn
<1>2. BuildInv(p, 0, z)
  BY Bare DEF BuildInv
<1> HIDE DEF z, p, q
<1>3. p.o = o /\ p.R = R /\ p.s = s
  BY DEF p
<1>4. Len(q) \in Nat /\ \A i \in 1..Len(q) : IsArea(q[i])
  <2>1. SomeSeq(q) /\ \A i \in DOMAIN q : IsArea(q[i])
    BY DEF MappedAreas, MappedArea, q
  <2>2. QED BY <2>1, SomeSeqFacts
<1>5. ASSUME NEW i \in 1..Len(q), NEW u, BuildInv(p, i - 1, u)
      PROVE  BuildInv(p, i, IF u.panic # "none" THEN u ELSE area_turn(from, 0, u, q[i]))
  <2> DEFINE w == area_turn(from, 0, u, q[i])
  <2>1. OwnsSet(p.o, p.R, w) /\ (w.panic = "none" => u.panic = "none")
    <3>1. w = copy_area(u, from, q[i]) /\ OwnsSet(p.o, p.R, u) /\ IsArea(q[i])
      BY <1>4, <1>5 DEF area_turn, BuildInv
    <3> HIDE DEF w
    <3>2. QED BY <3>1, CopyArea
  <2> HIDE DEF w
  <2>2. BuildInv(p, i, u) /\ BuildInv(p, i, w)
    BY <2>1, <1>5, BuildTurn
  <2>3. QED BY <2>2 DEF w
<1>6. BuildInv(p, Len(q), ForkLoop!Run(from, 0, z, q))
  <2>1. ForkLoop!Induction
    BY UpTo DEF ForkLoop!Induction
  <2>2. QED BY <2>1, <1>2, <1>4, <1>5, ForkLoop!LoopInvariant
<1>7. QED BY <1>1, <1>3, <1>6 DEF BuildInv

-----------------------------------------------------------------------------
(***************************************************************************)
(* Frames go back.  Dropping changes the allocator and nothing else.       *)
(***************************************************************************)
OnlyFrees(s, t) ==
    /\ IsMachine(t) /\ Keeps(s, t)
    /\ t.frames = s.frames /\ t.mem = s.mem /\ t.panic = s.panic

\* The drop of a FrameTracker whose frame is claimed does not panic.
LEMMA FrameDealloc ==
  ASSUME NEW s, IsMachine(s), s.panic = "none", NEW C, Exact(s.alloc, C), NEW c \in C,
         NEW t, t = frame_dealloc(s, Frame(c))
  PROVE  OnlyFrees(s, t) /\ Exact(t.alloc, C \ {c})
<1>1. ~dealloc_fails(s.alloc, Frame(c)) /\ Exact(dealloc(s.alloc, Frame(c)), C \ {c})
  BY ExactFree
<1> DEFINE d == dealloc(s.alloc, Frame(c))
<1>2. t = [s EXCEPT !.alloc = d]
  BY <1>1 DEF frame_dealloc, IsMachine
<1> HIDE DEF d
<1>3. /\ IsMachine(t) /\ t.root = s.root /\ t.areas = s.areas /\ t.data_frames = s.data_frames
      /\ t.frames = s.frames /\ t.mem = s.mem /\ t.panic = s.panic /\ t.alloc = d
  BY <1>2 DEF IsMachine
<1>4. QED BY <1>1, <1>3 DEF OnlyFrees, Keeps, d

\* Drops one after the other.
LEMMA OnlyFreesTrans ==
  ASSUME NEW s, NEW t, OnlyFrees(s, t), NEW u, OnlyFrees(t, u)
  PROVE  OnlyFrees(s, u)
  BY DEF OnlyFrees, Keeps

\* The claims of a vector of frames, from the i-th on.
ClaimsFrom(K, i, n) == {K[j] : j \in i..n}

free_turn(unused1, unused2, t, ppn) == frame_dealloc(t, ppn)

FreeInv(p, i, t) ==
    OnlyFrees(p.s, t) /\ Exact(t.alloc, p.C \cup ClaimsFrom(p.K, i + 1, p.n))

FreeLoop == INSTANCE Loops WITH op <- free_turn, Inv <- FreeInv

\* The drop of a vector of frames, each of them claimed once.
LEMMA FreeAll ==
  ASSUME NEW s, IsMachine(s), s.panic = "none", NEW C, NEW n \in Nat, NEW K, NEW q, Len(q) = n,
         \A j \in 1..n : q[j] = Frame(K[j]) /\ K[j] \notin C,
         \A i, j \in 1..n : K[i] = K[j] => i = j,
         Exact(s.alloc, C \cup ClaimsFrom(K, 1, n)),
         NEW t, t = free(s, q)
  PROVE  OnlyFrees(s, t) /\ Exact(t.alloc, C)
<1> DEFINE p == [s |-> s, C |-> C, K |-> K, n |-> n]
<1>1. t = FreeLoop!Run(0, 0, s, q)
  BY Zenon DEF free, ForEach, FreeLoop!Run, free_turn
<1>2. FreeInv(p, 0, s)
  <2>1. OnlyFrees(s, s)
    BY DEF OnlyFrees, Keeps
  <2>2. QED BY <2>1 DEF FreeInv
<1>3. p.s = s /\ p.C = C /\ p.K = K /\ p.n = n
  OBVIOUS
<1> HIDE DEF p
<1>4. ASSUME NEW i \in 1..Len(q), NEW u, FreeInv(p, i - 1, u)
      PROVE  FreeInv(p, i, IF u.panic # "none" THEN u ELSE free_turn(0, 0, u, q[i]))
  <2> DEFINE w == frame_dealloc(u, q[i])
             D == C \cup ClaimsFrom(K, i, n)
  <2>1. i \in 1..n /\ i - 1 + 1 = i
    OBVIOUS
  <2>2. OnlyFrees(s, u) /\ Exact(u.alloc, D)
    BY <1>3, <1>4, <2>1 DEF FreeInv
  <2>3. IsMachine(u) /\ u.panic = "none"
    BY <2>2 DEF OnlyFrees
  <2>4. K[i] \in D /\ q[i] = Frame(K[i])
    BY <2>1 DEF ClaimsFrom
  <2>5. D \ {K[i]} = C \cup ClaimsFrom(K, i + 1, n)
    <3>1. i..n = {i} \cup (i + 1)..n /\ i \notin (i + 1)..n /\ (i + 1)..n \subseteq 1..n
      BY <2>1
    <3>2. QED BY <3>1, <2>1 DEF ClaimsFrom
  <2> HIDE DEF D
  <2>6. OnlyFrees(u, w) /\ Exact(w.alloc, D \ {K[i]})
    BY <2>2, <2>3, <2>4, FrameDealloc
  <2> HIDE DEF w
  <2>7. FreeInv(p, i, w)
    <3>1. OnlyFrees(s, w)
      BY <2>2, <2>6, OnlyFreesTrans
    <3>2. QED BY <3>1, <2>5, <2>6, <1>3 DEF FreeInv
  <2>8. QED BY <2>3, <2>7 DEF w, free_turn
<1>5. FreeInv(p, Len(q), FreeLoop!Run(0, 0, s, q))
  <2>1. FreeLoop!Induction
    BY UpTo DEF FreeLoop!Induction
  <2>2. QED BY <2>1, <1>2, <1>4, FreeLoop!LoopInvariant
<1>6. OnlyFrees(s, t) /\ Exact(t.alloc, C \cup ClaimsFrom(K, n + 1, n))
  BY <1>1, <1>3, <1>5 DEF FreeInv
<1>7. C \cup ClaimsFrom(K, n + 1, n) = C
  BY DEF ClaimsFrom
<1>8. QED BY <1>6, <1>7

\* The drop of PageTable.frames.
LEMMA FreeTables ==
  ASSUME NEW s, IsMachine(s), s.panic = "none", NEW C, NEW o, NEW frames, SomeSeq(frames),
         C \cap Tables(o, frames) = {}, Exact(s.alloc, C \cup Tables(o, frames)),
         NEW t, t = free(s, frames)
  PROVE  OnlyFrees(s, t) /\ Exact(t.alloc, C)
<1> DEFINE n == Len(frames)
           K == [j \in 1..n |-> Claim(o, "table", j, frames[j])]
<1>1. n \in Nat /\ DOMAIN frames = 1..n
  BY SomeSeqFacts
<1> HIDE DEF n
<1>2. ClaimsFrom(K, 1, n) = Tables(o, frames)
  BY <1>1 DEF Tables, ClaimsFrom
<1>3. \A j \in 1..n : K[j] \in Tables(o, frames)
  BY <1>2 DEF ClaimsFrom
<1>4. \A j \in 1..n : frames[j] = Frame(K[j]) /\ K[j] \notin C
  BY <1>3, ClaimFacts
<1>5. \A i, j \in 1..n : K[i] = K[j] => i = j
  BY ClaimFacts
<1> HIDE DEF K
<1>6. Exact(s.alloc, C \cup ClaimsFrom(K, 1, n)) /\ Len(frames) = n
  BY <1>2 DEF n
<1>7. QED BY <1>1, <1>4, <1>5, <1>6, FreeAll

\* The drop of the data_frames of an area.
LEMMA FreePages ==
  ASSUME NEW s, IsMachine(s), s.panic = "none", NEW C, NEW o, NEW k, NEW area, MappedArea(area),
         C \cap Pages(o, k, area.data_frames) = {},
         Exact(s.alloc, C \cup Pages(o, k, area.data_frames)),
         NEW t, t = free(s, area_frames(area))
  PROVE  OnlyFrees(s, t) /\ Exact(t.alloc, C)
<1> DEFINE a == area.start
           df == area.data_frames
           n == IF area.type = "Identical" THEN 0 ELSE area.end - area.start
           q == area_frames(area)
           K == [j \in 1..n |-> Claim(o, "area", <<k, a + j - 1>>, df[a + j - 1])]
<1>1. a \in Int /\ n \in Nat /\ Len(q) = n /\ \A j \in 1..n : q[j] = df[a + j - 1]
  <2>1. a \in Int /\ area.end \in Int /\ a <= area.end
    BY DEF MappedArea, IsArea
  <2>2. CASE area.type = "Identical"
    BY <2>1, <2>2 DEF area_frames
  <2>3. CASE area.type # "Identical"
    <3>1. n = area.end - a /\ n \in Nat
      BY <2>1, <2>3
    <3>2. q = [i \in 1..(area.end - a) |-> df[a + i - 1]]
      BY <2>3 DEF area_frames
    <3> HIDE DEF a, n, df, q
    <3>3. q = [i \in 1..n |-> df[a + i - 1]]
      BY <3>1, <3>2
    <3>4. Len(q) = n
      BY <3>1, <3>3
    <3>5. QED BY <2>1, <3>1, <3>3, <3>4
  <2>4. QED BY <2>2, <2>3
<1>2. \A j \in 1..n : a + j - 1 \in DOMAIN df
  <2>1. CASE area.type = "Identical"
    BY <2>1
  <2>2. CASE area.type # "Identical"
    BY <2>2 DEF MappedArea, IsArea
  <2>3. QED BY <2>1, <2>2
<1>3. \A v \in DOMAIN df : v \in Int /\ v - a + 1 \in 1..n /\ v = a + (v - a + 1) - 1
  <2>1. CASE area.type = "Identical"
    BY <2>1 DEF MappedArea
  <2>2. CASE area.type # "Identical"
    BY <2>2 DEF MappedArea, IsArea
  <2>3. QED BY <2>1, <2>2
<1> HIDE DEF a, n, df, q
<1>4. ClaimsFrom(K, 1, n) = Pages(o, k, df)
  <2>1. ASSUME NEW j \in 1..n PROVE K[j] \in Pages(o, k, df)
    BY <1>2 DEF Pages
  <2>2. ASSUME NEW c \in Pages(o, k, df) PROVE c \in ClaimsFrom(K, 1, n)
    <3>1. PICK v \in DOMAIN df : c = Claim(o, "area", <<k, v>>, df[v])
      BY DEF Pages
    <3>2. v - a + 1 \in 1..n /\ v = a + (v - a + 1) - 1
      BY <1>3
    <3>3. c = K[v - a + 1]
      BY <3>1, <3>2
    <3>4. QED BY <3>2, <3>3 DEF ClaimsFrom
  <2>3. QED BY <2>1, <2>2 DEF ClaimsFrom
<1>5. \A j \in 1..n : q[j] = Frame(K[j]) /\ K[j] \notin C
  BY <1>1, <1>4, ClaimFacts DEF df, ClaimsFrom
<1>6. \A i, j \in 1..n : K[i] = K[j] => i = j
  <2>1. ASSUME NEW i \in 1..n, NEW j \in 1..n, K[i] = K[j] PROVE i = j
    <3>1. <<k, a + i - 1>> = <<k, a + j - 1>>
      BY <2>1, ClaimFacts
    <3>2. a + i - 1 = a + j - 1
      BY <3>1
    <3>3. QED BY <3>2, <1>1
  <2>2. QED BY <2>1
<1> HIDE DEF K
<1>7. Exact(s.alloc, C \cup ClaimsFrom(K, 1, n))
  BY <1>4 DEF df
<1>8. QED BY <1>1, <1>5, <1>6, <1>7, FreeAll DEF q

(***************************************************************************)
(* The areas of a memory set are dropped in order: the claims of those     *)
(* that are left.                                                          *)
(***************************************************************************)
LaterAreas(o, areas, i) ==
    UNION {Pages(o, k, areas[k].data_frames) : k \in {j \in DOMAIN areas : j > i}}

drop_turn(unused1, unused2, t, area) == free(t, area_frames(area))

DropInv(p, i, t) ==
    OnlyFrees(p.s, t) /\ Exact(t.alloc, p.C \cup LaterAreas(p.o, p.areas, i))

DropLoop == INSTANCE Loops WITH op <- drop_turn, Inv <- DropInv

\* Claims of others than o.
OfOthers(o, C) == \A c \in C : c[1] # o

\* The owner of the claims of an area.
LEMMA PagesOwner ==
  ASSUME NEW o, NEW k, NEW df, NEW c \in Pages(o, k, df)
  PROVE  c[1] = o
<1>1. PICK v \in DOMAIN df : c = Claim(o, "area", <<k, v>>, df[v])
  BY DEF Pages
<1>2. QED BY <1>1, ClaimFacts

\* Two areas of a memory set claim different things.
LEMMA PagesDisjoint ==
  ASSUME NEW o, NEW k, NEW df, NEW j, NEW eg, k # j
  PROVE  Pages(o, k, df) \cap Pages(o, j, eg) = {}
<1> SUFFICES ASSUME NEW c \in Pages(o, k, df), c \in Pages(o, j, eg) PROVE FALSE
  OBVIOUS
<1>1. PICK v \in DOMAIN df : c = Claim(o, "area", <<k, v>>, df[v])
  BY DEF Pages
<1>2. PICK w \in DOMAIN eg : c = Claim(o, "area", <<j, w>>, eg[w])
  BY DEF Pages
<1>3. <<k, v>> = <<j, w>>
  BY <1>1, <1>2, ClaimFacts
<1>4. QED BY <1>3

\* Vec::clear of the areas gives back the frames of all areas and nothing else.
LEMMA DropAreas ==
  ASSUME NEW s, IsMachine(s), s.panic = "none", NEW C, NEW o, NEW ms,
         MappedAreas(ms.areas), C \cap AreasClaims(o, ms.areas) = {},
         Exact(s.alloc, C \cup AreasClaims(o, ms.areas)),
         NEW t, t = drop_areas(s, ms)
  PROVE  OnlyFrees(s, t) /\ Exact(t.alloc, C)
<1> DEFINE q == ms.areas
           p == [s |-> s, C |-> C, o |-> o, areas |-> q]
<1>1. t = DropLoop!Run(0, 0, s, q)
  BY Zenon DEF drop_areas, ForEach, DropLoop!Run, drop_turn
<1>2. MappedAreas(q) /\ Exact(s.alloc, C \cup AreasClaims(o, q)) /\ C \cap AreasClaims(o, q) = {}
  OBVIOUS
<1> HIDE DEF q
<1>3. p.s = s /\ p.C = C /\ p.o = o /\ p.areas = q
  OBVIOUS
<1> HIDE DEF p
<1>4. /\ Len(q) \in Nat /\ DOMAIN q = 1..Len(q)
      /\ \A i \in 1..Len(q) : MappedArea(q[i])
  BY <1>2, SomeSeqFacts DEF MappedAreas
<1>5. DropInv(p, 0, s)
  <2>1. OnlyFrees(s, s)
    BY DEF OnlyFrees, Keeps
  <2>2. {j \in DOMAIN q : j > 0} = DOMAIN q
    BY <1>4
  <2>3. LaterAreas(o, q, 0) = AreasClaims(o, q)
    BY <2>2 DEF LaterAreas, AreasClaims
  <2>4. QED BY <2>1, <2>3, <1>2, <1>3 DEF DropInv
<1>6. ASSUME NEW i \in 1..Len(q), NEW u, DropInv(p, i - 1, u)
      PROVE  DropInv(p, i, IF u.panic # "none" THEN u ELSE drop_turn(0, 0, u, q[i]))
  <2> DEFINE w == free(u, area_frames(q[i]))
             D == C \cup LaterAreas(o, q, i)
             P == Pages(o, i, q[i].data_frames)
  <2>1. OnlyFrees(s, u) /\ Exact(u.alloc, C \cup LaterAreas(o, q, i - 1))
    BY <1>3, <1>6 DEF DropInv
  <2>2. IsMachine(u) /\ u.panic = "none"
    BY <2>1 DEF OnlyFrees
  <2>3. LaterAreas(o, q, i - 1) = LaterAreas(o, q, i) \cup P
    <3>1. {j \in DOMAIN q : j > i - 1} = {j \in DOMAIN q : j > i} \cup {i}
      BY <1>4
    <3>2. QED BY <3>1 DEF LaterAreas
  <2>4. D \cap P = {}
    <3>1. ASSUME NEW c \in P, c \in C PROVE FALSE
      BY <3>1, <1>2, <1>4 DEF AreasClaims
    <3>2. ASSUME NEW c \in P, c \in LaterAreas(o, q, i) PROVE FALSE
      <4>1. PICK k \in DOMAIN q : k > i /\ c \in Pages(o, k, q[k].data_frames)
        BY <3>2 DEF LaterAreas
      <4>2. k # i
        BY <4>1, <1>4
      <4>3. QED BY <3>2, <4>1, <4>2, PagesDisjoint
    <3>3. QED BY <3>1, <3>2
  <2>5. Exact(u.alloc, D \cup P)
    <3>1. C \cup LaterAreas(o, q, i - 1) = D \cup P
      BY <2>3
    <3>2. QED BY <2>1, <3>1
  <2> HIDE DEF D
  <2>6. OnlyFrees(u, w) /\ Exact(w.alloc, D)
    BY <2>2, <2>4, <2>5, <1>4, FreePages
  <2> HIDE DEF w
  <2>7. OnlyFrees(s, w)
    BY <2>1, <2>6, OnlyFreesTrans
  <2>8. DropInv(p, i, w)
    BY <2>6, <2>7, <1>3 DEF DropInv, D
  <2>9. QED BY <2>2, <2>8 DEF w, drop_turn
<1>7. DropInv(p, Len(q), DropLoop!Run(0, 0, s, q))
  <2>1. DropLoop!Induction
    BY UpTo DEF DropLoop!Induction
  <2>2. QED BY <2>1, <1>4, <1>5, <1>6, DropLoop!LoopInvariant
<1>8. OnlyFrees(s, t) /\ Exact(t.alloc, C \cup LaterAreas(o, q, Len(q)))
  BY <1>1, <1>3, <1>7 DEF DropInv
<1>9. C \cup LaterAreas(o, q, Len(q)) = C
  <2>1. {j \in DOMAIN q : j > Len(q)} = {}
    BY <1>4
  <2>2. QED BY <2>1 DEF LaterAreas
<1>10. QED BY <1>8, <1>9

(***************************************************************************)
(* A memory set that is dropped gives all its frames back.                 *)
(***************************************************************************)
LEMMA TablesApart ==
  ASSUME NEW o, NEW frames, NEW areas
  PROVE  AreasClaims(o, areas) \cap Tables(o, frames) = {}
<1> SUFFICES ASSUME NEW c \in Tables(o, frames), NEW k \in DOMAIN areas,
                    c \in Pages(o, k, areas[k].data_frames)
             PROVE  FALSE
  BY DEF AreasClaims
<1>1. PICK i \in DOMAIN frames : c = Claim(o, "table", i, frames[i])
  BY DEF Tables
<1> DEFINE df == areas[k].data_frames
<1>2. PICK v \in DOMAIN df : c = Claim(o, "area", <<k, v>>, df[v])
  BY DEF Pages
<1>3. QED BY <1>1, <1>2, ClaimFacts

\* The owner of the claims of a page table.
LEMMA TablesOwner ==
  ASSUME NEW o, NEW frames, NEW c \in Tables(o, frames)
  PROVE  c[1] = o
  BY ClaimFacts DEF Tables

\* The drop of a MemorySet gives back all its frames and nothing else, and does not panic.
LEMMA DropMemorySet ==
  ASSUME NEW s, IsMachine(s), s.panic = "none", NEW C, NEW o, OfOthers(o, C), NEW ms,
         SomeSeq(ms.frames), MappedAreas(ms.areas),
         Exact(s.alloc, C \cup Tables(o, ms.frames) \cup AreasClaims(o, ms.areas)),
         NEW t, t = drop_memory_set(s, ms)
  PROVE  OnlyFrees(s, t) /\ Exact(t.alloc, C)
<1> DEFINE D == C \cup AreasClaims(o, ms.areas)
           u == free(s, ms.frames)
<1>1. D \cap Tables(o, ms.frames) = {}
  <2>1. ASSUME NEW c \in C, c \in Tables(o, ms.frames) PROVE FALSE
    BY <2>1, TablesOwner DEF OfOthers
  <2>2. QED BY <2>1, TablesApart
<1>2. Exact(s.alloc, D \cup Tables(o, ms.frames))
  <2>1. D \cup Tables(o, ms.frames) = C \cup Tables(o, ms.frames) \cup AreasClaims(o, ms.areas)
    OBVIOUS
  <2>2. QED BY <2>1
<1> HIDE DEF D
<1>3. OnlyFrees(s, u) /\ Exact(u.alloc, D)
  BY <1>1, <1>2, FreeTables
<1> HIDE DEF u
<1>4. t = drop_areas(u, ms) /\ IsMachine(u) /\ u.panic = "none"
  BY <1>3 DEF drop_memory_set, OnlyFrees, u
<1>5. C \cap AreasClaims(o, ms.areas) = {}
  <2>1. ASSUME NEW c \in C, NEW k, c \in Pages(o, k, ms.areas[k].data_frames) PROVE FALSE
    BY <2>1, PagesOwner DEF OfOthers
  <2>2. QED BY <2>1 DEF AreasClaims
<1>6. OnlyFrees(u, t) /\ Exact(t.alloc, C)
  BY <1>3, <1>4, <1>5, DropAreas DEF D
<1>7. QED BY <1>3, <1>6, OnlyFreesTrans

(***************************************************************************)
(* An area is unmapped and removed.  The areas behind it move up, so their *)
(* claims get other names.                                                 *)
(***************************************************************************)
LEMMA Unmap ==
  ASSUME NEW s, IsMachine(s), NEW vpn, NEW t, t = unmap(s, vpn)
  PROVE  /\ IsMachine(t) /\ Keeps(s, t) /\ t.frames = s.frames /\ t.alloc = s.alloc
         /\ t.panic = "none" => s.panic = "none"
<1> DEFINE f == find_pte(s.mem, s.root, vpn)
           i == indexes(vpn)[3]
<1>1. CASE s.panic # "none"
  BY <1>1 DEF unmap, Keeps
<1>2. CASE s.panic = "none" /\ (f = NoTable \/ ~is_valid(Word(s.mem, f, i)))
  <2>1. t = [s EXCEPT !.panic = "unmap"]
    BY <1>2 DEF unmap, Fail
  <2>2. /\ IsMachine(t) /\ t.root = s.root /\ t.areas = s.areas /\ t.data_frames = s.data_frames
        /\ t.frames = s.frames /\ t.alloc = s.alloc
    BY <2>1 DEF IsMachine
  <2>3. QED BY <2>2, <1>2 DEF Keeps
<1>3. CASE s.panic = "none" /\ f # NoTable /\ is_valid(Word(s.mem, f, i))
  <2>1. t = [s EXCEPT !.mem = [s.mem EXCEPT ![f] = Stored(s.mem[f], i, ZERO)]]
    BY <1>3 DEF unmap, IsMachine
  <2>2. /\ IsMachine(t) /\ t.root = s.root /\ t.areas = s.areas /\ t.data_frames = s.data_frames
        /\ t.frames = s.frames /\ t.alloc = s.alloc
    BY <2>1 DEF IsMachine
  <2>3. QED BY <2>2, <1>3 DEF Keeps
<1>4. QED BY <1>1, <1>2, <1>3

\* The claims of an area from the page v on.
LaterPages(o, k, df, v) == {Claim(o, "area", <<k, w>>, df[w]) : w \in {x \in DOMAIN df : x >= v}}

unmap_turn(area, unused, t, vpn) == unmap_one(t, area, vpn)

UnmapInv(p, i, t) ==
    /\ IsMachine(t) /\ Keeps(p.s, t) /\ t.frames = p.s.frames
    /\ t.panic = "none" =>
         Exact(t.alloc, p.C \cup LaterPages(p.o, p.k, p.area.data_frames, p.area.start + i))

UnmapLoop == INSTANCE Loops WITH op <- unmap_turn, Inv <- UnmapInv

\* MapArea::unmap gives back the frames of the area, unless a page was not mapped.
LEMMA AreaUnmap ==
  ASSUME NEW s, IsMachine(s), s.panic = "none", NEW C, NEW o, NEW k, NEW area, MappedArea(area),
         C \cap Pages(o, k, area.data_frames) = {},
         Exact(s.alloc, C \cup Pages(o, k, area.data_frames)),
         NEW t, t = area_unmap(s, area)
  PROVE  /\ IsMachine(t) /\ Keeps(s, t) /\ t.frames = s.frames
         /\ t.panic = "none" => Exact(t.alloc, C)
<1> DEFINE q == VPNRange(area.start, area.end)
           p == [s |-> s, C |-> C, o |-> o, k |-> k, area |-> area]
           n == area.end - area.start
           df == area.data_frames
           a == area.start
<1>1. /\ a \in Int /\ n \in Nat
      /\ Len(q) = n /\ \A i \in 1..n : q[i] = a + i - 1
  BY VPNRangeIsSeq DEF MappedArea, IsArea
<1>2. t = UnmapLoop!Run(area, 0, s, q)
  BY Zenon DEF area_unmap, ForEach, UnmapLoop!Run, unmap_turn
<1>3. p.s = s /\ p.C = C /\ p.o = o /\ p.k = k /\ p.area = area
  OBVIOUS
<1> HIDE DEF p, q
<1>4. area.type # "Identical" => DOMAIN df = a..(a + n - 1)
  BY DEF MappedArea, IsArea
<1>5. area.type = "Identical" => DOMAIN df = {}
  BY DEF MappedArea
<1> HIDE DEF n, df, a
<1>6. UnmapInv(p, 0, s)
  <2>1. {x \in DOMAIN df : x >= a + 0} = DOMAIN df
    <3>1. CASE area.type = "Identical"
      BY <3>1, <1>5
    <3>2. CASE area.type # "Identical"
      BY <3>2, <1>1, <1>4
    <3>3. QED BY <3>1, <3>2
  <2>2. LaterPages(o, k, df, a + 0) = Pages(o, k, df)
    BY <2>1 DEF LaterPages, Pages
  <2>3. QED BY <2>2, <1>3 DEF UnmapInv, Keeps, df, a
<1>7. ASSUME NEW i \in 1..Len(q), NEW u, UnmapInv(p, i - 1, u)
      PROVE  UnmapInv(p, i, IF u.panic # "none" THEN u ELSE unmap_turn(area, 0, u, q[i]))
  <2>1. /\ IsMachine(u) /\ Keeps(s, u) /\ u.frames = s.frames
        /\ u.panic = "none" => Exact(u.alloc, C \cup LaterPages(o, k, df, a + i - 1))
    <3>1. a + (i - 1) = a + i - 1
      BY <1>1
    <3>2. QED BY <3>1, <1>3, <1>7 DEF UnmapInv, df, a
  <2>2. CASE u.panic # "none"
    BY <2>1, <2>2, <1>3 DEF UnmapInv
  <2>3. CASE u.panic = "none"
    <3> DEFINE vpn == q[i]
               v == IF area.type = "Identical" THEN u ELSE frame_dealloc(u, df[vpn])
               w == unmap(v, vpn)
               D == C \cup LaterPages(o, k, df, a + i - 1)
               E == C \cup LaterPages(o, k, df, a + i)
    <3>1. vpn = a + i - 1 /\ vpn \in Int /\ i \in 1..n
      BY <1>1
    <3>2. unmap_turn(area, 0, u, q[i]) = w
      BY DEF unmap_turn, unmap_one, df
    <3> HIDE DEF vpn
    <3>3. IsMachine(v) /\ Keeps(u, v) /\ v.frames = u.frames /\ Exact(v.alloc, E)
      <4>1. CASE area.type = "Identical"
        <5>1. {x \in DOMAIN df : x >= a + i} = {x \in DOMAIN df : x >= a + i - 1}
          BY <4>1, <1>5
        <5>2. LaterPages(o, k, df, a + i) = LaterPages(o, k, df, a + i - 1)
          BY <5>1 DEF LaterPages
        <5>3. QED BY <5>2, <4>1, <2>1, <2>3 DEF Keeps
      <4>2. CASE area.type # "Identical"
        <5> DEFINE c == Claim(o, "area", <<k, vpn>>, df[vpn])
        <5>1. vpn \in DOMAIN df /\ {x \in DOMAIN df : x >= a + i - 1} = {x \in DOMAIN df : x >= a + i} \cup {vpn}
          BY <4>2, <3>1, <1>1, <1>4
        <5>2. LaterPages(o, k, df, a + i - 1) = LaterPages(o, k, df, a + i) \cup {c}
          BY <5>1 DEF LaterPages
        <5>3. c \notin LaterPages(o, k, df, a + i)
          <6> SUFFICES ASSUME NEW x \in DOMAIN df, x >= a + i, c = Claim(o, "area", <<k, x>>, df[x])
                       PROVE FALSE
            BY DEF LaterPages
          <6>1. <<k, vpn>> = <<k, x>>
            BY ClaimFacts
          <6>2. x = vpn
            BY <6>1
          <6>3. QED BY <6>2, <3>1, <1>1
        <5>4. c \in Pages(o, k, df)
          BY <5>1 DEF Pages
        <5>5. c \notin C
          BY <5>4 DEF df
        <5>6. c \in D /\ D \ {c} = E
          BY <5>2, <5>3, <5>5
        <5>7. Frame(c) = df[vpn]
          BY ClaimFacts
        <5> HIDE DEF c, D
        <5>8. v = frame_dealloc(u, Frame(c))
          BY <4>2, <5>7
        <5>9. OnlyFrees(u, v) /\ Exact(v.alloc, D \ {c})
          BY <5>6, <5>8, <2>1, <2>3, FrameDealloc DEF D
        <5>10. QED BY <5>6, <5>9 DEF OnlyFrees
      <4>3. QED BY <4>1, <4>2
    <3> HIDE DEF v
    <3>4. /\ IsMachine(w) /\ Keeps(v, w) /\ w.frames = v.frames /\ w.alloc = v.alloc
      BY <3>3, Unmap
    <3> HIDE DEF w
    <3>5. IsMachine(w) /\ Keeps(s, w) /\ w.frames = s.frames /\ Exact(w.alloc, E)
      BY <2>1, <3>3, <3>4 DEF Keeps
    <3>6. UnmapInv(p, i, w)
      BY <3>5, <1>3 DEF UnmapInv, df, a
    <3>7. QED BY <3>2, <3>6, <2>3
  <2>4. QED BY <2>2, <2>3
<1>8. UnmapInv(p, Len(q), UnmapLoop!Run(area, 0, s, q))
  <2>1. UnmapLoop!Induction
    BY UpTo DEF UnmapLoop!Induction
  <2>2. Len(q) \in Nat
    BY <1>1
  <2>3. QED BY <2>1, <2>2, <1>6, <1>7, UnmapLoop!LoopInvariant
<1>9. /\ IsMachine(t) /\ Keeps(s, t) /\ t.frames = s.frames
      /\ t.panic = "none" => Exact(t.alloc, C \cup LaterPages(o, k, df, a + n))
  BY <1>1, <1>2, <1>3, <1>8 DEF UnmapInv, df, a
<1>10. C \cup LaterPages(o, k, df, a + n) = C
  <2>1. {x \in DOMAIN df : x >= a + n} = {}
    BY <1>1, <1>4, <1>5
  <2>2. QED BY <2>1 DEF LaterPages
<1>11. QED BY <1>9, <1>10

\* Where an element was before the i-th one was removed.
Was(i, j) == IF j < i THEN j ELSE j + 1

\* Vec::remove: the elements behind the removed one move up.
LEMMA RemoveAtSome ==
  ASSUME NEW q, SomeSeq(q), NEW i \in 1..Len(q)
  PROVE  /\ SomeSeq(RemoveAt(q, i))
         /\ DOMAIN RemoveAt(q, i) = 1..(Len(q) - 1)
         /\ \A j \in 1..(Len(q) - 1) : RemoveAt(q, i)[j] = q[Was(i, j)]
<1>1. PICK S : q \in Seq(S)
  BY DEF SomeSeq
<1> DEFINE l == SubSeq(q, 1, i - 1)
           r == SubSeq(q, i + 1, Len(q))
           c == RemoveAt(q, i)
<1>2. DOMAIN q = 1..Len(q) /\ Len(q) \in Nat /\ \A j \in 1..Len(q) : q[j] \in S
  BY <1>1, LenProperties, ElementOfSeq
<1>3. /\ l \in Seq(S) /\ Len(l) = i - 1
      /\ \A j \in 1..(i - 1) : l[j] = q[j]
  BY <1>1, <1>2, SubSeqProperties
<1>4. /\ r \in Seq(S) /\ Len(r) = Len(q) - i
      /\ \A j \in 1..(Len(q) - i) : r[j] = q[i + j]
  <2>1. r \in Seq(S) /\ Len(r) = Len(q) - i
    <3>1. i + 1 \in Int /\ Len(q) \in Int /\ \A j \in (i + 1)..Len(q) : q[j] \in S
      BY <1>2
    <3>2. r \in Seq(S) /\ Len(r) = IF i + 1 <= Len(q) THEN Len(q) - (i + 1) + 1 ELSE 0
      BY <3>1, SubSeqProperties
    <3> HIDE DEF r
    <3>3. \A n \in Nat : \A j \in 1..n : n - j = IF j + 1 <= n THEN n - (j + 1) + 1 ELSE 0
      OBVIOUS
    <3>4. Len(q) - i = IF i + 1 <= Len(q) THEN Len(q) - (i + 1) + 1 ELSE 0
      BY <3>3, <1>2
    <3>5. QED BY <3>2, <3>4
  <2>2. ASSUME NEW j \in 1..(Len(q) - i) PROVE r[j] = q[i + j]
    <3>1. i + 1 \in 1..(Len(q) + 1) /\ Len(q) \in i..Len(q) /\ i + 1 <= Len(q)
      BY <1>2
    <3>2. j \in 1..(Len(q) - (i + 1) + 1) /\ (i + 1) + j - 1 = i + j
      BY <1>2
    <3>3. r[j] = q[(i + 1) + j - 1]
      BY <3>1, <3>2, <1>1, <1>2, SubSeqProperties
    <3>4. QED BY <3>2, <3>3
  <2>3. QED BY <2>1, <2>2
<1>5. c = l \o r
  BY DEF RemoveAt
<1> HIDE DEF l, r, c
<1>6. /\ c \in Seq(S) /\ Len(c) = Len(q) - 1
      /\ \A j \in 1..Len(l) : c[j] = l[j]
      /\ \A j \in (Len(l) + 1)..(Len(l) + Len(r)) : c[j] = r[j - Len(l)]
  <2>1. c \in Seq(S) /\ Len(c) = Len(l) + Len(r)
    BY <1>3, <1>4, <1>5, ConcatProperties
  <2>2. \A j \in 1..Len(l) : c[j] = l[j]
    BY <1>3, <1>4, <1>5, ConcatProperties
  <2>3. \A j \in (Len(l) + 1)..(Len(l) + Len(r)) : c[j] = r[j - Len(l)]
    BY <1>3, <1>4, <1>5, ConcatProperties
  <2>4. Len(l) + Len(r) = Len(q) - 1
    BY <1>2, <1>3, <1>4
  <2>5. QED BY <2>1, <2>2, <2>3, <2>4
<1>7. ASSUME NEW j \in 1..(Len(q) - 1)
      PROVE  c[j] = q[Was(i, j)]
  <2>1. CASE j < i
    BY <2>1, <1>2, <1>3, <1>6 DEF Was
  <2>2. CASE j >= i
    <3>1. j - (i - 1) \in 1..(Len(q) - i) /\ j \in (Len(l) + 1)..(Len(l) + Len(r))
      BY <2>2, <1>2, <1>3, <1>4
    <3>2. c[j] = r[j - (i - 1)] /\ r[j - (i - 1)] = q[i + (j - (i - 1))]
      BY <3>1, <1>3, <1>4, <1>6
    <3>3. i + (j - (i - 1)) = j + 1
      BY <1>2
    <3>4. QED BY <3>2, <3>3, <2>2 DEF Was
  <2>3. QED BY <2>1, <2>2
<1>8. SomeSeq(c) /\ DOMAIN c = 1..(Len(q) - 1)
  BY <1>6, LenProperties DEF SomeSeq
<1>9. QED BY <1>7, <1>8 DEF c

\* The claims of all areas but the i-th.
OtherAreas(o, areas, i) ==
    UNION {Pages(o, k, areas[k].data_frames) : k \in DOMAIN areas \ {i}}

\* Vec::remove of an area: the claims of the others stay, under the new indices.
LEMMA OtherAreasMove ==
  ASSUME NEW a, NEW B, NEW o, NEW areas, SomeSeq(areas), NEW i \in 1..Len(areas),
         B \cap OtherAreas(o, areas, i) = {}, Exact(a, B \cup OtherAreas(o, areas, i)),
         NEW new, new = RemoveAt(areas, i)
  PROVE  Exact(a, B \cup AreasClaims(o, new))
<1> DEFINE Old == OtherAreas(o, areas, i)
           New == AreasClaims(o, new)
           n == Len(areas)
<1>1. /\ n \in Nat /\ DOMAIN areas = 1..n
      /\ DOMAIN new = 1..(n - 1)
      /\ \A j \in 1..(n - 1) : new[j] = areas[Was(i, j)]
  BY SomeSeqFacts, RemoveAtSome
<1>2. \A j \in 1..(n - 1) : Was(i, j) \in DOMAIN areas \ {i}
  BY <1>1 DEF Was
<1>3. \A j, k \in 1..(n - 1) : Was(i, j) = Was(i, k) => j = k
  BY <1>1 DEF Was
<1>4. \A k \in DOMAIN areas \ {i} : \E j \in 1..(n - 1) : k = Was(i, j)
  <2>1. ASSUME NEW k \in DOMAIN areas \ {i} PROVE \E j \in 1..(n - 1) : k = Was(i, j)
    <3>1. CASE k < i
      BY <3>1, <1>1 DEF Was
    <3>2. CASE k > i
      <4>1. k - 1 \in 1..(n - 1) /\ k = Was(i, k - 1)
        BY <3>2, <1>1 DEF Was
      <4>2. QED BY <4>1
    <3>3. QED BY <3>1, <3>2, <1>1
  <2>2. QED BY <2>1
<1> DEFINE df(j) == new[j].data_frames
           Named(k, j, v) == Claim(o, "area", <<k, v>>, df(j)[v])
<1>5. ASSUME NEW c \in New
      PROVE  \E j \in 1..(n - 1) : \E v \in DOMAIN df(j) : c = Named(j, j, v)
  <2>1. PICK j \in 1..(n - 1) : c \in Pages(o, j, df(j))
    BY <1>1 DEF AreasClaims
  <2>2. QED BY <2>1 DEF Pages
<1>6. ASSUME NEW j \in 1..(n - 1), NEW v \in DOMAIN df(j)
      PROVE  Named(Was(i, j), j, v) \in Old /\ Named(j, j, v) \in New
  <2>1. areas[Was(i, j)].data_frames = df(j)
    BY <1>1
  <2>2. Named(Was(i, j), j, v) \in Pages(o, Was(i, j), areas[Was(i, j)].data_frames)
    BY <2>1 DEF Pages
  <2>3. Named(j, j, v) \in Pages(o, j, df(j))
    BY DEF Pages
  <2>4. QED BY <2>2, <2>3, <1>1, <1>2 DEF OtherAreas, AreasClaims
<1>7. ASSUME NEW c \in Old
      PROVE  \E j \in 1..(n - 1) : \E v \in DOMAIN df(j) : c = Named(Was(i, j), j, v)
  <2>1. PICK k \in DOMAIN areas \ {i} : c \in Pages(o, k, areas[k].data_frames)
    BY DEF OtherAreas
  <2>2. PICK j \in 1..(n - 1) : k = Was(i, j)
    BY <1>4
  <2>3. areas[k].data_frames = df(j)
    BY <2>2, <1>1
  <2>4. QED BY <2>1, <2>2, <2>3 DEF Pages
<1>8. \A k, j, v : Frame(Named(k, j, v)) = df(j)[v]
  BY ClaimFacts
<1>9. FramesOf(New) = FramesOf(Old)
  <2>1. ASSUME NEW c \in New PROVE Frame(c) \in FramesOf(Old)
    <3>1. PICK j \in 1..(n - 1) : \E v \in DOMAIN df(j) : c = Named(j, j, v)
      BY <1>5
    <3>2. PICK v \in DOMAIN df(j) : c = Named(j, j, v)
      BY <3>1
    <3>3. Named(Was(i, j), j, v) \in Old /\ Frame(c) = Frame(Named(Was(i, j), j, v))
      BY <3>2, <1>6, <1>8
    <3>4. QED BY <3>3 DEF FramesOf
  <2>2. ASSUME NEW c \in Old PROVE Frame(c) \in FramesOf(New)
    <3>1. PICK j \in 1..(n - 1) : \E v \in DOMAIN df(j) : c = Named(Was(i, j), j, v)
      BY <1>7
    <3>2. PICK v \in DOMAIN df(j) : c = Named(Was(i, j), j, v)
      BY <3>1
    <3>3. Named(j, j, v) \in New /\ Frame(c) = Frame(Named(j, j, v))
      BY <3>2, <1>6, <1>8
    <3>4. QED BY <3>3 DEF FramesOf
  <2>3. QED BY <2>1, <2>2 DEF FramesOf
<1>10. FramesOf(B \cup New) = FramesOf(B \cup Old)
  BY <1>9 DEF FramesOf
<1>11. \A c, d \in B \cup Old : Frame(c) = Frame(d) => c = d
  BY DEF Exact
<1>12. ASSUME NEW c \in New, NEW d \in B, Frame(c) = Frame(d)
       PROVE  FALSE
  <2>1. PICK j \in 1..(n - 1) : \E v \in DOMAIN df(j) : c = Named(j, j, v)
    BY <1>5
  <2>2. PICK v \in DOMAIN df(j) : c = Named(j, j, v)
    BY <2>1
  <2>3. Named(Was(i, j), j, v) \in Old /\ Frame(d) = Frame(Named(Was(i, j), j, v))
    BY <2>2, <1>6, <1>8, <1>12
  <2>4. d = Named(Was(i, j), j, v)
    BY <2>3, <1>11
  <2>5. QED BY <2>3, <2>4
<1>13. ASSUME NEW c \in New, NEW d \in New, Frame(c) = Frame(d)
       PROVE  c = d
  <2>1. PICK j \in 1..(n - 1) : \E v \in DOMAIN df(j) : c = Named(j, j, v)
    BY <1>5
  <2>2. PICK v \in DOMAIN df(j) : c = Named(j, j, v)
    BY <2>1
  <2>3. PICK k \in 1..(n - 1) : \E w \in DOMAIN df(k) : d = Named(k, k, w)
    BY <1>5
  <2>4. PICK w \in DOMAIN df(k) : d = Named(k, k, w)
    BY <2>3
  <2>5. /\ Named(Was(i, j), j, v) \in Old /\ Frame(c) = Frame(Named(Was(i, j), j, v))
        /\ Named(Was(i, k), k, w) \in Old /\ Frame(d) = Frame(Named(Was(i, k), k, w))
    BY <2>2, <2>4, <1>6, <1>8
  <2>6. Named(Was(i, j), j, v) = Named(Was(i, k), k, w)
    BY <2>5, <1>11, <1>13
  <2>7. <<Was(i, j), v>> = <<Was(i, k), w>>
    BY <2>6, ClaimFacts
  <2>8. Was(i, j) = Was(i, k) /\ v = w
    BY <2>7
  <2>9. j = k
    BY <2>8, <1>3
  <2>10. QED BY <2>2, <2>4, <2>8, <2>9
<1> HIDE DEF New, Old
<1>14. \A c, d \in B \cup New : Frame(c) = Frame(d) => c = d
  BY <1>11, <1>12, <1>13
<1>15. Exact(a, B \cup Old)
  BY DEF Old
<1>16. Exact(a, B \cup New)
  BY <1>10, <1>14, <1>15, ExactRenamed
<1>17. QED BY <1>16 DEF New

(***************************************************************************)
(* A kernel stack that is dropped gives its frames back and takes its area *)
(* out of the vector.                                                      *)
(***************************************************************************)
LEMMA RemoveArea ==
  ASSUME NEW s, NEW o, NEW R, OfOthers(o, R), OwnsSet(o, R, s), s.panic = "none",
         NEW i \in 1..Len(s.areas), NEW t, t = remove_area(s, i)
  PROVE  OwnsSet(o, R, t)
<1> DEFINE areas == s.areas
           df == areas[i].data_frames
           new == RemoveAt(areas, i)
           B == R \cup Tables(o, s.frames)
           C == B \cup OtherAreas(o, areas, i)
           u == area_unmap(s, areas[i])
<1>1. /\ IsMachine(s) /\ SomeSeq(s.frames) /\ MappedAreas(areas)
      /\ Exact(s.alloc, R \cup AreasClaims(o, areas) \cup Tables(o, s.frames))
  BY DEF OwnsSet, Holds
<1>2. /\ SomeSeq(areas) /\ Len(areas) \in Nat /\ DOMAIN areas = 1..Len(areas)
      /\ \A k \in 1..Len(areas) : MappedArea(areas[k])
  BY <1>1, SomeSeqFacts DEF MappedAreas
<1>3. AreasClaims(o, areas) = OtherAreas(o, areas, i) \cup Pages(o, i, df)
  <2>1. DOMAIN areas = (DOMAIN areas \ {i}) \cup {i}
    BY <1>2
  <2>2. QED BY <2>1 DEF AreasClaims, OtherAreas
<1>4. Exact(s.alloc, C \cup Pages(o, i, df))
  <2>1. R \cup AreasClaims(o, areas) \cup Tables(o, s.frames) = C \cup Pages(o, i, df)
    BY <1>3
  <2>2. QED BY <2>1, <1>1
<1>5. B \cap AreasClaims(o, areas) = {}
  <2>1. ASSUME NEW c \in R, c \in AreasClaims(o, areas) PROVE FALSE
    <3>1. PICK k \in DOMAIN areas : c \in Pages(o, k, areas[k].data_frames)
      BY <2>1 DEF AreasClaims
    <3>2. QED BY <3>1, PagesOwner DEF OfOthers
  <2>2. QED BY <2>1, TablesApart
<1>6. OtherAreas(o, areas, i) \cap Pages(o, i, df) = {}
  <2>1. ASSUME NEW c \in OtherAreas(o, areas, i), c \in Pages(o, i, df) PROVE FALSE
    <3>1. PICK k \in DOMAIN areas \ {i} : c \in Pages(o, k, areas[k].data_frames)
      BY DEF OtherAreas
    <3>2. QED BY <3>1, <2>1, PagesDisjoint
  <2>2. QED BY <2>1
<1>7. C \cap Pages(o, i, df) = {} /\ B \cap OtherAreas(o, areas, i) = {}
  BY <1>3, <1>5, <1>6
<1> HIDE DEF C
<1>8. /\ IsMachine(u) /\ Keeps(s, u) /\ u.frames = s.frames
      /\ u.panic = "none" => Exact(u.alloc, C)
  BY <1>1, <1>2, <1>4, <1>7, AreaUnmap
<1>9. t = [u EXCEPT !.areas = new]
  <2>1. t = [u EXCEPT !.areas = RemoveAt(u.areas, i)]
    BY <1>8 DEF remove_area, IsMachine
  <2>2. QED BY <2>1, <1>8 DEF Keeps
<1> HIDE DEF u
<1>10. /\ IsMachine(t) /\ t.areas = new /\ t.frames = s.frames /\ t.alloc = u.alloc
       /\ t.panic = u.panic
  <2> HIDE DEF new
  <2>1. QED BY <1>8, <1>9 DEF IsMachine
<1>11. MappedAreas(new)
  <2>1. /\ SomeSeq(new) /\ DOMAIN new = 1..(Len(areas) - 1)
        /\ \A j \in 1..(Len(areas) - 1) : new[j] = areas[Was(i, j)]
    BY <1>2, RemoveAtSome
  <2>2. \A j \in 1..(Len(areas) - 1) : Was(i, j) \in 1..Len(areas)
    BY <1>2 DEF Was
  <2> HIDE DEF new
  <2>3. QED BY <2>1, <2>2, <1>2 DEF MappedAreas
<1>12. ASSUME u.panic = "none" PROVE Exact(u.alloc, R \cup AreasClaims(o, new) \cup Tables(o, s.frames))
  <2>1. Exact(u.alloc, B \cup OtherAreas(o, areas, i))
    BY <1>8, <1>12 DEF C
  <2> HIDE DEF B, new, areas
  <2>2. Exact(u.alloc, B \cup AreasClaims(o, new))
    BY <2>1, <1>2, <1>7, OtherAreasMove DEF new, areas
  <2>3. B \cup AreasClaims(o, new) = R \cup AreasClaims(o, new) \cup Tables(o, s.frames)
    BY DEF B
  <2>4. QED BY <2>2, <2>3
<1> HIDE DEF new
<1>13. QED BY <1>1, <1>10, <1>11, <1>12 DEF OwnsSet, Holds

\* remove_area_with_start_vpn, whether it finds an area or not.
LEMMA RemoveAreaFrom ==
  ASSUME NEW s, NEW o, NEW R, OfOthers(o, R), OwnsSet(o, R, s), s.panic = "none",
         NEW vpn, NEW t, t = remove_area_with_start_vpn(s, vpn)
  PROVE  OwnsSet(o, R, t)
<1> DEFINE A == AreasFrom(s.areas, vpn)
<1>1. CASE A = {}
  BY <1>1 DEF remove_area_with_start_vpn
<1>2. CASE A # {}
  <2>1. DOMAIN s.areas = 1..Len(s.areas) /\ Len(s.areas) \in Nat
    BY SomeSeqFacts DEF OwnsSet, MappedAreas
  <2>2. A \subseteq 1..Len(s.areas)
    BY <2>1 DEF AreasFrom
  <2>3. A \subseteq Nat
    BY <2>2
  <2> HIDE DEF A
  <2>4. Min(A) \in A
    <3>1. \E x \in A : \A y \in A : x <= y
      BY <2>3, <1>2, LeastNumber
    <3>2. QED BY <3>1, Zenon DEF Min
  <2>5. t = remove_area(s, Min(A))
    BY <1>2 DEF remove_area_with_start_vpn, A
  <2>6. QED BY <2>2, <2>4, <2>5, RemoveArea
<1>3. QED BY <1>1, <1>2

(***************************************************************************)
(* The fields of a memory set and all its claims.                          *)
(***************************************************************************)
Claims(o, ms) == Tables(o, ms.frames) \cup AreasClaims(o, ms.areas)

IsSet(ms) ==
    /\ ms = [root |-> ms.root, frames |-> ms.frames, areas |-> ms.areas]
    /\ SomeSeq(ms.frames) /\ MappedAreas(ms.areas)

\* The owner of the claims of a memory set.
LEMMA ClaimsOwner ==
  ASSUME NEW o, NEW ms, NEW c \in Claims(o, ms)
  PROVE  c[1] = o
<1>1. CASE c \in Tables(o, ms.frames)
  BY <1>1, TablesOwner
<1>2. CASE c \in AreasClaims(o, ms.areas)
  <2>1. PICK k \in DOMAIN ms.areas : c \in Pages(o, k, ms.areas[k].data_frames)
    BY <1>2 DEF AreasClaims
  <2>2. QED BY <2>1, PagesOwner
<1>3. QED BY <1>1, <1>2 DEF Claims

\* The fields of a machine that works on another memory set.
LEMMA WithFacts ==
  ASSUME NEW s, IsMachine(s), NEW ms, NEW t, t = With(s, ms)
  PROVE  /\ IsMachine(t) /\ t.alloc = s.alloc /\ t.mem = s.mem /\ t.panic = s.panic
         /\ t.root = ms.root /\ t.frames = ms.frames /\ t.areas = ms.areas
  BY DEF With, IsMachine

\* A machine works on a memory set: its claims are those of the set.
LEMMA WorksOn ==
  ASSUME NEW s, IsMachine(s), NEW ms, SomeSeq(ms.frames), NEW o, NEW R,
         s.panic = "none" => IsSet(ms) /\ Exact(s.alloc, R \cup Claims(o, ms)),
         NEW t, t = With(s, ms)
  PROVE  /\ OwnsSet(o, R, t)
         /\ t.alloc = s.alloc /\ t.mem = s.mem /\ t.panic = s.panic
         /\ t.root = ms.root /\ t.frames = ms.frames /\ t.areas = ms.areas
<1>1. /\ IsMachine(t) /\ t.alloc = s.alloc /\ t.mem = s.mem /\ t.panic = s.panic
      /\ t.root = ms.root /\ t.frames = ms.frames /\ t.areas = ms.areas
  BY WithFacts
<1>2. (R \cup AreasClaims(o, t.areas)) \cup Tables(o, t.frames) = R \cup Claims(o, ms)
  BY <1>1 DEF Claims
<1>3. t.panic = "none" => Exact(t.alloc, (R \cup AreasClaims(o, t.areas)) \cup Tables(o, t.frames))
  BY <1>1, <1>2
<1>4. QED BY <1>1, <1>3 DEF OwnsSet, Holds, IsSet

\* The memory set a machine has built, and its claims.
LEMMA HasSet ==
  ASSUME NEW s, NEW o, NEW R, OwnsSet(o, R, s), s.panic = "none"
  PROVE  /\ IsMachine(s) /\ IsSet(SetOf(s)) /\ Exact(s.alloc, R \cup Claims(o, SetOf(s)))
         /\ SetOf(s).root = s.root /\ SetOf(s).frames = s.frames /\ SetOf(s).areas = s.areas
<1>1. SetOf(s).root = s.root /\ SetOf(s).frames = s.frames /\ SetOf(s).areas = s.areas
  BY DEF SetOf
<1>2. SetOf(s) = [root |-> SetOf(s).root, frames |-> SetOf(s).frames, areas |-> SetOf(s).areas]
  BY DEF SetOf
<1>3. IsMachine(s) /\ SomeSeq(s.frames) /\ MappedAreas(s.areas)
      /\ Exact(s.alloc, (R \cup AreasClaims(o, s.areas)) \cup Tables(o, s.frames))
  BY DEF OwnsSet, Holds
<1>4. (R \cup AreasClaims(o, s.areas)) \cup Tables(o, s.frames) = R \cup Claims(o, SetOf(s))
  BY <1>1 DEF Claims
<1>5. IsSet(SetOf(s))
  BY <1>1, <1>2, <1>3 DEF IsSet
<1>6. QED BY <1>1, <1>3, <1>4, <1>5

(***************************************************************************)
(* Nothing is dropped after a panic.                                       *)
(***************************************************************************)
Stopped(p, i, t) == t = p

FreeStops == INSTANCE Loops WITH op <- free_turn, Inv <- Stopped

DropStops == INSTANCE Loops WITH op <- drop_turn, Inv <- Stopped

\* The machine is shut down by a panic, so nothing is dropped after it.
LEMMA NoDropAfterPanic ==
  ASSUME NEW s, s.panic # "none", NEW ms, IsSet(ms)
  PROVE  drop_memory_set(s, ms) = s
<1>1. Len(ms.frames) \in Nat /\ Len(ms.areas) \in Nat
  BY SomeSeqFacts DEF IsSet, MappedAreas
<1>2. free(s, ms.frames) = s
  <2>1. free(s, ms.frames) = FreeStops!Run(0, 0, s, ms.frames)
    BY Zenon DEF free, ForEach, FreeStops!Run, free_turn
  <2>2. FreeStops!Induction
    BY UpTo DEF FreeStops!Induction
  <2>3. Stopped(s, 0, s)
    BY DEF Stopped
  <2> DEFINE q == ms.frames
  <2>4. \A i \in 1..Len(q) : \A u : Stopped(s, i - 1, u) =>
            Stopped(s, i, IF u.panic # "none" THEN u ELSE free_turn(0, 0, u, q[i]))
    BY DEF Stopped
  <2> HIDE DEF q
  <2>5. Stopped(s, Len(q), FreeStops!Run(0, 0, s, q))
    BY <2>2, <2>3, <2>4, <1>1, FreeStops!LoopInvariant DEF q
  <2>6. QED BY <2>1, <2>5 DEF Stopped, q
<1>3. drop_areas(s, ms) = s
  <2>1. drop_areas(s, ms) = DropStops!Run(0, 0, s, ms.areas)
    BY Zenon DEF drop_areas, ForEach, DropStops!Run, drop_turn
  <2>2. DropStops!Induction
    BY UpTo DEF DropStops!Induction
  <2>3. Stopped(s, 0, s)
    BY DEF Stopped
  <2> DEFINE q == ms.areas
  <2>4. \A i \in 1..Len(q) : \A u : Stopped(s, i - 1, u) =>
            Stopped(s, i, IF u.panic # "none" THEN u ELSE drop_turn(0, 0, u, q[i]))
    BY DEF Stopped
  <2> HIDE DEF q
  <2>5. Stopped(s, Len(q), DropStops!Run(0, 0, s, q))
    BY <2>2, <2>3, <2>4, <1>1, DropStops!LoopInvariant DEF q
  <2>6. QED BY <2>1, <2>5 DEF Stopped, q
<1>4. QED BY <1>2, <1>3 DEF drop_memory_set
=============================================================================
