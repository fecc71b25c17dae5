--------------------------- MODULE PrivateMemory ----------------------------
(***************************************************************************)
(* What the kernel promises a process about its memory, without frames,    *)
(* page tables or an allocator: a process has pages of its own.  fork      *)
(* copies them all, exec replaces them by the program's image, and nothing *)
(* else changes a word of them but the process itself and the calls it     *)
(* makes.                                                                  *)
(***************************************************************************)
EXTENDS Integers, Sequences

CONSTANTS
    Process,
    INITPROC,
    InitElf,
    Elves,          \* the programs exec may load
    PageWords,      \* words of a page
    ZERO,
    StackPages,
    Value,
    Ranges,         \* what a process may store to at once, <<address, length>>
    NoSpace

VARIABLES
    running,        \* the process on the processor, which others decide
    space           \* per process: its pages, each with the words that are not ZERO

(***************************************************************************)
(* The image of a program: each segment's data from its address on, zeroes *)
(* up to the end of its last page, and after one page left out, the stack. *)
(***************************************************************************)
LastPage(seg) == (seg.va + seg.mem_size - 1) \div PageWords
SegmentPages(elf) ==
    UNION {(elf[k].va \div PageWords)..LastPage(elf[k]) : k \in DOMAIN elf}
StackOf(elf) == LET top == LastPage(elf[Len(elf)]) + 2 IN top..(top + StackPages - 1)

InitialWord(elf, va) ==
    LET in(k) == elf[k].va <= va /\ va < elf[k].va + Len(elf[k].data)
    IN IF \E k \in DOMAIN elf : in(k)
       THEN LET k == CHOOSE j \in DOMAIN elf : in(j) IN elf[k].data[va - elf[k].va + 1]
       ELSE ZERO

InitialPage(elf, vpn) ==
    LET word(i) == InitialWord(elf, vpn * PageWords + i)
    IN [i \in {j \in 0..(PageWords - 1) : word(j) # ZERO} |-> word(i)]

\* A space with the image of elf; exec puts the arguments on the stack.
HoldsImage(pages, elf) ==
    /\ DOMAIN pages = SegmentPages(elf) \cup StackOf(elf)
    /\ \A vpn \in SegmentPages(elf) : pages[vpn] = InitialPage(elf, vpn)

PInit ==
    space = [p \in Process |->
        IF p # INITPROC THEN NoSpace
        ELSE [vpn \in SegmentPages(InitElf) \cup StackOf(InitElf) |-> InitialPage(InitElf, vpn)]]

Fork(p, c) == space[c] = NoSpace /\ space' = [space EXCEPT ![c] = space[p]]

Exec(p) ==
    /\ space'[p] # NoSpace
    /\ \E elf \in Elves : HoldsImage(space'[p], elf)
    /\ \A q \in Process \ {p} : space'[q] = space[q]

\* Exactly the words of the range get the value.
Overlaid(pages, r, v) ==
    LET hit(vpn) == {i \in 0..(PageWords - 1) : vpn * PageWords + i \in r[1]..(r[1] + r[2] - 1)}
    IN [vpn \in DOMAIN pages |->
          [i \in DOMAIN pages[vpn] \cup hit(vpn) |-> IF i \in hit(vpn) THEN v ELSE pages[vpn][i]]]

Store(p) ==
    \E r \in Ranges, v \in Value :
        /\ \A va \in r[1]..(r[1] + r[2] - 1) : va \div PageWords \in DOMAIN space[p]
        /\ space' = [space EXCEPT ![p] = Overlaid(@, r, v)]

Exit(p) == space' = [space EXCEPT ![p] = NoSpace]

PNext ==
    /\ running \in Process
    /\ space[running] # NoSpace
    /\ \/ \E c \in Process : Fork(running, c)
       \/ Exec(running)
       \/ Store(running)
       \/ Exit(running)

PSpec == PInit /\ [][PNext]_space
=============================================================================
