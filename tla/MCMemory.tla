------------------------------ MODULE MCMemory ------------------------------
(* The instance of Memory for the run: frames of 8 words, so that a page    *)
(* table covers 512 pages, user stacks of two, and two programs.            *)
EXTENDS Memory, TLC

CONSTANTS a, b, d

\* Pages 0 to 4: the registers, .text, .rodata, .data and .bss.
MCSections == <<Identical(1, 2, {"R", "X"}), Identical(2, 3, {"R"}),
                Identical(3, 4, {"R", "W"}), Identical(4, 5, {"R", "W"})>>
MCMMIO == <<Identical(0, 1, {"R", "W"})>>

\* Code in page 1, the stack in the pages 3 and 4.
ElfA == <<[va |-> 8, mem_size |-> 3, perm |-> {"R", "X"}, data |-> <<a>>]>>

\* Code in page 1, data in the pages 2 and 3 (9 words of them from the file),
\* the stack in the pages 5 and 6.
ElfB == <<[va |-> 8, mem_size |-> 2, perm |-> {"R", "X"}, data |-> <<b, b>>],
          [va |-> 16, mem_size |-> 10, perm |-> {"R", "W"},
           data |-> <<b, ZERO, ZERO, ZERO, ZERO, ZERO, ZERO, ZERO, b>>]>>

\* The arguments of B take both pages of its stack: the second string starts in the
\* lower one and ends in the upper one.
MCCommands == {[elf |-> ElfA, args |-> <<>>],
               [elf |-> ElfB, args |-> <<<<d, d>>, <<d>>, <<d>>>>]}

\* In the stack of A, and in the second data page of B.
MCTargets == {31}

\* Across the two data pages of B: its first part ends with its page.
MCBuffers == {<<22, 3>>}

TaskSymmetry == Permutations(Task \ {INITPROC})
=============================================================================
