# Verification of project-r-core

TLA+ models, TLC runs and TLAPS proofs for the rCore tutorial kernel in this
repository (`os`), its file system library (`easy-fs`) and the user programs the
kernel depends on (`user`). `PROJECT.json` maps every definition to the lines it
models.

## 1. The system and its hard parts

One hart. The kernel runs with interrupts off in supervisor mode, so kernel code
is never preempted: the processes interleave only where a system call or a trap
calls `suspend_current_and_run_next`, and in user mode, where the timer does it.
All kernel state is in `UPSafeCell`s (a `RefCell`: a second borrow panics) and all
ownership is by `Arc`, so that *who still holds an Arc* decides when a pid, a
kernel stack, an address space or a descriptor table is freed. A panic shuts the
machine down.

| Component | State | Operations | What is hard about it |
|---|---|---|---|
| Process core, `os/src/task` | TCBs (status, pid, parent, children), ready queue, `PROCESSOR.current`, `PID_TO_TASK`, pid allocator, kernel stacks | fork, exit, waitpid, yield, timer, dispatch, suspension inside file calls | orphans and zombies in any order; `assert_eq!(strong_count, 1)` in waitpid; pids and stacks reused; exit on a stack it may free |
| Signals, `task/signal.rs`, `task/action.rs`, `trap/mod.rs` | per task: pending set, mask, actions, `handling_sig`, `killed`, `frozen`, the one context backup | kill, sigaction, procmask, sigreturn, faults, `handle_signals` at the end of each trap | signals that arrive while the process is stopped, suspended, in a handler or in a file call; order by number, not by arrival |
| Pipes, `fs/pipe.rs` | ring buffer, weak pointer to the write end | read, write, close, fork, exit, reaping | two loops that suspend in the middle; end of file through a weak pointer that zombies keep alive; full and empty look alike |
| Initial process, `user/src/bin/initproc.rs` | its program counter | fork the shell, wait for ever | must collect every orphan |
| Block cache, `easy-fs/src/block_cache.rs` | queue of cached blocks, modified flags, the device | lookup, replacement, modify, drop, `block_cache_sync_all`, power failure | replacement by strong count; write back on drop; a crash between two writes |
| File system on disk, `bitmap.rs`, `layout.rs`, `efs.rs`, `vfs.rs` | bitmaps, inodes, directory | create, clear, read_at, write_at | several blocks per operation, one sync; index arithmetic |
| Image packer, `easy-fs-fuse` | the app it packs, the image | create and write each app, exit; the kernel opens the image | who writes the cache back |
| Descriptor tables, `syscall/fs.rs`, `fs/inode.rs` | fd tables, offsets | open, close, dup, pipe, read, write | shared by fork, with one offset; `sys_pipe` borrows twice |
| Memory, `os/src/mm`, `task/pid.rs`, `task/task.rs` | frames, page tables, areas, kernel stacks, trap contexts | map, unmap, fork, exec, exit, reaping, suspended reads | ownership of frames; running out in the middle; frames named by a page table after they were freed |
| User programs, `user/src/bin` | a program counter and registers each | the shell's loop, redirection, fork, exec, wait | who closes which descriptor in which order; who waits for whom |

Drivers, console, SBI, timer and heap have no state the properties depend on. The
hazards of the code, each at its line and with the property that covers it, are in
`PROJECT.json`.

The correctness properties that follow from this: no call sequence fails an
assertion; every task is in one place and one family; pids and stacks are neither
shared nor lost; nobody starves and every orphan is collected; signals are neither
lost nor misapplied and SIGKILL, SIGSTOP and SIGCONT do what they are for; a pipe is
a queue whose end of file is exact; every frame has one owner and every process a
memory of its own; the cache is transparent and what was synced survives; every block
of the disk has one owner, and files read as they were written; a command typed at the
prompt has the effect it says, and the prompt comes back.

## 2. Modules

| Module | Models |
|---|---|
| `Processes` | abstract: a family of processes that fork, exit and are collected |
| `Tasks` | the process core |
| `Initproc` | `Tasks` composed with the program of INITPROC, with fairness |
| `Signals` | signal state of one process, everybody else as senders |
| `FrameAllocator`, `PageTable`, `MemorySet` | the frame allocator, three-level page tables kept in the frames, address spaces |
| `PrivateMemory` | abstract: pages of its own for every process |
| `Memory` | `Tasks` composed with the memory it manages |
| `ByteQueue` | abstract: a bounded FIFO of bytes |
| `RingBuffer`, `Pipe` | the ring, and the pipe with the processes that share it |
| `WriteBackDisk` | abstract: current values over a device that lags behind |
| `BlockCache` | the block cache over the device |
| `FlatFs` | abstract: a directory of byte sequences |
| `Layout`, `EasyFs` | the disk inode with its indirect blocks, and the file system |
| `Packer` | the program that makes the image, over `EasyFs` and a device that lags behind |
| `Files` | descriptor tables and open files, over `FlatFs` |
| `Shell` | the shell and five programs, over `Processes` and `Files` |
| `MC...` | instances for TLC (constants, symmetry, reference definitions) |
| `SeqLemmas`, `Loops` | lemmas on the elements of sequences; the proof rule for loops |
| `TasksProofs`, `SignalsProofs`, `PipeProofs`, `BlockCacheProofs`, `MemorySetProofs`, `MemoryProofs` | theorems |

The parts compose along what is shown of each: `Tasks` implements `Processes` and
`EasyFs` implements `FlatFs`, and `Shell` runs on these two; `Memory` runs on `Tasks`
itself; the fairness of `Signals` and `Shell` is the property `ReadyRuns` of `Tasks`.

Definitions marked *Variant* in a comment are wrong versions of the definition that
follows them. No specification uses them. Each shows that a property fails when the
code is changed in that way (`mutants` in `PROJECT.json`).

**Tasks.** One action per system call or trap; a call is one step unless it
suspends. `Handles(t)` is the set of places that hold an Arc to `t` (INITPROC, the
processor, a frame suspended in a file call, slots of the ready queue, of
`PID_TO_TASK` and of vectors of children): `strong_count` is its size. A failed
assertion or unwrap is recorded in `panic` with its site, after which nothing
happens. exec does not appear: it touches none of these variables (it is in `Memory`).
Exit codes are in `Shell`. A user pointer that waitpid cannot translate is not modelled.

**Initproc.** INITPROC follows its program, the others may do any call at any time. After
each of its traps INITPROC passes `handle_signals`, where the signals of others may stop,
continue or kill it; which signals these are is left open.

**Signals.** `inner` has the signal fields of `TaskControlBlockInner`; `trap_cx` is
reduced to the code it resumes, the program or a handler. `check_pending_signals` is
a closed form of the loop; `check_pending_loop` is the loop itself, and `PendingLoopSafe`
proves that the two agree in every state. A trap is two steps: the call, and the end of `trap_handler` with
`handle_signals` (`trap_handles`), so that what a call adds to the pending set and what
the trap takes out of it are seen apart. Other processes can send a signal only while this
one is not running. The first dispatch of a process goes to `trap_return` and so looks at
no signals. A program may call sigreturn at any time. Not modelled: the argument registers,
signal numbers above 31.

**FrameAllocator, PageTable, MemorySet.** Pure functions on a record: the allocator, the
contents of all frames, and the address space being built. A panic is a field of it, and
nothing changes after it, so that running out of frames in the middle of a fork is seen
where it happens. Page tables live in the frames they map: an entry is a word of a frame.
`ENTRIES` (512 in the code) is the number of words of a frame, and a character, a pointer
and a TrapContext are one word each. Every loop of the code is a `ForEach`: a turn per
element, none after a panic.

**Memory.** fork, exec, exit and waitpid of `Tasks` with everything they do to memory, in
the order of the code (the drop of a TCB frees the kernel stack and then the page table;
exec drops the old space when it assigns the new one). `buffers` has the slices a
suspended read has translated. `Mapping` is what the hardware sees of a page table, and
the refinement of `PrivateMemory` is stated through it, not through the areas. A boot for
which the frames do not suffice is no initial state. Pointers to unmapped memory and ELF
segments of size 0 are left out.

**Files, Shell.** `Files` has the system calls on tables, the console and OSInodes, which
live as long as a descriptor refers to them. `sys_pipe` takes its two borrows of the
task's cell one after the other, and panics at the second; what the shell would do with
the descriptors is never reached and left out. `Shell` has the programs `user_shell`,
`hello_world`, `cat`, `filetest_simple`, `forktest_simple` and `exit` as sequences of
system calls, each with what the program does with its result, asserts included; all
processes interleave between two calls. A string a program prints at once is a token, a
line is a sequence of words. User panics print and loop for ever (`panic_handler`).

**Pipe.** The loops are split where they can be interrupted (their head, where they
suspend) and once per byte, so that the invariants see the inside of the for loops;
`hart` keeps others out in between. A descriptor table is the set of ends it has.
`sys_pipe` itself panics on every call (`syscall/fs.rs:84` and `:85` borrow the same
cell), so the pipe starts as `make_pipe` returns it.

**BlockCache.** A block's data is one value, a closure that modifies a block may write
any value, closures nest up to `MaxHeld`. The device writes a block at once. Nothing
in the kernel writes the cache back at shutdown: `power_off` may come at any time,
also within `block_cache_sync_all`. `written` is a history variable.

**Layout, EasyFs.** `view` gives every block the content of its part of the disk: the
super block, sets of bits, inodes, slots. A slot is a byte, a directory entry or a block
number, and sizes count slots, so that blocks can be small; the entries of the directory
divide a block evenly in the code too. Each operation of `vfs.rs` holds the lock of the
file system throughout and is one action. The loops are folds over the blocks they go
through: `place` is one round of `increase_size`, `write_block` one of `write_at`;
`released_blocks` is what `clear_size` returns. The search of a bitmap is its smallest
free bit. A panic keeps its reason in `panic` and ends the behaviour. Only files are
written and cleared: the kernel uses the root inode for `find`, `create` and `ls` alone.
The truncation of a new size to 32 bits is left out, as offsets stay below the largest
file, 8 MB, and a buffer fits in memory.

**Packer.** `device` is the image. `create` syncs, `write_at` does not, and the cache may
write back any block between two operations. `boot` is the kernel opening the image.
Names of apps are taken to be distinct.

## 3. Runs

| Run | Instance | Shows |
|---|---|---|
| `tasks` | INITPROC and 3 TCBs | `OnlyInitprocExitPanics`, `OnePlace`, `FamilyTree`, `PidMapExact`, `PidsPartitioned`, `ImplementsProcesses`, `ReadyRuns`, `OrphansCollected` |
| `signals` | one signal of each kind the code tells apart, two masks | `StoppedStaysStopped`, `HandlingHasBackup`, `SignalNotLost`, `SigreturnAfterDelivery`, `ErrorSignalEnds`, `KillTerminates`, `ContResumes` |
| `signals_user_logic` | same | fails: a nested signal destroys the context of the program |
| `memory` | INITPROC and 2 TCBs, 45 frames of 8 words, two programs, 4 address spaces built | `FramesPartitioned`, `TablesMatchAreas`, `TrapContextsOwn`, `OnlyOutOfMemoryPanics`, `ArgumentsArrive`, `ImplementsPrivateMemory` |
| `pipe` | ring of 3, 2 processes, buffers up to 4 | `ImplementsQueue`, `ShortReadIsEof`, `ReadEnds`, `WriteEnds` |
| `pipe_full_buffer` | same | fails: a read that fills its buffer with the last byte keeps waiting |
| `block_cache` | queue of 2, 3 blocks, nesting 3 | `OneCopy`, `ReadsSeeWrites`, `FullOnlyWhenAllHeld`, `SyncMakesDurable`, `ImplementsDisk` |
| `easy_fs` | 14 data blocks, 3 inodes, files of up to 7 data and 4 indirect blocks | `AllocationExact`, `DirectoryExact`, `NoAssertionFails`, `WritesUseAllSpace`, `ImplementsFlatFs` |
| `packer` | 3 apps | `EarlierAppsFound` |
| `packer_all_apps` | same | fails: the last app is not on the image |
| `shell` | 4 lines out of 17, 4 processes | `StreamsAsTyped`, `AssertionsHold`, `CommandEffect`, `PromptReturns` |
| `shell_pipe` | same | fails: `sys_pipe` stops the kernel and registers nothing |

What the properties say is in the comment above each of them.

*Bounds.* Four TCBs give INITPROC, a parent, an orphaned grandchild and a recycled pid; the
number of TCBs bounds the pids, so the state space is finite without a counter bound. A
user signal below the kernel's and one above them, one of them fatal, and a mask with
SIGCONT let a trap of a stopped process enter two handlers and take a stop back. The
45 frames of `memory` hold three processes but not every exec of theirs, so that frames
are recycled and run out; user stacks have two pages as in the code, and one argument and
one buffer lie across two pages. The lines of `shell` redirect input and output, to a file that is
read by the same command and over an executable, run programs that fork, and include
every way a line can be malformed; four in a row create, read back and overwrite a file. Three bytes are the smallest ring with an index that is neither the
first nor the last, and a buffer of four bytes needs two rounds. A queue of two
entries for three blocks replaces, and nesting three deep fills it with held entries.
One direct block and indirect blocks of two entries make every boundary of the layout
(direct, indirect, row of the tree, end of the tree) lie within fourteen slots. The
writes of `MCEasyFs` end at the last entry of the indirect block, in a row of the tree,
in its last block and beyond it, and leave holes across all boundaries. Two files
compete for a data area that either of them can nearly fill, with one bit more in its
bitmap than blocks, and every kind of panic is reached except a failed assertion.
The safety properties of the process core, signals, the pipe and the cache, and the
ownership of frames, do not rest on these bounds: they are proved without them.

*Fairness.* `Initproc`: the idle loop dispatches (weak), the timer fires in user mode
(weak), a file loop or the loop of a stopped INITPROC that is dispatched goes round
(weak), and INITPROC, dispatched again and again in user mode, is not preempted each time
before its next system call (strong: a time slice is 10 ms, the way between two calls a
few instructions). Nothing says that a stopped INITPROC is continued: `sys_kill` lets every
process stop pid 0, and `OrphansCollected` excepts an INITPROC that stays stopped for ever.
`Signals`: the
timer interrupts, a trap runs to its end, and a process that waits is dispatched, which is
what `ReadyRuns` shows. `Pipe`: nothing stops a loop between suspensions (weak), and a suspended
process is dispatched again and again (strong, for the moments when another one has
the hart). `Shell`: every process that can take a step does so in the end (weak, again
`ReadyRuns`); nobody has to type. No user program is assumed to do anything else.

*Deadlock* is checked in every run but `shell` and `shell_pipe`, where the system stops at the prompt
after the last line and with a hung program; `PromptReturns` says that it stops nowhere
else. The machine after a panic and a process that exited stutter explicitly.

## 4. What is proved

For every value of the constants: any number of processes, signals and masks, ring size,
blocks, cache size, frames, programs. The assumptions `TaskAssumption`, `SigAssumption`,
`RingAssumption`, `ProcAssumption`, `CacheAssumption`, `FramesAssumption`,
`EntriesAssumption`, `StackAssumption` and `KernelAssumption` say that the constants have
the right sort (memory ends after the kernel does, an area starts before it ends);
`ElfAssumption` says that a program has a segment, none empty or with more data than its size, and
that the arguments of a command are sequences of words.

- `TasksProofs`. One inductive invariant, the conjunction of the type invariant, the five
  invariants of the run and `InFile` (a task inside a file call has not exited). None is
  inductive alone: waitpid knows that a zombie has one Arc only from the tree, the
  scheduling places, `PidMapExact` and `InFile` together, and fork needs pids and stacks
  to agree. Yields the safety properties of the run and, with the mapping of a TCB to
  Free, Live or Zombie, the refinement of `Processes`.
- `SignalsProofs`. `IInv`: the types as one record type, a backup while a signal is
  handled, and no created process is stopped yet. The work is in what one and two calls
  of `check_pending_signals` do (`CheckEffect`, `ConsumedTwice`): a stopped process calls
  it twice in one trap, the second time under the mask of the handler the first one
  entered. Then every trap lands in one of three places, and every signal it took out of
  the set has had its effect (`TrapLands`). Yields `StoppedStaysStopped`,
  `HandlingHasBackup`, `SigreturnAfterDelivery` and `SignalNotLost`. That the closed form
  of the loop is the loop (`PendingLoopAgrees`) is an induction over its turns.
- `PipeProofs`. `TypeOK`, `LoopsInBounds` and `WritersHoldEnd` (a process inside write
  holds the write end). `RingOK` relates the indices to the status, which makes
  `available_read` exact; then read_byte and write_byte act on `Contents` as Get and
  Put. Yields the safety properties and the refinement of `ByteQueue`.
- `BlockCacheProofs`. `TypeOK`, `OneCopy`, `CleanIsOnDevice`, `ReadsSeeWrites` and
  `SyncedPrefix`, the loop invariant of `block_cache_sync_all` (what it passed is
  clean). Yields these, `SyncMakesDurable` and the refinement of `WriteBackDisk`. With a
  count of the entries, also `FullOnlyWhenAllHeld`: replacement panics only while every
  entry of the queue is in use by somebody.
- `MemorySetProofs` and `MemoryProofs`: `FramesPartitioned` for the whole of `Memory`. At
  every moment each frame is in the free list, never used yet, or held at exactly one
  place: a node of one page table or a page of one area of one address space. Neither
  fork, exec, exit nor waitpid, nor any loop in them, leaks a frame, frees one twice or
  gives one to two owners, at whatever turn the frames run out.
  `Exact(a, C)` says of an allocator and a set C of claims (an owner, a place, a frame)
  that no frame is claimed twice and the claimed ones are those neither recycled nor fresh.
  alloc adds a claim and dealloc removes one (`AllocGivesFreeFrame`,
  `DeallocTakesFrameBack`, `InitPartitions`); a loop over an area, its tables, the segments
  of a program or the areas of an address space adds or removes the claims of what it
  maps or drops, while those of everybody else (C in the lemmas) stay. This is one loop
  invariant per loop, and `LoopInvariant` of `Loops` turns it into what the loop does.
  `MemInv` is the invariant of `Memory`: while there was no panic, that of `Tasks` (whose
  actions say which TCB is fresh, dropped or current), the shape of every live address
  space, and `Exact` for the claims of the kernel and of the address spaces together.
  `FramesPartitioned` alone is not inductive: it does not say whose the frames are, so that
  the drop of an address space could free those of another. exec builds a new address space
  before it drops the old one; its claims have an owner of their own until the assignment.

Proved and not listed in a run: `PendingLoopAgrees` of `Signals`, `TypeOK`, `LoopsInBounds` and `EofIsFinal` of `Pipe`,
`TypeOK` and `CleanIsOnDevice` of `BlockCache`, `TypeOK` of `Tasks`.

`Loops` is how induction is done: the theorems on induction of the library have an operator
as a parameter, which no prover instantiates, but a module with the operators as constants
can be instantiated once per loop. The induction itself is on sets of numbers (`UpTo`).

Only model-checked:

- all liveness (`ReadyRuns`, `OrphansCollected`, `ErrorSignalEnds`, `KillTerminates`, `ContResumes`,
  `ReadEnds`, `WriteEnds`, `PromptReturns`), which is out of the prover's reach;
- `TablesMatchAreas`, `TrapContextsOwn`, `OnlyOutOfMemoryPanics`, `ArgumentsArrive` and the
  refinement of `PrivateMemory`. These are about the contents of page tables: the invariant
  would have to say that the tables of all address spaces are trees over disjoint frames,
  and of the programs that their segments do not overlap in a page;
- everything about `EasyFs`, `Packer` and `Shell`. Their loops are
  folds of the library or recursive operators, to which `Loops` does not apply.

## 5. What was found

1. `task/signal.rs:111`: one context backup for nested handlers. The sigreturn of the
   first handler resumes that handler (run `signals_user_logic`).
2. `fs/pipe.rs:53`: a read that is satisfied exactly does not return (run
   `pipe_full_buffer`).
3. `easy-fs-fuse/src/main.rs:96`: nothing syncs after the last write, and the image lacks
   blocks of the last app (run `packer_all_apps`).
4. `syscall/fs.rs:85`: `sys_pipe` borrows the cell of its task twice and stops the kernel
   on every call, so the first pipeline typed does (run `shell_pipe`).

Met while modelling, and part of the models, without a run of their own:

- `memory_set.rs:302`: exec of a file that is not an ELF file stops the kernel
  (`AssertionsHold` says that exec does so for nothing else).
- `task/signal.rs:98`: a signal without a handler stays pending and hides all larger ones,
  where the message printed says "do default action: ignore it or kill process".
- `task/signal.rs:181`: a stopped INITPROC collects nobody, and every process may stop it.
- `syscall/process.rs:182`: sigreturn before the first handler, in a child forked inside one
  too, stops the kernel.
- A user panic loops for ever and is never reported to the parent: an empty command, or
  cat without a file, hangs the shell behind it; `<` without a word hangs the shell itself.
- SIGDEF marks a process killed but does not end it, while `signal.rs:69` says it acts as
  SIGKILL; the default mask 40 is SIGQUIT and SIGTRAP, while `action.rs:16` says SIGILL and
  SIGABRT; exec keeps the handlers of the old program; sigreturn keeps the mask of the
  handler.
- A SIGSTOP that takes effect can be undone within the same trap, by a SIGCONT the program
  had masked and a handler lets in (the second case of `SignalNotLost`).

## 6. Not modelled

- `translated_str`, pointers to unmapped memory, the bit fields of SV39 addresses and
  entries, the writes to satp: the arguments of a call are inputs of the model.
- A failure of power inside one operation of `vfs.rs`: `BlockCache` has it block by block,
  `Packer` between operations. Nothing in the repository says what should hold of the
  directory in between.
- The line editing of the shell, and the remaining programs of `user/src/bin` (tests and
  measurements), which the arbitrary processes of the kernel models subsume.
- `from_utf8` in `Stdout::write`, applied to each slice of a buffer.
- Assembly (`switch.S`, `trap.S`), the virtio driver, console and SBI wrappers, the heap
  allocator, the host tools `ls` and `backtrace`: I/O or external code without protocol
  state of their own.
