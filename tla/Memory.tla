------------------------------ MODULE Memory --------------------------------
(***************************************************************************)
(* The process core of Tasks composed with the memory it manages: the      *)
(* frame allocator, the kernel's address space with the kernel stacks of   *)
(* all processes, and one address space per process, through fork, exec,   *)
(* exit and waitpid.  Processes store into their own memory, and a file    *)
(* read that suspends keeps the frames of its buffer (a UserBuffer) until  *)
(* it goes on.                                                             *)
(*                                                                         *)
(* A word is ZERO, a value of a program, a pointer [ptr |-> va], a page    *)
(* table entry, or a whole TrapContext: of the latter the kernel_sp the    *)
(* next trap switches to and the x10 and x11 with which a program or the   *)
(* child of a fork begins are kept.                                        *)
(* A process uses pointers to memory it has mapped: other pointers are     *)
(* outside of this model.                                                  *)
(***************************************************************************)
EXTENDS Tasks, MemorySet, FiniteSets

CONSTANTS
    InitElf,    \* the ELF file of INITPROC
    Commands,   \* what may be executed: records of an elf and its args
    Value,      \* what programs store and files contain
    Targets,    \* the addresses programs store to
    Buffers,    \* the buffers programs read files into, <<ptr, len>>
    MaxBuilt    \* bound on the address spaces built by fork and exec

\* The arguments of a command: strings, which are sequences of words.
IsArgs(args) ==
    args \in Seq(ToSet(args)) /\ \A i \in DOMAIN args : args[i] \in Seq(ToSet(args[i]))

ASSUME ElfAssumption ==
    IsElf(InitElf) /\ \A c \in Commands : IsElf(c.elf) /\ IsArgs(c.args)

VARIABLES
    FRAME_ALLOCATOR,
    mem,            \* the contents of every frame
    KERNEL_SPACE,
    memory_set,     \* per TCB
    trap_cx_ppn,    \* per TCB
    buffers,        \* per TCB: the UserBuffer of the call it is suspended in
    built           \* the address spaces built so far, for the bound

(* A page of the process that its program may write. *)
Writable(ms, va) ==
    \E k \in DOMAIN ms.areas : /\ floor(va) \in ms.areas[k].start..(ms.areas[k].end - 1)
                               /\ {"U", "W"} \subseteq ms.areas[k].perm

mem_vars == <<FRAME_ALLOCATOR, mem, KERNEL_SPACE, memory_set, trap_cx_ppn, buffers, built>>
mvars == <<vars, mem_vars>>

\* What the functions of MemorySet work on, from the state at hand.
Machine(allocator, m) ==
    [alloc |-> allocator, mem |-> m, panic |-> "none", got |-> 0, at |-> 0,
     root |-> 0, frames |-> <<>>, areas |-> <<>>, data_frames |-> EmptyFrame]

Now == Machine(FRAME_ALLOCATOR, mem)

Installed(s) == FRAME_ALLOCATOR' = s.alloc /\ mem' = s.mem
-----------------------------------------------------------------------------
(***************************************************************************)
(* Kernel stacks: one area of KERNEL_SPACE per pid, below the trampoline,  *)
(* with an unmapped page below each.                                       *)
(***************************************************************************)
kernel_stack_top(n) == TRAMPOLINE - n * (KERNEL_STACK_PAGES + 1)
kernel_stack_bottom(n) == kernel_stack_top(n) - KERNEL_STACK_PAGES

KernelStack_new(s, n) ==
    push(s, Framed(kernel_stack_bottom(n), kernel_stack_top(n), {"R", "W"}), <<>>)

KernelStack_drop(s, n) == remove_area_with_start_vpn(s, kernel_stack_bottom(n))

trap_cx_frame(s) == translate(s.mem, s.root, TRAP_CONTEXT)

app_init_context(argc, argv, n) ==
    [x10 |-> argc, x11 |-> argv, kernel_sp |-> kernel_stack_top(n)]

SetTrapContext(s, cx) ==
    IF s.panic # "none" THEN s ELSE StoreVia(s, TRAP_CONTEXT * PAGE_SIZE, cx)

(***************************************************************************)
(* The boot: KERNEL_SPACE is built on the frames after the kernel and      *)
(* TaskControlBlock::new makes INITPROC, with pid 0.  A machine on which   *)
(* the boot itself panics, for want of frames, has no first state.         *)
(***************************************************************************)
boot ==
    Machine(new_allocator(EKERNEL, MEMORY_END), [f \in EKERNEL..(MEMORY_END - 1) |-> EmptyFrame])

MInit ==
    \E kernel \in {new_kernel(boot)} :
    \E user \in {from_elf(kernel, InitElf)} :
    \E stack \in {KernelStack_new(With(user, SetOf(kernel)), 0)} :
    \E final \in {SetTrapContext(With(stack, SetOf(user)), app_init_context(0, 0, 0))} :
       /\ final.panic = "none"
       /\ Init
       /\ FRAME_ALLOCATOR = final.alloc
       /\ mem = final.mem
       /\ KERNEL_SPACE = SetOf(stack)
       /\ memory_set = [t \in Task |-> IF t = INITPROC THEN SetOf(user) ELSE NoSet]
       /\ trap_cx_ppn = [t \in Task |-> IF t = INITPROC THEN trap_cx_frame(final) ELSE NoTable]
       /\ buffers = [t \in Task |-> <<>>]
       /\ built = 1
-----------------------------------------------------------------------------
(***************************************************************************)
(* fork: the kernel stack of the child, then a copy of the address space,  *)
(* whose copied TrapContext gets the child's own kernel_sp and, as the     *)
(* result of the child's fork, x10 = 0.                                    *)
(***************************************************************************)
\* Variant: the child's TrapContext keeps the parent's kernel_sp.
child_context_copied(s, n) == s

child_context(s, n) ==
    IF s.panic # "none" THEN s
    ELSE StoreVia(s, TRAP_CONTEXT * PAGE_SIZE,
                  [Word(s.mem, trap_cx_frame(s), 0) EXCEPT !.kernel_sp = kernel_stack_top(n),
                                                           !.x10 = 0])

fork ==
    /\ User
    /\ Live # Task
    /\ built < MaxBuilt
    /\ \E stack \in {KernelStack_new(With(Now, KERNEL_SPACE), pid_alloc_result)} :
       \E user \in {child_context(from_existed_user(stack, memory_set[current]), pid_alloc_result)} :
         IF user.panic # "none"
         THEN Panic(user.panic) /\ UNCHANGED mem_vars
         ELSE \E child \in Task \ Live :
                /\ sys_fork
                /\ task_status'[child] = "Ready"
                /\ Installed(user)
                /\ KERNEL_SPACE' = SetOf(stack)
                /\ memory_set' = [memory_set EXCEPT ![child] = SetOf(user)]
                /\ trap_cx_ppn' = [trap_cx_ppn EXCEPT ![child] = trap_cx_frame(user)]
                /\ built' = built + 1
                /\ UNCHANGED buffers

(***************************************************************************)
(* exec.  The arguments go to the top of the new user stack: the vector of *)
(* pointers with a null at its end, and below it the strings, the first    *)
(* one highest.  (A character is a word here.)                             *)
(***************************************************************************)
argv_base(c) == user_stack_top(c.elf) - (Len(c.args) + 1)

\* The address of the i-th string.
arg_va(c, i) ==
    argv_base(c) - FoldLeft(LAMBDA n, a : n + Len(a) + 1, 0, SubSeq(c.args, 1, i))

push_arg(s, c, i) ==
    StoreVia(StoreAll(s, arg_va(c, i), Append(c.args[i], ZERO)),
             argv_base(c) + i - 1, [ptr |-> arg_va(c, i)])

push_args(s, c) ==
    IF s.panic # "none" THEN s
    ELSE ForEach(LAMBDA t, i : push_arg(t, c, i),
                  StoreVia(s, argv_base(c) + Len(c.args), ZERO),
                  [i \in DOMAIN c.args |-> i])

\* Variant: sys_exec returns 0, as for a call that succeeded.
exec_result_zero(c) == 0

\* What sys_exec returns, which trap_handler puts in x10 afterwards.
exec_result(c) == Len(c.args)

\* The old memory set is dropped when the new one is assigned.
sys_exec(c) ==
    /\ User
    /\ built < MaxBuilt
    /\ \E user \in {push_args(from_elf(Now, c.elf), c)} :
       \E freed \in {drop_memory_set(user, memory_set[current])} :
       \E final \in {SetTrapContext(freed,
                        app_init_context(exec_result(c), argv_base(c), pid[current]))} :
         IF final.panic # "none"
         THEN Panic(final.panic) /\ UNCHANGED mem_vars
         ELSE /\ Installed(final)
              /\ memory_set' = [memory_set EXCEPT ![current] = SetOf(user)]
              /\ trap_cx_ppn' = [trap_cx_ppn EXCEPT ![current] = trap_cx_frame(user)]
              /\ built' = built + 1
              /\ UNCHANGED <<vars, KERNEL_SPACE, buffers>>

\* _start: the arguments a program reads from its own memory.
StringAt(m, root, va) ==
    LET at(i) == Word(m, translate(m, root, floor(va + i)), page_offset(va + i))
        len   == CHOOSE n \in 0..PAGE_SIZE : at(n) = ZERO /\ \A i \in 0..(n-1) : at(i) # ZERO
    IN [i \in 1..len |-> at(i - 1)]

start_args(m, root) ==
    LET cx == Word(m, translate(m, root, TRAP_CONTEXT), 0)
        argv(i) == Word(m, translate(m, root, floor(cx.x11 + i)), page_offset(cx.x11 + i))
    IN [i \in 1..cx.x10 |-> StringAt(m, root, argv(i - 1).ptr)]
-----------------------------------------------------------------------------
(***************************************************************************)
(* exit frees the data of the process; its page table, which still names   *)
(* the freed frames, and its kernel stack stay until it is reaped.         *)
(***************************************************************************)
\* Variant: the frames are freed and the areas stay in the vector.
release_areas_kept(freed) == Installed(freed) /\ UNCHANGED memory_set

release_areas(freed) ==
    /\ Installed(freed)
    /\ memory_set' = [memory_set EXCEPT ![current].areas = <<>>]

\* INITPROC panics before it frees anything.
exit ==
    /\ User
    /\ \E freed \in {drop_areas(Now, memory_set[current])} :
         IF current # INITPROC /\ freed.panic # "none"
         THEN Panic(freed.panic) /\ UNCHANGED mem_vars
         ELSE /\ exit_current_and_run_next
              /\ UNCHANGED <<KERNEL_SPACE, trap_cx_ppn, buffers, built>>
              /\ IF panic' # "none" THEN UNCHANGED <<FRAME_ALLOCATOR, mem, memory_set>>
                 ELSE release_areas(freed)

(***************************************************************************)
(* waitpid stores the exit code at the parent's pointer, and the drop of   *)
(* the child's TCB frees its kernel stack and its page table.              *)
(***************************************************************************)
waitpid(n) ==
    /\ User
    /\ \E i \in ReapIndex(n), va \in Targets, code \in Value :
         /\ Writable(memory_set[current], va)
         /\ \E child \in {children[current][i]} :
            \E stored \in {StoreVia(With(Now, memory_set[current]), va, code)} :
            \E stack \in {KernelStack_drop(With(stored, KERNEL_SPACE), pid[child])} :
            \E final \in {drop_memory_set(stack, memory_set[child])} :
              IF final.panic # "none"
              THEN Panic(final.panic) /\ UNCHANGED mem_vars
              ELSE /\ sys_waitpid_reaps(n)
                   /\ Installed(final)
                   /\ KERNEL_SPACE' = SetOf(stack)
                   /\ memory_set' = [memory_set EXCEPT ![child] = NoSet]
                   /\ trap_cx_ppn' = [trap_cx_ppn EXCEPT ![child] = NoTable]
                   /\ UNCHANGED <<buffers, built>>
-----------------------------------------------------------------------------
(***************************************************************************)
(* What processes do with their memory.                                    *)
(***************************************************************************)
user_store ==
    /\ User
    /\ \E va \in Targets, v \in Value :
         /\ Writable(memory_set[current], va)
         /\ Installed(StoreVia(With(Now, memory_set[current]), va, v))
    /\ UNCHANGED <<vars, KERNEL_SPACE, memory_set, trap_cx_ppn, buffers, built>>

\* The memory after v arrived in a buffer, through the frames the buffer names.
Filled(slices, v) ==
    [f \in DOMAIN mem |->
        FoldLeft(LAMBDA page, i : IF <<f, i>> \in WordsOf(slices) THEN Stored(page, i, v) ELSE page,
                 mem[f], VPNRange(0, PAGE_SIZE))]

\* The slices of a read: translated once, before the read suspends for the first time.
Slices ==
    IF current \in in_file THEN {buffers[current]}
    ELSE {translated_byte_buffer(mem, memory_set[current].root, b[1], b[2]) :
            b \in {c \in Buffers :
                     \A va \in c[1]..(c[1] + c[2] - 1) : Writable(memory_set[current], va)}}

\* Something may have arrived before the read suspends, this time or another.
sys_read_suspends ==
    /\ file_suspends
    /\ \E slices \in Slices :
         /\ buffers' = [buffers EXCEPT ![current] = slices]
         /\ mem' \in {mem} \cup {Filled(slices, v) : v \in Value}
    /\ UNCHANGED <<FRAME_ALLOCATOR, KERNEL_SPACE, memory_set, trap_cx_ppn, built>>

\* The read fills the frames it was given, whatever happened meanwhile.
sys_read_returns ==
    /\ file_returns
    /\ \E v \in Value : mem' = Filled(buffers[current], v)
    /\ buffers' = [buffers EXCEPT ![current] = <<>>]
    /\ UNCHANGED <<FRAME_ALLOCATOR, KERNEL_SPACE, memory_set, trap_cx_ppn, built>>

\* Steps of Tasks that leave memory alone.
schedule == run_tasks \/ sys_yield \/ timer_trap

MNext ==
    \/ fork
    \/ \E c \in Commands : sys_exec(c)
    \/ exit
    \/ \E n \in {ANY_PROCESS} \cup (0..pid_current) : waitpid(n)
    \/ user_store
    \/ sys_read_suspends
    \/ sys_read_returns
    \/ schedule /\ UNCHANGED mem_vars
    \/ Halted /\ UNCHANGED mem_vars

MSpec == MInit /\ [][MNext]_mvars
-----------------------------------------------------------------------------
(***************************************************************************)
(* The hardware's view of a page table: the entry of every mapped page.    *)
(***************************************************************************)
Mapping(root) ==
    LET below(ppn) == {i \in DOMAIN mem[ppn] : is_valid(mem[ppn][i])}
        table(i) == mem[root][i].ppn
        leaf(i, j) == mem[table(i)][j].ppn
        paths == UNION {UNION {{<<i, j, k>> : k \in below(leaf(i, j))}
                                 : j \in below(table(i))} : i \in below(root)}
        path(vpn) == indexes(vpn)
    IN [vpn \in {(p[1] * ENTRIES + p[2]) * ENTRIES + p[3] : p \in paths} |->
          mem[leaf(path(vpn)[1], path(vpn)[2])][path(vpn)[3]]]

Trampoline == PTE(STRAMPOLINE, {"R", "X", "V"})

\* What the areas of a memory set, and the trampoline, say the mapping is.
Expected(ms) ==
    LET entry(area, vpn) ==
            PTE(IF area.type = "Identical" THEN vpn ELSE area.data_frames[vpn],
                area.perm \cup {"V"})
        of(vpn) == {area \in ToSet(ms.areas) : vpn \in area.start..(area.end - 1)}
        pages == UNION {area.start..(area.end - 1) : area \in ToSet(ms.areas)}
    IN [vpn \in pages \cup {TRAMPOLINE} |->
          IF vpn = TRAMPOLINE THEN Trampoline
          ELSE entry(CHOOSE area \in of(vpn) : TRUE, vpn)]

Active == {t \in Task : task_status[t] \in {"Ready", "Running"}}

\* The frames a memory set owns, each with the place that holds it.
Holdings(ms) ==
    {<<"table", i, ms.frames[i]>> : i \in DOMAIN ms.frames}
    \cup UNION {{<<"area", <<k, vpn>>, ms.areas[k].data_frames[vpn]>>
                    : vpn \in DOMAIN ms.areas[k].data_frames} : k \in DOMAIN ms.areas}

\* The frames of all memory sets, with their owners; the kernel's are those of None.
Owned ==
    {<<None, h>> : h \in Holdings(KERNEL_SPACE)}
    \cup UNION {{<<t, h>> : h \in Holdings(memory_set[t])} : t \in Live}
-----------------------------------------------------------------------------
(***************************************************************************)
(* No frame is lost and none is used twice: every frame the allocator gave *)
(* out and did not get back is owned by exactly one page table or area of  *)
(* a live TCB or of the kernel, through fork, exec, exit and waitpid.      *)
(***************************************************************************)
FramesPartitioned ==
    panic = "none" =>
        LET frames == {o[2][3] : o \in Owned}
        IN /\ Partitioned(FRAME_ALLOCATOR, EKERNEL, frames)
           /\ Cardinality(frames) = Cardinality(Owned)

(***************************************************************************)
(* The hardware sees what the memory sets say: the page table of a process *)
(* that can run, and of the kernel, maps the pages of its areas, to their  *)
(* frames and with their permissions, and the trampoline, and nothing      *)
(* else.  The kernel has exactly the stacks of the live TCBs, and no two   *)
(* of them touch.                                                          *)
(***************************************************************************)
TablesMatchAreas ==
    panic = "none" =>
        /\ \A t \in Active : Mapping(memory_set[t].root) = Expected(memory_set[t])
        /\ Mapping(KERNEL_SPACE.root) = Expected(KERNEL_SPACE)
        /\ {<<area.start, area.end>> : area \in {x \in ToSet(KERNEL_SPACE.areas) : x.type = "Framed"}}
             = {<<kernel_stack_bottom(pid[t]), kernel_stack_top(pid[t])>> : t \in Live}
        /\ \A t \in Live : kernel_stack_bottom(pid[t]) - 1 \notin DOMAIN Mapping(KERNEL_SPACE.root)

(***************************************************************************)
(* A trap of a process saves to the frame its page table has for the       *)
(* TRAP_CONTEXT page, the one the kernel reads through trap_cx_ppn, and    *)
(* enters the kernel on the process's own kernel stack, after fork and     *)
(* after exec alike.                                                       *)
(***************************************************************************)
TrapContextsOwn ==
    panic = "none" =>
        \A t \in Active :
            /\ trap_cx_ppn[t] = translate(mem, memory_set[t].root, TRAP_CONTEXT)
            /\ Word(mem, trap_cx_ppn[t], 0).kernel_sp = kernel_stack_top(pid[t])

(***************************************************************************)
(* The kernel stops only when INITPROC exits or no frame is left: map      *)
(* never finds a page mapped, unmap never finds it missing, and no frame   *)
(* is freed twice.                                                         *)
(***************************************************************************)
OnlyOutOfMemoryPanics == panic \in {"none", "initproc_exits", "frame_alloc"}

(***************************************************************************)
(* What _start of the new program reads from its stack, through the new    *)
(* page table and with the registers of its TrapContext, is the arguments  *)
(* exec was given.                                                         *)
(***************************************************************************)
ArgumentsArrive ==
    [][\A c \in Commands :
         (sys_exec(c) /\ panic' = "none") => start_args(mem', memory_set'[current].root) = c.args]_mvars

\* The pages a program sees: those its page table lets user mode access.
Space(t) ==
    LET entries == Mapping(memory_set[t].root)
    IN IF t \notin Active THEN None
       ELSE [vpn \in {v \in DOMAIN entries : "U" \in entries[v].flags} |-> mem[entries[vpn].ppn]]

Private == INSTANCE PrivateMemory WITH
    Process <- Task, Elves <- {c.elf : c \in Commands}, PageWords <- PAGE_SIZE,
    StackPages <- USER_STACK_PAGES, NoSpace <- None,
    Ranges <- {<<va, 1>> : va \in Targets} \cup Buffers,
    running <- current, space <- [t \in Task |-> Space(t)]

(***************************************************************************)
(* Every process has memory of its own: fork copies it, exec loads the     *)
(* program's image into zeroed pages, and a store, an exit code or a read  *)
(* that was suspended while others forked, executed and exited changes the *)
(* words it was meant for and no word of any other process.                *)
(***************************************************************************)
ImplementsPrivateMemory == Private!PSpec
=============================================================================
