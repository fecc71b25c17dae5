------------------------------- MODULE Tasks -------------------------------
(***************************************************************************)
(* The process core of the kernel (os/src/task): task control blocks, the  *)
(* pid allocator and the kernel stacks, the ready queue (TASK_MANAGER),    *)
(* the processor and the map PID_TO_TASK, driven by fork, exit, waitpid,   *)
(* yield, the timer and the file calls that suspend inside the kernel.     *)
(*                                                                         *)
(* There is one hart and kernel mode is never preempted, so a system call  *)
(* is one step unless it calls suspend_current_and_run_next.  A TCB lives  *)
(* as long as an Arc to it does.  Handles(t) is the set of places that     *)
(* hold one.  A failed assertion, unwrap or RefCell borrow shuts the       *)
(* machine down: the site is recorded in panic and nothing happens after.  *)
(* Freeing the stack under the running kernel is recorded there as well.   *)
(* The exit code and the contents of memory are data no property here      *)
(* tells apart, and are left out.                                          *)
(*                                                                         *)
(* A definition whose comment begins with "Variant" is a wrong version of  *)
(* the definition that follows it, kept to show that the properties below  *)
(* notice the difference.  No specification uses it.                       *)
(***************************************************************************)
EXTENDS Integers, Sequences, SequencesExt

CONSTANTS
    Task,       \* the TCBs that can exist at one time (the bound on the heap)
    INITPROC,   \* the TCB of the static INITPROC
    None

ASSUME TaskAssumption == INITPROC \in Task /\ None \notin Task

VARIABLES
    task_status,    \* per TCB; "Free" where no TCB is allocated
    pid,            \* per TCB: PidHandle
    parent,         \* per TCB: the weak pointer, or None
    children,       \* per TCB: the vector of Arcs
    in_file,        \* the tasks suspended inside File::read or File::write
    ready_queue,    \* TASK_MANAGER
    current,        \* PROCESSOR.current
    PID_TO_TASK,
    pid_current,    \* PID_ALLOCATOR.current
    recycled,       \* PID_ALLOCATOR.recycled
    kernel_stacks,  \* the pids whose kernel stack is mapped in KERNEL_SPACE
    panic           \* "none", or the site at which the kernel stopped

tcb_vars   == <<task_status, pid, parent, children, in_file>>
sched_vars == <<ready_queue, current, PID_TO_TASK>>
pid_vars   == <<pid_current, recycled, kernel_stacks>>
vars       == <<tcb_vars, sched_vars, pid_vars, panic>>

Live == {t \in Task : task_status[t] # "Free"}

(***************************************************************************)
(* The Arcs to t: one per slot that holds one.  sys_read and sys_write     *)
(* keep the Arc of current_task() in their frame while the file suspends.  *)
(***************************************************************************)
Handles(t) ==
    {<<"INITPROC">> : x \in {t} \cap {INITPROC}}
    \cup {<<"current">> : x \in {t} \cap {current}}
    \cup {<<"frame">> : x \in {t} \cap in_file}
    \cup {<<"ready_queue", i>> : i \in {j \in DOMAIN ready_queue : ready_queue[j] = t}}
    \cup {<<"PID_TO_TASK", n>> : n \in {m \in DOMAIN PID_TO_TASK : PID_TO_TASK[m] = t}}
    \cup UNION {{<<"children", p, i>> : i \in {j \in DOMAIN children[p] : children[p][j] = t}}
                  : p \in Task}

(***************************************************************************)
(* INITPROC is created from its ELF file with the first pid and queued.    *)
(***************************************************************************)
Init ==
    /\ task_status = [t \in Task |-> IF t = INITPROC THEN "Ready" ELSE "Free"]
    /\ pid = [t \in Task |-> 0]
    /\ parent = [t \in Task |-> None]
    /\ children = [t \in Task |-> <<>>]
    /\ in_file = {}
    /\ ready_queue = <<INITPROC>>
    /\ current = None
    /\ PID_TO_TASK = [n \in {0} |-> INITPROC]
    /\ pid_current = 1
    /\ recycled = <<>>
    /\ kernel_stacks = {0}
    /\ panic = "none"

Panic(site) == panic' = site /\ UNCHANGED <<tcb_vars, sched_vars, pid_vars>>

\* A task executes in user mode: it may trap with any system call.
User == panic = "none" /\ current # None /\ current \notin in_file
-----------------------------------------------------------------------------
(***************************************************************************)
(* Scheduling.                                                             *)
(***************************************************************************)
NewMapping(n, t) ==
    [m \in DOMAIN PID_TO_TASK \cup {n} |-> IF m = n THEN t ELSE PID_TO_TASK[m]]

add_task(t) ==
    /\ PID_TO_TASK' = NewMapping(pid[t], t)
    /\ ready_queue' = Append(ready_queue, t)

\* Variant: current() in place of take_current().
suspend_with_arc_kept ==
    /\ task_status' = [task_status EXCEPT ![current] = "Ready"]
    /\ add_task(current)
    /\ UNCHANGED current

suspend_current_and_run_next ==
    /\ task_status' = [task_status EXCEPT ![current] = "Ready"]
    /\ add_task(current)
    /\ current' = None

\* Variant: pop_back in place of pop_front.
run_tasks_lifo ==
    /\ panic = "none" /\ current = None /\ ready_queue # <<>>
    /\ current' = Last(ready_queue)
    /\ ready_queue' = Front(ready_queue)
    /\ task_status' = [task_status EXCEPT ![current'] = "Running"]
    /\ UNCHANGED <<pid, parent, children, in_file, PID_TO_TASK, pid_vars, panic>>

\* The loop of run_tasks spins (a stuttering step) while the queue is empty.
run_tasks ==
    /\ panic = "none" /\ current = None /\ ready_queue # <<>>
    /\ current' = Head(ready_queue)
    /\ ready_queue' = Tail(ready_queue)
    /\ task_status' = [task_status EXCEPT ![current'] = "Running"]
    /\ UNCHANGED <<pid, parent, children, in_file, PID_TO_TASK, pid_vars, panic>>

sys_yield ==
    /\ User
    /\ suspend_current_and_run_next
    /\ UNCHANGED <<pid, parent, children, in_file, pid_vars, panic>>

\* A timer interrupt is taken in user mode only.
timer_trap ==
    /\ User
    /\ suspend_current_and_run_next
    /\ UNCHANGED <<pid, parent, children, in_file, pid_vars, panic>>

\* A read or write of a pipe, or a read of stdin, that cannot proceed.
file_suspends ==
    /\ panic = "none" /\ current # None
    /\ in_file' = in_file \cup {current}
    /\ suspend_current_and_run_next
    /\ UNCHANGED <<pid, parent, children, pid_vars, panic>>

\* The loop of the read or write ends; its frame drops the Arc.
file_returns ==
    /\ panic = "none" /\ current \in in_file
    /\ in_file' = in_file \ {current}
    /\ UNCHANGED <<task_status, pid, parent, children, sched_vars, pid_vars, panic>>
-----------------------------------------------------------------------------
(***************************************************************************)
(* fork.                                                                   *)
(***************************************************************************)
pid_alloc_result == IF recycled = <<>> THEN pid_current ELSE Last(recycled)

\* Variant: the recycled pid is read but not popped.
pid_alloc_peek ==
    IF recycled = <<>>
    THEN pid_current' = pid_current + 1 /\ UNCHANGED recycled
    ELSE UNCHANGED <<pid_current, recycled>>

pid_alloc ==
    IF recycled = <<>>
    THEN pid_current' = pid_current + 1 /\ UNCHANGED recycled
    ELSE recycled' = Front(recycled) /\ UNCHANGED pid_current

\* Mapping a kernel stack over one that is still mapped fails an assertion.
sys_fork ==
    /\ User
    /\ \E child \in Task \ Live :
         LET n == pid_alloc_result IN
         IF n \in kernel_stacks
         THEN Panic("kernel_stack_mapped")
         ELSE /\ pid_alloc
              /\ kernel_stacks' = kernel_stacks \cup {n}
              /\ pid' = [pid EXCEPT ![child] = n]
              /\ task_status' = [task_status EXCEPT ![child] = "Ready"]
              /\ parent' = [parent EXCEPT ![child] = current]
              /\ children' = [children EXCEPT ![current] = Append(@, child)]
              /\ PID_TO_TASK' = NewMapping(n, child)
              /\ ready_queue' = Append(ready_queue, child)
              /\ UNCHANGED <<in_file, current, panic>>
-----------------------------------------------------------------------------
(***************************************************************************)
(* exit_current_and_run_next: sys_exit, and the end of trap_handler when a *)
(* pending signal is fatal.                                                *)
(***************************************************************************)
\* Variant: the entry stays.
keep_in_pid_to_task(n) == UNCHANGED PID_TO_TASK

remove_from_pid_to_task(n) == PID_TO_TASK' = Restrict(PID_TO_TASK, DOMAIN PID_TO_TASK \ {n})

\* Variant: the children are not pushed to INITPROC's vector.
reparent_backpointers_only(t) ==
    /\ parent' = [c \in Task |-> IF c \in ToSet(children[t]) THEN INITPROC ELSE parent[c]]
    /\ children' = [children EXCEPT ![t] = <<>>]

\* Variant: the children keep their weak pointers to the parent that exits.
reparent_vectors_only(t) ==
    /\ children' = [children EXCEPT ![INITPROC] = @ \o children[t], ![t] = <<>>]
    /\ UNCHANGED parent

\* The children of t go, in order, to the end of INITPROC's vector.
reparent(t) ==
    /\ parent' = [c \in Task |-> IF c \in ToSet(children[t]) THEN INITPROC ELSE parent[c]]
    /\ children' = [children EXCEPT ![INITPROC] = @ \o children[t], ![t] = <<>>]

(***************************************************************************)
(* The inner cell of the current task is borrowed when INITPROC's is, so   *)
(* INITPROC cannot exit.  The Arc of the processor and the one of          *)
(* PID_TO_TASK are dropped: if no other is left, the TCB and the kernel    *)
(* stack the kernel is running on are freed.                               *)
(***************************************************************************)
exit_current_and_run_next ==
    /\ User
    /\ IF current = INITPROC
       THEN Panic("initproc_exits")
       ELSE IF pid[current] \notin DOMAIN PID_TO_TASK
       THEN Panic("pid_to_task")
       ELSE IF Handles(current) \subseteq {<<"current">>, <<"PID_TO_TASK", pid[current]>>}
       THEN Panic("running_stack_freed")
       ELSE /\ task_status' = [task_status EXCEPT ![current] = "Zombie"]
            /\ reparent(current)
            /\ remove_from_pid_to_task(pid[current])
            /\ current' = None
            /\ UNCHANGED <<pid, in_file, ready_queue, pid_vars, panic>>
-----------------------------------------------------------------------------
(***************************************************************************)
(* waitpid.  The TCB of a reaped child is dropped: its pid is recycled and *)
(* its kernel stack unmapped.                                              *)
(***************************************************************************)
ANY_PROCESS == -1

Wanted(c, n) == n = ANY_PROCESS \/ n = pid[c]

IsReapable(i, n) ==
    /\ i \in DOMAIN children[current]
    /\ task_status[children[current][i]] = "Zombie"
    /\ Wanted(children[current][i], n)

\* Variant: the search runs from the end of the vector.
ReapIndex_last(n) ==
    {i \in DOMAIN children[current] :
        IsReapable(i, n) /\ \A j \in (i+1)..Len(children[current]) : ~IsReapable(j, n)}

\* The first child in the vector that is a zombie and wanted.
ReapIndex(n) ==
    {i \in DOMAIN children[current] : IsReapable(i, n) /\ \A j \in 1..(i-1) : ~IsReapable(j, n)}

\* Variant: KernelStack has no Drop.
drop_tcb_keep_stack(c) ==
    /\ task_status' = [task_status EXCEPT ![c] = "Free"]
    /\ parent' = [parent EXCEPT ![c] = None]
    /\ pid' = [pid EXCEPT ![c] = 0]
    /\ recycled' = Append(recycled, pid[c])
    /\ UNCHANGED <<kernel_stacks, pid_current>>

drop_tcb(c) ==
    /\ task_status' = [task_status EXCEPT ![c] = "Free"]
    /\ parent' = [parent EXCEPT ![c] = None]
    /\ pid' = [pid EXCEPT ![c] = 0]
    /\ recycled' = Append(recycled, pid[c])
    /\ kernel_stacks' = kernel_stacks \ {pid[c]}
    /\ UNCHANGED pid_current

sys_waitpid_reaps(n) ==
    /\ User
    /\ \E i \in ReapIndex(n) :
         LET child == children[current][i] IN
         IF Handles(child) # {<<"children", current, i>>}
         THEN Panic("strong_count")
         ELSE IF pid[child] >= pid_current \/ pid[child] \in ToSet(recycled)
         THEN Panic("pid_dealloc")
         ELSE /\ children' = [children EXCEPT ![current] = RemoveAt(@, i)]
              /\ drop_tcb(child)
              /\ UNCHANGED <<in_file, sched_vars, panic>>

\* NO_CHILDREN_RUNNING or CHILDREN_RUNNING is returned and nothing changes.
sys_waitpid_fails(n) ==
    /\ User
    /\ ReapIndex(n) = {}
    /\ UNCHANGED vars

Halted == panic # "none" /\ UNCHANGED vars

Next ==
    \/ run_tasks
    \/ sys_yield
    \/ timer_trap
    \/ file_suspends
    \/ file_returns
    \/ sys_fork
    \/ exit_current_and_run_next
    \/ \E n \in {ANY_PROCESS} \cup (0..pid_current) :
         sys_waitpid_reaps(n) \/ sys_waitpid_fails(n)
    \/ Halted

Spec == Init /\ [][Next]_vars
-----------------------------------------------------------------------------
(***************************************************************************)
(* The variables have the types of the Rust fields they stand for.         *)
(***************************************************************************)
TypeOK ==
    /\ task_status \in [Task -> {"Free", "Ready", "Running", "Zombie"}]
    /\ pid \in [Task -> Nat]
    /\ parent \in [Task -> Task \cup {None}]
    /\ children \in [Task -> Seq(Task)]
    /\ in_file \in SUBSET Task
    /\ ready_queue \in Seq(Task)
    /\ current \in Task \cup {None}
    /\ DOMAIN PID_TO_TASK \in SUBSET Nat
    /\ PID_TO_TASK \in [DOMAIN PID_TO_TASK -> Task]
    /\ pid_current \in Nat
    /\ recycled \in Seq(Nat)
    /\ kernel_stacks \in SUBSET Nat
    /\ panic \in {"none", "kernel_stack_mapped", "initproc_exits", "pid_to_task",
                 "running_stack_freed", "strong_count", "pid_dealloc"}

(***************************************************************************)
(* No sequence of system calls stops the kernel except the exit of         *)
(* INITPROC: the assertions of waitpid (a zombie is held by its parent     *)
(* alone), of PidAllocator::dealloc and of PageTable::map, and the lookup  *)
(* of remove_from_pid_to_task, never fail.                                 *)
(***************************************************************************)
OnlyInitprocExitPanics == panic \in {"none", "initproc_exits"}

(***************************************************************************)
(* A task is in exactly one place: the processor when it is Running, one   *)
(* slot of the ready queue when it is Ready, neither once it is a Zombie.  *)
(* As INITPROC never leaves, run_tasks never finds the queue empty.        *)
(***************************************************************************)
OnePlace ==
    /\ IsInjective(ready_queue)
    /\ \A t \in Task : /\ task_status[t] = "Ready" <=> t \in ToSet(ready_queue)
                       /\ task_status[t] = "Running" <=> t = current
    /\ task_status[INITPROC] \in {"Ready", "Running"}

(***************************************************************************)
(* The process tree: every TCB but INITPROC's is in the vector of exactly  *)
(* one task, once, and that task has not exited and is the one its weak    *)
(* parent pointer names.  So reparenting at exit loses no process and no   *)
(* zombie is left without a parent to reap it.                             *)
(***************************************************************************)
FamilyTree ==
    /\ \A p \in Task :
         /\ IsInjective(children[p])
         /\ \A c \in Task : c \in ToSet(children[p]) <=>
                               c # INITPROC /\ c \in Live /\ parent[c] = p
    /\ \A c \in Live \ {INITPROC} : /\ parent[c] \in Task
                                   /\ task_status[parent[c]] \in {"Ready", "Running"}

(***************************************************************************)
(* PID_TO_TASK, through which sys_kill finds its target, holds every task  *)
(* that has not exited under its own pid, and nothing else.                *)
(***************************************************************************)
PidMapExact ==
    /\ DOMAIN PID_TO_TASK = {pid[t] : t \in {u \in Live : task_status[u] # "Zombie"}}
    /\ \A t \in Live : task_status[t] # "Zombie" => PID_TO_TASK[pid[t]] = t

(***************************************************************************)
(* A pid names one TCB from fork until it is reaped, then it is recycled:  *)
(* no pid is given twice and none is lost.  Exactly the pids in use have a *)
(* kernel stack mapped.                                                    *)
(***************************************************************************)
PidsPartitioned ==
    /\ \A t, u \in Live : pid[t] = pid[u] => t = u
    /\ IsInjective(recycled)
    /\ {pid[t] : t \in Live} \cap ToSet(recycled) = {}
    /\ {pid[t] : t \in Live} \cup ToSet(recycled) = 0..(pid_current - 1)
    /\ kernel_stacks = {pid[t] : t \in Live}

Family == INSTANCE Processes WITH
    Process <- Task,
    state <- [t \in Task |-> IF task_status[t] \in {"Ready", "Running"} THEN "Live"
                             ELSE task_status[t]]

(***************************************************************************)
(* To the programs the task structures are a family of processes: a TCB    *)
(* goes away only as a zombie and only by the waitpid of its own parent, a *)
(* zombie never runs again, and exit gives exactly the children of the     *)
(* process that exits to INITPROC.                                         *)
(***************************************************************************)
ImplementsProcesses == Family!FamilySpec
=============================================================================
