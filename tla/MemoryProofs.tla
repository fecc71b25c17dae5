---------------------------- MODULE MemoryProofs ----------------------------
(***************************************************************************)
(* Frames through fork, exec, exit and waitpid, for any number of tasks,   *)
(* any memory, any programs and any history of calls: MSpec never loses a  *)
(* frame and never has one in two places.  The steps of the functions are  *)
(* those of MemorySetProofs, and the process core is that of TasksProofs.  *)
(***************************************************************************)
EXTENDS Memory, TasksProofs, MemorySetProofs, FunctionTheorems

(***************************************************************************)
(* All claims: those of the kernel's memory set K, under the name None,    *)
(* and of the memory sets M of the tasks in L.                             *)
(***************************************************************************)
Others(M, L) == UNION {Claims(t, M[t]) : t \in L}

All(K, M, L) == Claims(None, K) \cup Others(M, L)

(***************************************************************************)
(* The inductive invariant.                                                *)
(***************************************************************************)
Running ==
    /\ IInv
    /\ IsSet(KERNEL_SPACE)
    /\ memory_set \in [Task -> {memory_set[t] : t \in Task}]
    /\ \A t \in Live : IsSet(memory_set[t])
    /\ Exact(FRAME_ALLOCATOR, All(KERNEL_SPACE, memory_set, Live))

MemInv == panic = "none" => Running

\* A task that is not in L claims nothing of it.
LEMMA OthersOwner ==
  ASSUME NEW M, NEW L, NEW o, o \notin L
  PROVE  OfOthers(o, Others(M, L))
<1> SUFFICES ASSUME NEW t \in L, NEW c \in Claims(t, M[t]) PROVE c[1] # o
  BY DEF OfOthers, Others
<1>1. QED BY ClaimsOwner

\* No task claims a frame of the kernel.
LEMMA KernelOwner ==
  ASSUME NEW K, NEW o, o # None
  PROVE  OfOthers(o, Claims(None, K))
  BY ClaimsOwner DEF OfOthers

\* Claims of others, put together.
LEMMA OfOthersUnion ==
  ASSUME NEW o, NEW C, NEW D, OfOthers(o, C), OfOthers(o, D)
  PROVE  OfOthers(o, C \cup D)
  BY DEF OfOthers

\* Memory sets that did not change have the same claims.
LEMMA OthersSame ==
  ASSUME NEW M, NEW N, NEW L, \A u \in L : N[u] = M[u]
  PROVE  Others(N, L) = Others(M, L)
  BY DEF Others

\* The claims of one task more.
LEMMA OthersAdded ==
  ASSUME NEW M, NEW L, NEW t, NEW X, X = L \cup {t}
  PROVE  Others(M, X) = Others(M, L) \cup Claims(t, M[t])
  BY DEF Others

\* What the machine of a step starts from.
LEMMA IsNow == IsMachine(Now) /\ Now.alloc = FRAME_ALLOCATOR /\ Now.mem = mem /\ Now.panic = "none"
  BY DEF Now, Machine, IsMachine

(***************************************************************************)
(* The memory sets other than those that are worked on.                    *)
(***************************************************************************)
LEMMA StackArea ==
  ASSUME NEW n \in Nat
  PROVE  IsArea(Framed(kernel_stack_bottom(n), kernel_stack_top(n), {"R", "W"}))
<1> DEFINE area == Framed(kernel_stack_bottom(n), kernel_stack_top(n), {"R", "W"})
<1>1. TRAMPOLINE \in Int
  BY EntriesAssumption DEF TRAMPOLINE
<1>2. n * (KERNEL_STACK_PAGES + 1) \in Int
  BY StackAssumption
<1>3. /\ kernel_stack_top(n) \in Int /\ kernel_stack_bottom(n) \in Int
      /\ kernel_stack_bottom(n) <= kernel_stack_top(n)
  BY <1>1, <1>2, StackAssumption DEF kernel_stack_top, kernel_stack_bottom
<1>4. area.start = kernel_stack_bottom(n) /\ area.end = kernel_stack_top(n)
  BY DEF Framed
<1>5. area = [start |-> area.start, end |-> area.end, type |-> area.type, perm |-> area.perm,
              data_frames |-> area.data_frames]
  BY DEF Framed
<1>6. QED BY <1>3, <1>4, <1>5 DEF IsArea

\* KernelStack::new: the frames of the stack become the kernel's.
LEMMA KernelStackNew ==
  ASSUME NEW s, NEW o, NEW R, OwnsSet(o, R, s), NEW n \in Nat, NEW t, t = KernelStack_new(s, n)
  PROVE  OwnsSet(o, R, t) /\ (t.panic = "none" => s.panic = "none")
  BY StackArea, EmptyIsSeq, Push DEF KernelStack_new

\* The TrapContext that exec and new write changes the memory alone.
LEMMA SetTrapContextOnlyStores ==
  ASSUME NEW s, IsMachine(s), NEW cx
  PROVE  OnlyStores(s, SetTrapContext(s, cx))
<1>1. CASE s.panic # "none"
  BY <1>1 DEF SetTrapContext, OnlyStores, Keeps
<1>2. CASE s.panic = "none"
  BY <1>2, StoreViaOnlyStores DEF SetTrapContext
<1>3. QED BY <1>1, <1>2

\* The kernel_sp that fork writes changes the memory alone.
LEMMA ChildContextOnlyStores ==
  ASSUME NEW s, IsMachine(s), NEW n
  PROVE  OnlyStores(s, child_context(s, n))
<1>1. CASE s.panic # "none"
  BY <1>1 DEF child_context, OnlyStores, Keeps
<1>2. CASE s.panic = "none"
  BY <1>2, StoreViaOnlyStores DEF child_context
<1>3. QED BY <1>1, <1>2

(***************************************************************************)
(* The arguments of exec are stored, one after the other.                  *)
(***************************************************************************)
args_turn(c, unused, t, i) == push_arg(t, c, i)

ArgsLoop == INSTANCE Loops WITH op <- args_turn, Inv <- StoreInv

\* One argument of exec: the string and its pointer.
LEMMA PushArgOnlyStores ==
  ASSUME NEW s, IsMachine(s), NEW c, NEW i, SomeSeq(c.args[i])
  PROVE  OnlyStores(s, push_arg(s, c, i))
<1> DEFINE words == Append(c.args[i], ZERO)
           t == StoreAll(s, arg_va(c, i), words)
<1>1. SomeSeq(words)
  BY SomeSeqFacts
<1> HIDE DEF words
<1>2. OnlyStores(s, t) /\ IsMachine(t)
  BY <1>1, StoreAllOnlyStores DEF OnlyStores
<1>3. push_arg(s, c, i) = StoreVia(t, argv_base(c) + i - 1, [ptr |-> arg_va(c, i)])
  BY DEF push_arg, words
<1> HIDE DEF t
<1>4. OnlyStores(t, push_arg(s, c, i))
  BY <1>2, <1>3, StoreViaOnlyStores
<1>5. QED BY <1>2, <1>4, OnlyStoresTrans

\* All arguments of exec change the memory alone.
LEMMA PushArgsOnlyStores ==
  ASSUME NEW s, IsMachine(s), NEW c \in Commands
  PROVE  OnlyStores(s, push_args(s, c))
<1> DEFINE q == [i \in DOMAIN c.args |-> i]
           z == StoreVia(s, argv_base(c) + Len(c.args), ZERO)
<1>1. CASE s.panic # "none"
  BY <1>1 DEF push_args, OnlyStores, Keeps
<1>2. CASE s.panic = "none"
  <2>1. push_args(s, c) = ArgsLoop!Run(c, 0, z, q)
    BY <1>2, Zenon DEF push_args, ForEach, ArgsLoop!Run, args_turn
  <2>2. SomeSeq(c.args) /\ \A i \in DOMAIN c.args : SomeSeq(c.args[i])
    BY ElfAssumption DEF IsArgs, SomeSeq
  <2>3. Len(q) \in Nat /\ Len(q) = Len(c.args)
    BY <2>2, IndexSeq
  <2>4. OnlyStores(s, z)
    BY StoreViaOnlyStores
  <2> HIDE DEF z
  <2>5. StoreInv(s, 0, z)
    BY <2>4 DEF StoreInv
  <2>6. ASSUME NEW i \in 1..Len(q), NEW u, StoreInv(s, i - 1, u)
        PROVE  StoreInv(s, i, IF u.panic # "none" THEN u ELSE args_turn(c, 0, u, q[i]))
    <3>1. OnlyStores(s, u) /\ IsMachine(u)
      BY <2>6 DEF StoreInv, OnlyStores
    <3> DEFINE w == push_arg(u, c, i)
    <3>2. i \in DOMAIN c.args
      BY <2>2, <2>3, SomeSeqFacts
    <3>3. OnlyStores(u, w) /\ q[i] = i
      BY <3>1, <3>2, <2>2, PushArgOnlyStores
    <3> HIDE DEF w
    <3>4. OnlyStores(s, w)
      BY <3>1, <3>3, OnlyStoresTrans
    <3>5. QED BY <3>1, <3>3, <3>4 DEF StoreInv, args_turn, w
  <2> HIDE DEF q
  <2>7. StoreInv(s, Len(q), ArgsLoop!Run(c, 0, z, q))
    <3>1. ArgsLoop!Induction
      BY UpTo DEF ArgsLoop!Induction
    <3>2. QED BY <3>1, <2>3, <2>5, <2>6, ArgsLoop!LoopInvariant
  <2>8. QED BY <2>1, <2>7 DEF StoreInv
<1>3. QED BY <1>1, <1>2

\* The boot: KERNEL_SPACE, the memory set of INITPROC and its kernel stack.
LEMMA InitMemInv ==
  ASSUME MInit
  PROVE  MemInv
<1> DEFINE kernel == new_kernel(boot)
           user == from_elf(kernel, InitElf)
           K == SetOf(kernel)
           U == SetOf(user)
           stack == KernelStack_new(With(user, K), 0)
           final == SetTrapContext(With(stack, U), app_init_context(0, 0, 0))
<1>1. /\ final.panic = "none" /\ Init
      /\ FRAME_ALLOCATOR = final.alloc /\ KERNEL_SPACE = SetOf(stack)
      /\ memory_set = [t \in Task |-> IF t = INITPROC THEN U ELSE NoSet]
  BY DEF MInit
<1>2. IsMachine(boot) /\ Exact(boot.alloc, {})
  <2>1. IsMachine(boot) /\ boot.alloc = new_allocator(EKERNEL, MEMORY_END)
    BY DEF boot, Machine, IsMachine
  <2>2. FramesOf({}) = {}
    BY DEF FramesOf
  <2>3. QED BY <2>1, <2>2, InitPartitions, FramesAssumption DEF Exact
<1>3. OwnsSet(None, {}, kernel) /\ IsMachine(kernel)
  BY <1>2, NewKernel DEF OwnsSet, Holds
<1> HIDE DEF kernel
<1>4. kernel.panic = "none" => IsSet(K) /\ Exact(kernel.alloc, Claims(None, K))
  <2>1. {} \cup Claims(None, K) = Claims(None, K)
    OBVIOUS
  <2>2. QED BY <1>3, <2>1, HasSet
<1> HIDE DEF K
<1>5. /\ OwnsSet(INITPROC, Claims(None, K), user) /\ IsMachine(user)
      /\ user.panic = "none" => kernel.panic = "none"
  BY <1>3, <1>4, ElfAssumption, FromElf DEF OwnsSet, Holds
<1> HIDE DEF user
<1>6. user.panic = "none" => /\ IsSet(U) /\ IsSet(K) /\ IsMachine(user)
                             /\ Exact(user.alloc, Claims(None, K) \cup Claims(INITPROC, U))
  BY <1>4, <1>5, HasSet
<1> DEFINE w == With(user, K)
<1> HIDE DEF U
<1>7. SomeSeq(K.frames)
  BY <1>3 DEF OwnsSet, Holds, K, SetOf
<1>8. /\ OwnsSet(None, Claims(INITPROC, U), stack) /\ IsMachine(stack)
      /\ stack.panic = "none" => user.panic = "none"
  <2>1. user.panic = "none" => IsSet(K) /\ Exact(user.alloc, Claims(INITPROC, U) \cup Claims(None, K))
    <3>1. Claims(None, K) \cup Claims(INITPROC, U) = Claims(INITPROC, U) \cup Claims(None, K)
      OBVIOUS
    <3>2. QED BY <3>1, <1>6
  <2>2. OwnsSet(None, Claims(INITPROC, U), w) /\ w.panic = user.panic
    BY <2>1, <1>5, <1>7, WorksOn
  <2> HIDE DEF w
  <2>3. QED BY <2>2, KernelStackNew DEF OwnsSet, Holds, w
<1> HIDE DEF stack
<1>9. OnlyStores(With(stack, U), final) /\ With(stack, U).panic = stack.panic /\ With(stack, U).alloc = stack.alloc
  <2>1. IsMachine(With(stack, U)) /\ With(stack, U).panic = stack.panic /\ With(stack, U).alloc = stack.alloc
    BY <1>8, WithFacts
  <2>2. QED BY <2>1, SetTrapContextOnlyStores
<1> HIDE DEF final
<1>10. stack.panic = "none" /\ final.alloc = stack.alloc
  BY <1>1, <1>9 DEF OnlyStores
<1>11. IsSet(SetOf(stack)) /\ Exact(stack.alloc, Claims(INITPROC, U) \cup Claims(None, SetOf(stack)))
  BY <1>8, <1>10, HasSet
<1>12. Live = {INITPROC} /\ memory_set[INITPROC] = U /\ INITPROC \in Task
  BY <1>1, TaskAssumption DEF Init, Live
<1>13. IInv
  BY <1>1, InitIInv
<1>14. All(KERNEL_SPACE, memory_set, Live) = Claims(INITPROC, U) \cup Claims(None, SetOf(stack))
  BY <1>1, <1>12 DEF All, Others
<1>15. memory_set \in [Task -> {memory_set[t] : t \in Task}]
  BY <1>1
<1>16. \A t \in Live : IsSet(memory_set[t])
  BY <1>6, <1>8, <1>10, <1>12
<1>17. Exact(FRAME_ALLOCATOR, All(KERNEL_SPACE, memory_set, Live)) /\ IsSet(KERNEL_SPACE)
  BY <1>1, <1>10, <1>11, <1>14
<1>18. QED BY <1>13, <1>15, <1>16, <1>17 DEF MemInv, Running

\* The current task is live and has a memory set.
LEMMA CurrentRuns ==
  ASSUME Running, panic = "none", current # None
  PROVE  /\ current \in Live /\ current \in Task /\ task_status[current] = "Running"
         /\ IsSet(memory_set[current]) /\ None \notin Live
<1>1. current \in Task /\ task_status[current] = "Running"
  BY DEF Running, IInv, TypeOK, OnePlace
<1>2. QED BY <1>1, TaskAssumption DEF Running, Live

\* A step that takes and frees no frame.
LEMMA SameSets ==
  ASSUME Running, IInv', Live' = Live, UNCHANGED <<FRAME_ALLOCATOR, KERNEL_SPACE, memory_set>>
  PROVE  Running'
  BY DEF Running

\* suspend_current_and_run_next makes and drops no TCB.
LEMMA SuspendKeepsLive ==
  ASSUME Running, panic = "none", current # None, suspend_current_and_run_next
  PROVE  Live' = Live
<1>1. /\ current \in Task /\ task_status[current] = "Running"
  BY CurrentRuns
<1>2. task_status' = [task_status EXCEPT ![current] = "Ready"] /\ DOMAIN task_status = Task
  BY DEF suspend_current_and_run_next, Running, IInv, TypeOK
<1>3. QED BY <1>1, <1>2 DEF Live

\* run_tasks, yield and the timer keep all claims.
LEMMA ScheduleRunning ==
  ASSUME Running, panic = "none", schedule, UNCHANGED mem_vars
  PROVE  Running'
<1>1. IInv'
  BY NextIInv DEF schedule, Next, Running
<1>2. Live' = Live
  <2>1. CASE run_tasks
    <3>1. Head(ready_queue) \in ToSet(ready_queue) /\ Head(ready_queue) \in Task
      BY <2>1, TailElements DEF run_tasks, Running, IInv, TypeOK, OnePlace
    <3>2. task_status[Head(ready_queue)] = "Ready"
      BY <3>1 DEF Running, IInv, OnePlace
    <3>3. task_status' = [task_status EXCEPT ![Head(ready_queue)] = "Running"] /\ DOMAIN task_status = Task
      BY <2>1 DEF run_tasks, Running, IInv, TypeOK
    <3>4. QED BY <3>1, <3>2, <3>3 DEF Live
  <2>2. CASE sys_yield \/ timer_trap
    BY <2>2, SuspendKeepsLive DEF sys_yield, timer_trap, User
  <2>3. QED BY <2>1, <2>2 DEF schedule
<1>3. QED BY <1>1, <1>2, SameSets DEF mem_vars

\* A store of a process keeps all claims.
LEMMA StoreRunning ==
  ASSUME Running, user_store
  PROVE  Running'
<1>1. PICK va \in Targets, v \in Value : Installed(StoreVia(With(Now, memory_set[current]), va, v))
  BY DEF user_store
<1>2. FRAME_ALLOCATOR' = FRAME_ALLOCATOR
  <2> DEFINE s == With(Now, memory_set[current])
             t == StoreVia(s, va, v)
  <2>1. IsMachine(s) /\ s.alloc = FRAME_ALLOCATOR
    BY IsNow, WithFacts
  <2> HIDE DEF s
  <2>2. OnlyStores(s, t)
    BY <2>1, StoreViaOnlyStores
  <2>3. FRAME_ALLOCATOR' = t.alloc
    BY <1>1 DEF Installed, s
  <2> HIDE DEF t
  <2>4. QED BY <2>1, <2>2, <2>3 DEF OnlyStores
<1>3. UNCHANGED vars /\ UNCHANGED <<KERNEL_SPACE, memory_set>>
  BY DEF user_store
<1>4. IInv'
  BY <1>3, NextIInv DEF Running
<1>5. Live' = Live
  BY <1>3 DEF vars, tcb_vars, Live
<1>6. QED BY <1>2, <1>3, <1>4, <1>5, SameSets

\* A read that suspends or returns keeps all claims.
LEMMA ReadRunning ==
  ASSUME Running, sys_read_suspends \/ sys_read_returns
  PROVE  Running'
<1>1. UNCHANGED <<FRAME_ALLOCATOR, KERNEL_SPACE, memory_set>>
  BY DEF sys_read_suspends, sys_read_returns
<1>2. file_suspends \/ file_returns
  BY DEF sys_read_suspends, sys_read_returns
<1>3. IInv'
  BY <1>2, NextIInv DEF Next, Running
<1>4. Live' = Live
  <2>1. CASE file_suspends
    BY <2>1, SuspendKeepsLive DEF file_suspends
  <2>2. CASE file_returns
    BY <2>2 DEF file_returns, Live
  <2>3. QED BY <1>2, <2>1, <2>2
<1>5. QED BY <1>1, <1>3, <1>4, SameSets

(***************************************************************************)
(* fork: a kernel stack and a copy of the memory set of the parent.        *)
(***************************************************************************)
LEMMA ForkRunning ==
  ASSUME Running, fork, panic' = "none"
  PROVE  Running'
<1> DEFINE n == pid_alloc_result
           K == KERNEL_SPACE
           M == memory_set
           R == Others(M, Live)
           w == With(Now, K)
           stack == KernelStack_new(w, n)
           copy == from_existed_user(stack, M[current])
           user == child_context(copy, n)
<1>1. User /\ panic = "none" /\ current # None
  BY DEF fork, User
<1>2. n \in Nat
  BY PidAllocFresh DEF Running, IInv
<1>3. /\ current \in Live /\ IsSet(M[current]) /\ None \notin Live
      /\ SomeSeq(K.frames) /\ MappedAreas(M[current].areas)
  BY <1>1, CurrentRuns DEF Running, IsSet
<1>4. user.panic = "none"
  BY <1>1, Zenon DEF fork, Panic
<1>5. PICK child \in Task \ Live :
         /\ sys_fork /\ task_status'[child] = "Ready" /\ Installed(user)
         /\ KERNEL_SPACE' = SetOf(stack)
         /\ memory_set' = [memory_set EXCEPT ![child] = SetOf(user)]
  BY <1>4, Zenon DEF fork
<1>6. OwnsSet(None, R, w)
  <2>1. Exact(FRAME_ALLOCATOR, R \cup Claims(None, K))
    <3>1. All(K, M, Live) = R \cup Claims(None, K)
      BY DEF All
    <3>2. QED BY <3>1 DEF Running
  <2>2. IsSet(K)
    BY DEF Running
  <2> HIDE DEF R, K
  <2>3. QED BY <2>1, <2>2, <1>3, IsNow, WorksOn
<1> HIDE DEF w, n
<1>7. OwnsSet(None, R, stack) /\ IsMachine(stack)
  BY <1>2, <1>6, KernelStackNew DEF OwnsSet, Holds
<1> DEFINE S == SetOf(stack)
           Q == R \cup Claims(None, S)
<1> HIDE DEF stack
<1>8. stack.panic = "none" => IsSet(S) /\ Exact(stack.alloc, Q)
  BY <1>7, HasSet
<1> HIDE DEF S, Q, R
<1>9. /\ OwnsSet(child, Q, copy) /\ IsMachine(copy)
      /\ copy.panic = "none" => stack.panic = "none"
  BY <1>3, <1>7, <1>8, FromExistedUser DEF OwnsSet, Holds
<1> HIDE DEF copy
<1>10. OnlyStores(copy, user)
  BY <1>9, ChildContextOnlyStores
<1> HIDE DEF user
<1>11. OwnsSet(child, Q, user) /\ copy.panic = "none"
  BY <1>4, <1>9, <1>10, OnlyStoresOwns DEF OnlyStores
<1>12. IsSet(SetOf(user)) /\ Exact(user.alloc, Q \cup Claims(child, SetOf(user)))
  BY <1>4, <1>11, HasSet
<1>13. IInv'
  BY <1>5, NextIInv DEF Next, Running
<1>14. Live' = Live \cup {child}
  <2>1. PICK c \in Task \ Live : task_status' = [task_status EXCEPT ![c] = "Ready"]
    BY <1>1, <1>5 DEF sys_fork, Panic
  <2>2. DOMAIN task_status = Task /\ task_status[child] = "Free"
    BY <1>5 DEF Running, IInv, TypeOK, Live
  <2>3. c = child
    BY <1>5, <2>1, <2>2
  <2>4. QED BY <2>1, <2>2, <2>3 DEF Live
<1>15. memory_set'[child] = SetOf(user) /\ \A t \in Live : memory_set'[t] = M[t]
  BY <1>5 DEF Running, Live
<1>16. All(KERNEL_SPACE', memory_set', Live') = Q \cup Claims(child, SetOf(user))
  <2> DEFINE N == memory_set'
             L == Live'
  <2>1. Others(N, L) = Others(N, Live) \cup Claims(child, N[child])
    BY <1>14, OthersAdded
  <2>2. Others(N, Live) = R
    BY <1>15, OthersSame DEF R
  <2>3. Others(N, L) = R \cup Claims(child, SetOf(user))
    BY <2>1, <2>2, <1>15
  <2>4. QED BY <2>3, <1>5 DEF All, Q, S
<1>17. memory_set' \in [Task -> {memory_set'[t] : t \in Task}]
  BY <1>5 DEF Running
<1>18. \A t \in Live' : IsSet(memory_set'[t])
  BY <1>12, <1>14, <1>15 DEF Running
<1>19. IsSet(KERNEL_SPACE') /\ FRAME_ALLOCATOR' = user.alloc
  BY <1>5, <1>8, <1>9, <1>11 DEF Installed, S
<1>20. Exact(FRAME_ALLOCATOR', All(KERNEL_SPACE', memory_set', Live'))
  BY <1>12, <1>16, <1>19
<1>21. QED BY <1>13, <1>17, <1>18, <1>19, <1>20 DEF Running

\* There is always a name that is not in use.
LEMMA FreshName ==
  ASSUME NEW S
  PROVE  \E x : x \notin S
<1> DEFINE x == {y \in S : y \notin y}
<1>1. x \notin S
  OBVIOUS
<1>2. QED BY <1>1

(***************************************************************************)
(* exec: the new memory set, under a name of its own while the old one     *)
(* exists, then the drop of the old one.                                   *)
(***************************************************************************)
LEMMA Renamed ==
  ASSUME NEW o, NEW p, NEW ms, NEW c \in Claims(p, ms)
  PROVE  <<o, c[2]>> \in Claims(o, ms) /\ c = <<p, c[2]>> /\ Frame(<<o, c[2]>>) = Frame(c)
<1>1. CASE c \in Tables(p, ms.frames)
  <2>1. PICK i \in DOMAIN ms.frames : c = Claim(p, "table", i, ms.frames[i])
    BY <1>1 DEF Tables
  <2>2. c[2] = <<"table", i, ms.frames[i]>> /\ c = <<p, c[2]>>
    BY <2>1 DEF Claim
  <2>3. <<o, c[2]>> = Claim(o, "table", i, ms.frames[i])
    BY <2>2 DEF Claim
  <2>4. <<o, c[2]>> \in Tables(o, ms.frames)
    BY <2>3 DEF Tables
  <2>5. QED BY <2>2, <2>4 DEF Claims, Frame
<1>2. CASE c \in AreasClaims(p, ms.areas)
  <2>1. PICK k \in DOMAIN ms.areas : c \in Pages(p, k, ms.areas[k].data_frames)
    BY <1>2 DEF AreasClaims
  <2> DEFINE df == ms.areas[k].data_frames
  <2>2. PICK v \in DOMAIN df : c = Claim(p, "area", <<k, v>>, df[v])
    BY <2>1 DEF Pages
  <2>3. c[2] = <<"area", <<k, v>>, df[v]>> /\ c = <<p, c[2]>>
    BY <2>2 DEF Claim
  <2>4. <<o, c[2]>> = Claim(o, "area", <<k, v>>, df[v])
    BY <2>3 DEF Claim
  <2>5. <<o, c[2]>> \in Pages(o, k, df)
    BY <2>4 DEF Pages
  <2>6. <<o, c[2]>> \in AreasClaims(o, ms.areas)
    BY <2>5 DEF AreasClaims
  <2>7. QED BY <2>3, <2>6 DEF Claims, Frame
<1>3. QED BY <1>1, <1>2 DEF Claims

\* The claims of a memory set under another owner: its assignment in exec.
LEMMA ExactOwner ==
  ASSUME NEW a, NEW B, NEW o, OfOthers(o, B), NEW ms, Exact(a, B \cup Claims(o, ms)), NEW p
  PROVE  Exact(a, B \cup Claims(p, ms))
<1> DEFINE Old == Claims(o, ms)
           New == Claims(p, ms)
<1>1. FramesOf(B \cup New) = FramesOf(B \cup Old)
  <2>1. \A c \in New : <<o, c[2]>> \in Old /\ Frame(<<o, c[2]>>) = Frame(c)
    BY Renamed
  <2>2. \A c \in Old : <<p, c[2]>> \in New /\ Frame(<<p, c[2]>>) = Frame(c)
    BY Renamed
  <2> HIDE DEF Old, New
  <2>3. \A c \in New : \E d \in Old : Frame(d) = Frame(c)
    BY <2>1
  <2>4. \A c \in Old : \E d \in New : Frame(d) = Frame(c)
    BY <2>2
  <2>5. QED BY <2>3, <2>4 DEF FramesOf
<1>2. \A c, d \in B \cup Old : Frame(c) = Frame(d) => c = d
  BY DEF Exact
<1>3. ASSUME NEW c \in New, NEW d \in B, Frame(c) = Frame(d) PROVE FALSE
  <2>1. <<o, c[2]>> \in Old /\ Frame(<<o, c[2]>>) = Frame(d)
    BY <1>3, Renamed
  <2>2. d = <<o, c[2]>>
    BY <2>1, <1>2
  <2>3. d[1] = o
    BY <2>2
  <2>4. QED BY <2>3 DEF OfOthers
<1>4. ASSUME NEW c \in New, NEW d \in New, Frame(c) = Frame(d) PROVE c = d
  <2>1. /\ <<o, c[2]>> \in Old /\ <<o, d[2]>> \in Old
        /\ Frame(<<o, c[2]>>) = Frame(<<o, d[2]>>)
        /\ c = <<p, c[2]>> /\ d = <<p, d[2]>>
    BY <1>4, Renamed
  <2>2. <<o, c[2]>> = <<o, d[2]>>
    BY <2>1, <1>2
  <2>3. c[2] = d[2]
    BY <2>2
  <2>4. QED BY <2>1, <2>3
<1> HIDE DEF New, Old
<1>5. \A c, d \in B \cup New : Frame(c) = Frame(d) => c = d
  BY <1>2, <1>3, <1>4
<1>6. Exact(a, B \cup Old)
  BY DEF Old
<1>7. Exact(a, B \cup New)
  BY <1>1, <1>5, <1>6, ExactRenamed
<1>8. QED BY <1>7 DEF New

\* The drop of a whole memory set, unless the machine is down.
LEMMA DropSet ==
  ASSUME NEW s, IsMachine(s), NEW C, NEW o, OfOthers(o, C), NEW ms, IsSet(ms),
         s.panic = "none" => Exact(s.alloc, C \cup Claims(o, ms)),
         NEW t, t = drop_memory_set(s, ms)
  PROVE  /\ IsMachine(t) /\ Keeps(s, t) /\ t.frames = s.frames /\ t.panic = s.panic
         /\ t.panic = "none" => Exact(t.alloc, C)
<1>1. CASE s.panic # "none"
  BY <1>1, NoDropAfterPanic DEF Keeps
<1>2. CASE s.panic = "none"
  <2>1. C \cup Claims(o, ms) = C \cup Tables(o, ms.frames) \cup AreasClaims(o, ms.areas)
    BY DEF Claims
  <2>2. Exact(s.alloc, C \cup Tables(o, ms.frames) \cup AreasClaims(o, ms.areas))
    BY <1>2, <2>1
  <2>3. OnlyFrees(s, t) /\ Exact(t.alloc, C)
    BY <1>2, <2>2, DropMemorySet DEF IsSet
  <2>4. QED BY <2>3 DEF OnlyFrees
<1>3. QED BY <1>1, <1>2

\* sys_exec: between the two memory sets no frame is lost.
LEMMA ExecRunning ==
  ASSUME Running, NEW c \in Commands, sys_exec(c), panic' = "none"
  PROVE  Running'
<1> DEFINE M == memory_set
           L == Live \ {current}
           B == Claims(None, KERNEL_SPACE) \cup Others(M, L)
           new == from_elf(Now, c.elf)
           user == push_args(new, c)
           freed == drop_memory_set(user, M[current])
           cx == app_init_context(exec_result(c), argv_base(c), pid[current])
           final == SetTrapContext(freed, cx)
<1>1. panic = "none" /\ current # None
  BY DEF sys_exec, User
<1>2. final.panic = "none"
  BY <1>1, Zenon DEF sys_exec, Panic
<1>3. /\ Installed(final)
      /\ memory_set' = [memory_set EXCEPT ![current] = SetOf(user)]
      /\ UNCHANGED <<vars, KERNEL_SPACE>>
  BY <1>2, Zenon DEF sys_exec
<1>4. /\ current \in Live /\ current \in Task /\ IsSet(M[current]) /\ None \notin Live
  BY <1>1, CurrentRuns
<1>5. Exact(FRAME_ALLOCATOR, B \cup Claims(current, M[current]))
  <2>1. Live = L \cup {current}
    BY <1>4
  <2>2. Others(M, Live) = Others(M, L) \cup Claims(current, M[current])
    BY <2>1, OthersAdded
  <2>3. All(KERNEL_SPACE, M, Live) = B \cup Claims(current, M[current])
    BY <2>2 DEF All
  <2>4. QED BY <2>3 DEF Running
<1>6. PICK fresh : fresh \notin Live \cup {None}
  BY FreshName
<1>7. OfOthers(current, B) /\ OfOthers(fresh, B)
  <2>1. current # None /\ fresh # None /\ current \notin L /\ fresh \notin L
    BY <1>1, <1>6
  <2>2. QED BY <2>1, KernelOwner, OthersOwner, OfOthersUnion
<1> DEFINE Q == B \cup Claims(current, M[current])
           U == SetOf(user)
<1> HIDE DEF B, Q
<1>8. OwnsSet(fresh, Q, new) /\ IsMachine(new)
  <2>1. IsElf(c.elf) /\ Exact(Now.alloc, Q)
    BY <1>5, IsNow, ElfAssumption DEF Q
  <2>2. QED BY <2>1, IsNow, FromElf DEF OwnsSet, Holds
<1> HIDE DEF new
<1>9. OnlyStores(new, user)
  BY <1>8, PushArgsOnlyStores
<1> HIDE DEF user
<1>10. OwnsSet(fresh, Q, user) /\ IsMachine(user)
  BY <1>8, <1>9, OnlyStoresOwns DEF OnlyStores
<1>11. user.panic = "none" => IsSet(U) /\ Exact(user.alloc, Q \cup Claims(fresh, U))
  BY <1>10, HasSet
<1> HIDE DEF U
<1> DEFINE C == B \cup Claims(fresh, U)
<1>12. OfOthers(current, C)
  <2>1. OfOthers(current, Claims(fresh, U))
    BY <1>4, <1>6, ClaimsOwner DEF OfOthers
  <2>2. QED BY <2>1, <1>7, OfOthersUnion
<1>13. user.panic = "none" => Exact(user.alloc, C \cup Claims(current, M[current]))
  <2>1. Q \cup Claims(fresh, U) = C \cup Claims(current, M[current])
    BY DEF Q
  <2>2. QED BY <2>1, <1>11
<1> HIDE DEF C
<1>14. /\ IsMachine(freed) /\ freed.panic = user.panic
       /\ freed.panic = "none" => Exact(freed.alloc, C)
  BY <1>4, <1>10, <1>12, <1>13, DropSet
<1> HIDE DEF freed
<1>15. OnlyStores(freed, final)
  BY <1>14, SetTrapContextOnlyStores
<1> HIDE DEF final
<1>16. user.panic = "none" /\ Exact(final.alloc, C)
  BY <1>2, <1>14, <1>15 DEF OnlyStores
<1>17. Exact(final.alloc, B \cup Claims(current, U))
  BY <1>7, <1>16, ExactOwner DEF C
<1>18. IInv' /\ Live' = Live
  BY <1>3, NextIInv DEF Running, vars, tcb_vars, Live
<1>19. memory_set'[current] = U /\ \A t \in L : memory_set'[t] = M[t]
  BY <1>3, <1>4 DEF Running, Live, U
<1>20. All(KERNEL_SPACE', memory_set', Live') = B \cup Claims(current, U)
  <2> DEFINE N == memory_set'
  <2>1. Live' = L \cup {current}
    BY <1>4, <1>18
  <2>2. Others(N, Live') = Others(N, L) \cup Claims(current, N[current])
    BY <2>1, OthersAdded
  <2>3. Others(N, L) = Others(M, L)
    BY <1>19, OthersSame
  <2>4. QED BY <2>2, <2>3, <1>3, <1>19 DEF All, B
<1>21. memory_set' \in [Task -> {memory_set'[t] : t \in Task}]
  BY <1>3 DEF Running
<1>22. \A t \in Live' : IsSet(memory_set'[t])
  BY <1>11, <1>16, <1>18, <1>19 DEF Running
<1>23. IsSet(KERNEL_SPACE') /\ FRAME_ALLOCATOR' = final.alloc
  BY <1>3 DEF Running, Installed
<1>24. QED BY <1>17, <1>18, <1>20, <1>21, <1>22, <1>23 DEF Running

(***************************************************************************)
(* exit: the data of the process goes back, its page table stays.          *)
(***************************************************************************)
LEMMA ExitRunning ==
  ASSUME Running, exit, panic' = "none"
  PROVE  Running'
<1> DEFINE M == memory_set
           L == Live \ {current}
           ms == M[current]
           T == Tables(current, ms.frames)
           C == Claims(None, KERNEL_SPACE) \cup Others(M, L)
           freed == drop_areas(Now, ms)
           left == [ms EXCEPT !.areas = <<>>]
<1>0. ~(current # INITPROC /\ freed.panic # "none")
  BY DEF exit, Panic
<1>1. panic = "none" /\ current # None /\ exit_current_and_run_next
  BY <1>0 DEF exit, User
<1>2. /\ Installed(freed) /\ memory_set' = [memory_set EXCEPT ![current].areas = <<>>]
      /\ UNCHANGED KERNEL_SPACE
  BY <1>0 DEF exit, release_areas
<1>3. /\ current \in Live /\ current \in Task /\ IsSet(ms) /\ None \notin Live
  BY <1>1, CurrentRuns
<1>4. Exact(FRAME_ALLOCATOR, C \cup Claims(current, ms))
  <2>1. Live = L \cup {current}
    BY <1>3
  <2>2. Others(M, Live) = Others(M, L) \cup Claims(current, ms)
    BY <2>1, OthersAdded
  <2>3. All(KERNEL_SPACE, M, Live) = C \cup Claims(current, ms)
    BY <2>2 DEF All
  <2>4. QED BY <2>3 DEF Running
<1>5. OfOthers(current, C)
  BY <1>1, KernelOwner, OthersOwner, OfOthersUnion
<1> HIDE DEF C
<1>6. /\ (C \cup T) \cap AreasClaims(current, ms.areas) = {}
      /\ Exact(Now.alloc, (C \cup T) \cup AreasClaims(current, ms.areas))
  <2>1. C \cup Claims(current, ms) = (C \cup T) \cup AreasClaims(current, ms.areas)
    BY DEF Claims
  <2>2. C \cap AreasClaims(current, ms.areas) = {}
    BY <1>5, ClaimsOwner DEF OfOthers, Claims
  <2>3. QED BY <2>1, <2>2, <1>4, IsNow, TablesApart
<1>7. OnlyFrees(Now, freed) /\ Exact(freed.alloc, C \cup T)
  <2> DEFINE D == C \cup T
  <2> HIDE DEF D
  <2>1. D \cap AreasClaims(current, ms.areas) = {} /\ Exact(Now.alloc, D \cup AreasClaims(current, ms.areas))
    BY <1>6 DEF D
  <2>2. OnlyFrees(Now, freed) /\ Exact(freed.alloc, D)
    BY <2>1, <1>3, IsNow, DropAreas DEF IsSet
  <2>3. QED BY <2>2 DEF D
<1> HIDE DEF freed
<1>8. left.frames = ms.frames /\ left.areas = <<>> /\ IsSet(left)
  <2>1. left = [root |-> ms.root, frames |-> ms.frames, areas |-> <<>>]
    BY <1>3 DEF IsSet
  <2>2. MappedAreas(<<>>)
    BY EmptyIsSeq DEF MappedAreas
  <2> HIDE DEF left
  <2>3. left.root = ms.root /\ left.frames = ms.frames /\ left.areas = <<>>
    BY <2>1
  <2>4. QED BY <2>1, <2>2, <2>3, <1>3 DEF IsSet
<1>9. Claims(current, left) = T
  <2>1. AreasClaims(current, <<>>) = {}
    BY DEF AreasClaims
  <2>2. QED BY <2>1, <1>8 DEF Claims
<1>10. memory_set'[current] = left /\ \A t \in L : memory_set'[t] = M[t]
  BY <1>2, <1>3 DEF Running, Live
<1> HIDE DEF left
<1>11. IInv'
  BY <1>1, NextIInv DEF Next, Running
<1>12. Live' = Live
  <2>1. task_status' = [task_status EXCEPT ![current] = "Zombie"] /\ DOMAIN task_status = Task
    BY <1>1 DEF exit_current_and_run_next, Panic, Running, IInv, TypeOK
  <2>2. QED BY <2>1, <1>3 DEF Live
<1>13. All(KERNEL_SPACE', memory_set', Live') = C \cup T
  <2> DEFINE N == memory_set'
  <2>1. Live' = L \cup {current}
    BY <1>3, <1>12
  <2>2. Others(N, Live') = Others(N, L) \cup Claims(current, N[current])
    BY <2>1, OthersAdded
  <2>3. Others(N, L) = Others(M, L)
    BY <1>10, OthersSame
  <2>4. QED BY <2>2, <2>3, <1>2, <1>9, <1>10 DEF All, C
<1>14. memory_set' \in [Task -> {memory_set'[t] : t \in Task}]
  BY <1>2 DEF Running
<1>15. \A t \in Live' : IsSet(memory_set'[t])
  BY <1>8, <1>10, <1>12 DEF Running
<1>16. IsSet(KERNEL_SPACE') /\ FRAME_ALLOCATOR' = freed.alloc
  BY <1>2 DEF Running, Installed
<1>17. QED BY <1>7, <1>11, <1>13, <1>14, <1>15, <1>16 DEF Running

(***************************************************************************)
(* waitpid: the kernel stack and the page table of the child go.           *)
(***************************************************************************)
LEMMA OneReapIndex ==
  ASSUME Running, panic = "none", current # None, NEW n, NEW i \in ReapIndex(n), NEW j \in ReapIndex(n)
  PROVE  i = j
<1>1. current \in Task
  BY CurrentRuns
<1>2. DOMAIN children[current] = 1..Len(children[current]) /\ Len(children[current]) \in Nat
  BY <1>1, LenProperties DEF Running, IInv, TypeOK
<1>3. i \in Nat /\ j \in Nat /\ 1 <= i /\ 1 <= j
  BY <1>2 DEF ReapIndex
<1>4. ~(i < j) /\ ~(j < i)
  BY <1>3 DEF ReapIndex
<1>5. QED BY <1>3, <1>4

\* waitpid: the frames of the child are all free.
LEMMA WaitpidRunning ==
  ASSUME Running, NEW n \in {ANY_PROCESS} \cup (0..pid_current), waitpid(n), panic' = "none"
  PROVE  Running'
<1>1. panic = "none" /\ current # None
  BY DEF waitpid, User
<1>2. PICK i \in ReapIndex(n), va \in Targets, code \in Value :
       \E child \in {children[current][i]} :
       \E stored \in {StoreVia(With(Now, memory_set[current]), va, code)} :
       \E stack \in {KernelStack_drop(With(stored, KERNEL_SPACE), pid[child])} :
       \E final \in {drop_memory_set(stack, memory_set[child])} :
         IF final.panic # "none"
         THEN Panic(final.panic) /\ UNCHANGED mem_vars
         ELSE /\ sys_waitpid_reaps(n)
              /\ Installed(final)
              /\ KERNEL_SPACE' = SetOf(stack)
              /\ memory_set' = [memory_set EXCEPT ![child] = NoSet]
              /\ trap_cx_ppn' = [trap_cx_ppn EXCEPT ![child] = NoTable]
              /\ UNCHANGED <<buffers, built>>
  BY DEF waitpid
<1> DEFINE M == memory_set
           K == KERNEL_SPACE
           child == children[current][i]
           L == Live \ {child}
           w == With(Now, M[current])
           stored == StoreVia(w, va, code)
           x == With(stored, K)
           stack == KernelStack_drop(x, pid[child])
           final == drop_memory_set(stack, M[child])
<1>3. final.panic = "none"
  BY <1>1, <1>2, Zenon DEF Panic
<1>4. /\ sys_waitpid_reaps(n) /\ Installed(final)
      /\ KERNEL_SPACE' = SetOf(stack)
      /\ memory_set' = [memory_set EXCEPT ![child] = NoSet]
  BY <1>2, <1>3, Zenon
<1>5. current \in Task /\ None \notin Live
  BY <1>1, CurrentRuns
<1>6. child \in Live /\ child \in Task /\ child # None
  <2>1. i \in DOMAIN children[current] /\ task_status[child] = "Zombie"
    BY DEF ReapIndex, IsReapable
  <2>2. child \in Task
    BY <2>1, <1>5, ElementOfSeq, LenProperties DEF Running, IInv, TypeOK
  <2>3. QED BY <2>1, <2>2, TaskAssumption DEF Live
<1>7. Live' = L /\ IInv'
  <2>1. PICK j \in ReapIndex(n) : task_status' = [task_status EXCEPT ![children[current][j]] = "Free"]
    BY <1>1, <1>4 DEF sys_waitpid_reaps, drop_tcb, Panic
  <2>2. j = i
    BY <1>1, OneReapIndex
  <2>3. task_status' = [task_status EXCEPT ![child] = "Free"] /\ DOMAIN task_status = Task
    BY <2>1, <2>2 DEF Running, IInv, TypeOK
  <2>4. IInv'
    BY <1>4, NextIInv DEF Next, Running
  <2> HIDE DEF child
  <2>5. QED BY <2>3, <2>4, <1>6 DEF Live
<1> HIDE DEF child
<1> DEFINE R == Others(M, L) \cup Claims(child, M[child])
<1>8. Exact(FRAME_ALLOCATOR, R \cup Claims(None, K)) /\ OfOthers(None, R)
  <2>1. Live = L \cup {child}
    BY <1>6
  <2>2. Others(M, Live) = R
    BY <2>1, OthersAdded
  <2>3. All(K, M, Live) = R \cup Claims(None, K)
    BY <2>2 DEF All
  <2>4. OfOthers(None, R)
    BY <2>2, <1>5, OthersOwner
  <2>5. QED BY <2>3, <2>4 DEF Running
<1> HIDE DEF R
<1>9. IsMachine(stored) /\ stored.alloc = FRAME_ALLOCATOR /\ stored.panic = "none"
  <2>1. IsMachine(w) /\ w.alloc = FRAME_ALLOCATOR /\ w.panic = "none"
    BY IsNow, WithFacts
  <2> HIDE DEF w
  <2>2. OnlyStores(w, stored)
    BY <2>1, StoreViaOnlyStores
  <2> HIDE DEF stored
  <2>3. QED BY <2>1, <2>2 DEF OnlyStores
<1> HIDE DEF stored
<1>10. OwnsSet(None, R, x) /\ x.panic = "none"
  <2>1. IsSet(K) /\ SomeSeq(K.frames)
    BY DEF Running, IsSet
  <2> HIDE DEF K
  <2>2. QED BY <2>1, <1>8, <1>9, WorksOn
<1> HIDE DEF x
<1>11. OwnsSet(None, R, stack) /\ IsMachine(stack)
  BY <1>8, <1>10, RemoveAreaFrom DEF KernelStack_drop, OwnsSet, Holds
<1> DEFINE S == SetOf(stack)
           C == Others(M, L) \cup Claims(None, S)
<1> HIDE DEF stack
<1>12. stack.panic = "none" => IsSet(S) /\ Exact(stack.alloc, R \cup Claims(None, S))
  BY <1>11, HasSet
<1> HIDE DEF S
<1>13. stack.panic = "none" => Exact(stack.alloc, C \cup Claims(child, M[child]))
  <2>1. R \cup Claims(None, S) = C \cup Claims(child, M[child])
    BY DEF R
  <2>2. QED BY <2>1, <1>12
<1>14. OfOthers(child, C)
  <2>1. child \notin L
    OBVIOUS
  <2>2. QED BY <2>1, <1>6, KernelOwner, OthersOwner, OfOthersUnion
<1> HIDE DEF C
<1>15. stack.panic = "none" /\ Exact(final.alloc, C)
  <2>1. IsSet(M[child])
    BY <1>6 DEF Running
  <2>2. /\ final.panic = stack.panic
        /\ final.panic = "none" => Exact(final.alloc, C)
    BY <2>1, <1>11, <1>13, <1>14, DropSet
  <2>3. QED BY <2>2, <1>3
<1> HIDE DEF final
<1>16. \A t \in L : memory_set'[t] = M[t]
  BY <1>4 DEF Running, Live
<1>17. All(KERNEL_SPACE', memory_set', Live') = C
  <2> DEFINE N == memory_set'
  <2>1. Others(N, L) = Others(M, L)
    BY <1>16, OthersSame
  <2>2. QED BY <2>1, <1>4, <1>7 DEF All, C, S
<1>18. memory_set' \in [Task -> {memory_set'[t] : t \in Task}]
  BY <1>4 DEF Running
<1>19. \A t \in Live' : IsSet(memory_set'[t])
  BY <1>7, <1>16 DEF Running
<1>20. IsSet(KERNEL_SPACE') /\ FRAME_ALLOCATOR' = final.alloc
  BY <1>4, <1>12, <1>15 DEF Installed, S
<1>21. QED BY <1>7, <1>15, <1>17, <1>18, <1>19, <1>20 DEF Running

\* Every step keeps the invariant.
LEMMA NextMemInv ==
  ASSUME MemInv, [MNext]_mvars
  PROVE  MemInv'
<1> SUFFICES ASSUME panic' = "none" PROVE Running'
  BY DEF MemInv
<1>1. CASE panic = "none"
  <2>0. Running
    BY <1>1 DEF MemInv
  <2>1. CASE fork
    BY <2>0, <2>1, ForkRunning
  <2>2. CASE \E c \in Commands : sys_exec(c)
    BY <2>0, <2>2, ExecRunning
  <2>3. CASE exit
    BY <2>0, <2>3, ExitRunning
  <2>4. CASE \E n \in {ANY_PROCESS} \cup (0..pid_current) : waitpid(n)
    BY <2>0, <2>4, WaitpidRunning
  <2>5. CASE user_store
    BY <2>0, <2>5, StoreRunning
  <2>6. CASE sys_read_suspends \/ sys_read_returns
    BY <2>0, <2>6, ReadRunning
  <2>7. CASE schedule /\ UNCHANGED mem_vars
    BY <1>1, <2>0, <2>7, ScheduleRunning
  <2>8. CASE Halted
    BY <1>1, <2>8 DEF Halted
  <2>9. CASE UNCHANGED mvars
    <3>1. UNCHANGED vars /\ UNCHANGED <<FRAME_ALLOCATOR, KERNEL_SPACE, memory_set>>
      BY <2>9 DEF mvars, mem_vars
    <3>2. IInv' /\ Live' = Live
      BY <3>1, <2>0, NextIInv DEF Running, vars, tcb_vars, Live
    <3>3. QED BY <3>1, <3>2, <2>0, SameSets
  <2>10. QED BY <2>1, <2>2, <2>3, <2>4, <2>5, <2>6, <2>7, <2>8, <2>9 DEF MNext
<1>2. CASE panic # "none"
  <2>1. panic' = panic
    BY <1>2 DEF MNext, mvars, vars, fork, sys_exec, exit, exit_current_and_run_next, waitpid, user_store,
                sys_read_suspends, sys_read_returns, file_suspends, file_returns, schedule,
                run_tasks, sys_yield, timer_trap, Halted, User
  <2>2. QED BY <1>2, <2>1
<1>3. QED BY <1>1, <1>2

\* The invariant holds in every reachable state.
LEMMA MemInvariance == MSpec => []MemInv
<1>1. MInit => MemInv
  BY InitMemInv
<1>2. MemInv /\ [MNext]_mvars => MemInv'
  BY NextMemInv
<1>3. QED BY <1>1, <1>2, PTL DEF MSpec

\* Owned, which FramesPartitioned speaks of, are all the claims.
LEMMA OwnedIsAll == Owned = All(KERNEL_SPACE, memory_set, Live)
<1>1. ASSUME NEW o, NEW ms
      PROVE  {<<o, h>> : h \in Holdings(ms)} = Claims(o, ms)
  <2> DEFINE T == {<<"table", i, ms.frames[i]>> : i \in DOMAIN ms.frames}
             P(k) == {<<"area", <<k, vpn>>, ms.areas[k].data_frames[vpn]>> : vpn \in DOMAIN ms.areas[k].data_frames}
             A == UNION {P(k) : k \in DOMAIN ms.areas}
  <2>1. {<<o, h>> : h \in T} = Tables(o, ms.frames)
    BY DEF Tables, Claim
  <2>2. \A k : {<<o, h>> : h \in P(k)} = Pages(o, k, ms.areas[k].data_frames)
    BY DEF Pages, Claim
  <2>3. Holdings(ms) = T \cup A
    BY DEF Holdings
  <2> HIDE DEF T, P
  <2>4. {<<o, h>> : h \in A} = AreasClaims(o, ms.areas)
    BY <2>2 DEF AreasClaims
  <2> HIDE DEF A
  <2>5. QED BY <2>1, <2>3, <2>4 DEF Claims
<1>2. QED BY <1>1 DEF Owned, All, Others

(***************************************************************************)
(* Every frame that is out is owned once, whatever the processes do.       *)
(***************************************************************************)
THEOREM FramesKept == MSpec => []FramesPartitioned
<1>1. MemInv => FramesPartitioned
  <2> SUFFICES ASSUME Running PROVE FramesPartitioned
    BY DEF MemInv, FramesPartitioned
  <2> DEFINE frames == {o[2][3] : o \in Owned}
  <2>1. Exact(FRAME_ALLOCATOR, Owned)
    BY OwnedIsAll DEF Running
  <2>2. frames = FramesOf(Owned)
    BY DEF FramesOf, Frame
  <2> HIDE DEF frames
  <2>3. Partitioned(FRAME_ALLOCATOR, EKERNEL, frames)
    BY <2>1, <2>2 DEF Exact
  <2>4. IsFiniteSet(frames)
    <3>1. frames \subseteq EKERNEL..(FRAME_ALLOCATOR.current - 1) /\ FRAME_ALLOCATOR.current \in Nat
      BY <2>1, <2>3 DEF Partitioned, Exact, Allocators
    <3>2. IsFiniteSet(EKERNEL..(FRAME_ALLOCATOR.current - 1))
      BY <3>1, FS_Interval, FramesAssumption
    <3>3. QED BY <3>1, <3>2, FS_Subset
  <2>5. ExistsBijection(Owned, frames)
    <3> DEFINE f == [o \in Owned |-> Frame(o)]
    <3>1. f \in [Owned -> frames]
      BY <2>2 DEF FramesOf
    <3>2. \A c, d \in Owned : f[c] = f[d] => c = d
      BY <2>1 DEF Exact
    <3>3. \A x \in frames : \E c \in Owned : f[c] = x
      BY <2>2 DEF FramesOf
    <3>4. f \in Bijection(Owned, frames)
      BY <3>1, <3>2, <3>3, Fun_IsBij
    <3>5. QED BY <3>4 DEF ExistsBijection
  <2>6. ExistsBijection(frames, Owned)
    BY <2>5, Fun_ExistsBijSymmetric
  <2>7. Cardinality(frames) = Cardinality(Owned)
    BY <2>4, <2>6, FS_Bijection
  <2>8. QED BY <2>3, <2>7 DEF FramesPartitioned, frames
<1>2. QED BY <1>1, MemInvariance, PTL
=============================================================================
