----------------------------- MODULE TasksProofs -----------------------------
(***************************************************************************)
(* The properties of module Tasks, proved for any number of TCBs. One      *)
(* inductive invariant, IInv, carries all of them: each property needs the *)
(* others at some system call (waitpid needs the tree, the scheduling      *)
(* places and PidMapExact to know that a zombie has one Arc; fork needs    *)
(* the pids and the kernel stacks to agree), and the one addition is that  *)
(* a task inside a file call has not exited. There is one lemma per        *)
(* action.                                                                 *)
(***************************************************************************)
EXTENDS Tasks, SeqLemmas

(***************************************************************************)
(* The tasks that have not exited.                                         *)
(***************************************************************************)
NotExited == {t \in Task : task_status[t] \in {"Ready", "Running"}}

(***************************************************************************)
(* A task suspended inside File::read or File::write has not exited: it    *)
(* leaves the call before it can trap again.                               *)
(***************************************************************************)
InFile == in_file \subseteq NotExited

(***************************************************************************)
(* The inductive invariant of the process core.                            *)
(***************************************************************************)
IInv ==
    /\ TypeOK
    /\ OnlyInitprocExitPanics
    /\ OnePlace
    /\ FamilyTree
    /\ PidMapExact
    /\ PidsPartitioned
    /\ InFile

(***************************************************************************)
(* The state rust_main leaves after add_initproc satisfies the invariant.  *)
(***************************************************************************)
LEMMA InitIInv == Init => IInv
<1> SUFFICES ASSUME Init PROVE IInv
  OBVIOUS
<1> USE TaskAssumption DEF Init
<1>0. DOMAIN PID_TO_TASK = {0} /\ PID_TO_TASK[0] = INITPROC
  OBVIOUS
<1>1. TypeOK
  BY <1>0 DEF TypeOK
<1>2. OnlyInitprocExitPanics
  BY DEF OnlyInitprocExitPanics
<1>3. OnePlace
  BY DEF OnePlace, IsInjective, ToSet
<1>4. FamilyTree
  BY DEF FamilyTree, IsInjective, ToSet, Live
<1>5. PidMapExact
  BY <1>0 DEF PidMapExact, Live
<1>6. PidsPartitioned
  BY DEF PidsPartitioned, IsInjective, ToSet, Live
<1>7. InFile
  BY DEF InFile
<1>8. QED BY <1>1, <1>2, <1>3, <1>4, <1>5, <1>6, <1>7 DEF IInv

(***************************************************************************)
(* suspend_current_and_run_next, whether called by yield, the timer or a   *)
(* file call, preserves the invariant: re-inserting the task in            *)
(* PID_TO_TASK puts back the entry it already has.                         *)
(***************************************************************************)
LEMMA SuspendIInv ==
  ASSUME IInv, panic = "none", current # None,
         suspend_current_and_run_next,
         in_file' \in {in_file, in_file \cup {current}},
         UNCHANGED <<pid, parent, children, pid_vars, panic>>
  PROVE  IInv'
<1> USE DEF IInv, suspend_current_and_run_next, add_task, NewMapping, pid_vars
<1>0. /\ current \in Task /\ current \in Live /\ task_status[current] = "Running"
      /\ current \notin ToSet(ready_queue)
      /\ pid[current] \in DOMAIN PID_TO_TASK /\ PID_TO_TASK[pid[current]] = current
  BY DEF TypeOK, OnePlace, PidMapExact, Live
<1>1. PID_TO_TASK' = PID_TO_TASK
  BY <1>0 DEF TypeOK
<1>2. /\ ready_queue' \in Seq(Task)
      /\ ToSet(ready_queue') = ToSet(ready_queue) \cup {current}
      /\ IsInjective(ready_queue')
  BY <1>0, AppendElements DEF TypeOK, OnePlace
<1>3. /\ task_status' \in [Task -> {"Free", "Ready", "Running", "Zombie"}]
      /\ \A t \in Task : task_status'[t] = IF t = current THEN "Ready" ELSE task_status[t]
  BY <1>0 DEF TypeOK
<1>4. Live' = Live
  BY <1>0, <1>3 DEF Live
<1>5. TypeOK'
  BY <1>0, <1>1, <1>2, <1>3 DEF TypeOK
<1>6. OnlyInitprocExitPanics'
  BY DEF OnlyInitprocExitPanics
<1>7. OnePlace'
  BY <1>0, <1>2, <1>3, TaskAssumption DEF OnePlace
<1>8. FamilyTree'
  BY <1>0, <1>3, <1>4 DEF FamilyTree
<1>9. PidMapExact'
  BY <1>0, <1>1, <1>3, <1>4 DEF PidMapExact, Live
<1>10. PidsPartitioned'
  BY <1>4 DEF PidsPartitioned
<1>11. InFile'
  BY <1>0, <1>3 DEF InFile, NotExited
<1>12. QED BY <1>5, <1>6, <1>7, <1>8, <1>9, <1>10, <1>11

(***************************************************************************)
(* A dispatch by run_tasks preserves the invariant.                        *)
(***************************************************************************)
LEMMA RunTasksIInv ==
  ASSUME IInv, run_tasks
  PROVE  IInv'
<1> USE DEF IInv, run_tasks, pid_vars
<1> DEFINE t1 == Head(ready_queue)
<1>1. /\ ready_queue' \in Seq(Task)
      /\ t1 \in ToSet(ready_queue) /\ t1 \in Task
      /\ ToSet(ready_queue') = ToSet(ready_queue) \ {t1}
      /\ IsInjective(ready_queue')
  BY TailElements DEF TypeOK, OnePlace
<1>2. task_status[t1] = "Ready" /\ current' = t1
  BY <1>1 DEF OnePlace
<1>3. /\ task_status' \in [Task -> {"Free", "Ready", "Running", "Zombie"}]
      /\ \A t \in Task : task_status'[t] = IF t = t1 THEN "Running" ELSE task_status[t]
  BY <1>1, <1>2 DEF TypeOK
<1> HIDE DEF t1
<1>4. Live' = Live
  BY <1>1, <1>2, <1>3 DEF Live
<1>5. TypeOK'
  BY <1>1, <1>2, <1>3 DEF TypeOK
<1>6. OnlyInitprocExitPanics'
  BY DEF OnlyInitprocExitPanics
<1>7. OnePlace'
  <2>1. \A t \in Task : task_status[t] # "Running"
    BY TaskAssumption DEF OnePlace
  <2>2. QED BY <1>1, <1>2, <1>3, <2>1, TaskAssumption DEF OnePlace
<1>8. FamilyTree'
  BY <1>1, <1>2, <1>3, <1>4 DEF FamilyTree
<1>9. PidMapExact'
  BY <1>1, <1>2, <1>3, <1>4 DEF PidMapExact, Live
<1>10. PidsPartitioned'
  BY <1>4 DEF PidsPartitioned
<1>11. InFile'
  BY <1>1, <1>2, <1>3 DEF InFile, NotExited
<1>12. QED BY <1>5, <1>6, <1>7, <1>8, <1>9, <1>10, <1>11

(***************************************************************************)
(* The return of a file call preserves the invariant.                      *)
(***************************************************************************)
LEMMA FileReturnsIInv ==
  ASSUME IInv, file_returns
  PROVE  IInv'
BY DEF IInv, file_returns, sched_vars, pid_vars, TypeOK, OnlyInitprocExitPanics, OnePlace,
       FamilyTree, PidMapExact, PidsPartitioned, InFile, NotExited, Live

(***************************************************************************)
(* The panic at the exit of INITPROC changes nothing else.                 *)
(***************************************************************************)
LEMMA PanicIInv ==
  ASSUME IInv, Panic("initproc_exits")
  PROVE  IInv'
BY DEF IInv, Panic, tcb_vars, sched_vars, pid_vars, TypeOK, OnlyInitprocExitPanics, OnePlace,
       FamilyTree, PidMapExact, PidsPartitioned, InFile, NotExited, Live

(***************************************************************************)
(* PidAllocator::alloc returns a pid no TCB has and no kernel stack is     *)
(* mapped for, and the pids in use and the recycled ones still partition   *)
(* the pids given out so far.                                              *)
(***************************************************************************)
LEMMA PidAllocFresh ==
  ASSUME TypeOK, PidsPartitioned
  PROVE  LET n == pid_alloc_result
             U == {pid[t] : t \in Live}
         IN  /\ n \in Nat /\ n \notin U /\ n \notin kernel_stacks
             /\ pid_alloc => /\ pid_current' \in Nat
                            /\ recycled' \in Seq(Nat) /\ IsInjective(recycled')
                            /\ (U \cup {n}) \cap ToSet(recycled') = {}
                            /\ (U \cup {n}) \cup ToSet(recycled') = 0..(pid_current' - 1)
<1> DEFINE n == pid_alloc_result
           U == {pid[t] : t \in Live}
<1>1. /\ pid_current \in Nat /\ recycled \in Seq(Nat) /\ IsInjective(recycled)
      /\ U \cap ToSet(recycled) = {} /\ U \cup ToSet(recycled) = 0..(pid_current - 1)
      /\ kernel_stacks = U
  BY DEF TypeOK, PidsPartitioned
<1> HIDE DEF U
<1>2. CASE recycled = <<>>
  <2>1. ToSet(recycled) = {}
    BY <1>2 DEF ToSet
  <2>2. n = pid_current /\ n \notin U /\ U \cup {n} = 0..pid_current
    BY <1>1, <1>2, <2>1 DEF pid_alloc_result
  <2>3. pid_alloc => recycled' = recycled /\ pid_current' = pid_current + 1
    BY <1>2 DEF pid_alloc
  <2>4. QED BY <1>1, <2>1, <2>2, <2>3 DEF U
<1>3. CASE recycled # <<>>
  <2>1. /\ Front(recycled) \in Seq(Nat) /\ n \in Nat /\ n \in ToSet(recycled)
        /\ ToSet(Front(recycled)) = ToSet(recycled) \ {n}
        /\ IsInjective(Front(recycled))
    BY <1>1, <1>3, FrontElements DEF pid_alloc_result
  <2>2. pid_alloc => recycled' = Front(recycled) /\ pid_current' = pid_current
    BY <1>3 DEF pid_alloc
  <2> HIDE DEF n
  <2>3. QED BY <1>1, <2>1, <2>2 DEF U, n
<1>4. QED BY <1>2, <1>3

(***************************************************************************)
(* fork preserves the invariant; the assertion in PageTable::map does not  *)
(* fail when it maps the child's kernel stack.                             *)
(***************************************************************************)
LEMMA ForkIInv ==
  ASSUME IInv, sys_fork
  PROVE  IInv'
<1> USE DEF IInv
<1> DEFINE n == pid_alloc_result
<1>0. /\ current \in Task /\ current \in Live /\ task_status[current] = "Running"
      /\ panic = "none" /\ current \notin in_file
  BY DEF sys_fork, User, TypeOK, OnePlace, Live
<1>1. n \in Nat /\ n \notin {pid[t] : t \in Live} /\ n \notin kernel_stacks
  BY PidAllocFresh
<1> HIDE DEF n
<1>2. PICK child \in Task \ Live :
         /\ pid_alloc
         /\ kernel_stacks' = kernel_stacks \cup {n}
         /\ pid' = [pid EXCEPT ![child] = n]
         /\ task_status' = [task_status EXCEPT ![child] = "Ready"]
         /\ parent' = [parent EXCEPT ![child] = current]
         /\ children' = [children EXCEPT ![current] = Append(@, child)]
         /\ PID_TO_TASK' = NewMapping(n, child)
         /\ ready_queue' = Append(ready_queue, child)
         /\ UNCHANGED <<in_file, current, panic>>
  BY <1>1 DEF sys_fork, n
<1>3. /\ child \in Task /\ task_status[child] = "Free" /\ child # current
      /\ child # INITPROC /\ child \notin ToSet(ready_queue)
      /\ \A p \in Task : child \notin ToSet(children[p])
      /\ \A c \in Live \ {INITPROC} : parent[c] # child
  BY <1>0 DEF Live, OnePlace, FamilyTree
<1>4. /\ task_status' \in [Task -> {"Free", "Ready", "Running", "Zombie"}]
      /\ \A t \in Task : task_status'[t] = IF t = child THEN "Ready" ELSE task_status[t]
      /\ pid' \in [Task -> Nat]
      /\ \A t \in Task : pid'[t] = IF t = child THEN n ELSE pid[t]
      /\ parent' \in [Task -> Task \cup {None}]
      /\ \A t \in Task : parent'[t] = IF t = child THEN current ELSE parent[t]
  BY <1>0, <1>1, <1>2, <1>3 DEF TypeOK
<1>5. Live' = Live \cup {child}
  BY <1>3, <1>4 DEF Live
<1>6. /\ ready_queue' \in Seq(Task)
      /\ ToSet(ready_queue') = ToSet(ready_queue) \cup {child}
      /\ IsInjective(ready_queue')
  BY <1>2, <1>3, AppendElements DEF TypeOK, OnePlace
<1>7. /\ children' \in [Task -> Seq(Task)]
      /\ \A p \in Task : p # current => children'[p] = children[p]
      /\ ToSet(children'[current]) = ToSet(children[current]) \cup {child}
      /\ IsInjective(children'[current])
  <2>1. children[current] \in Seq(Task) /\ IsInjective(children[current])
    BY <1>0 DEF TypeOK, FamilyTree
  <2>2. children'[current] = Append(children[current], child)
    BY <1>0, <1>2 DEF TypeOK
  <2>3. QED BY <1>0, <1>2, <1>3, <2>1, <2>2, AppendElements DEF TypeOK
<1>8. /\ DOMAIN PID_TO_TASK' = DOMAIN PID_TO_TASK \cup {n}
      /\ PID_TO_TASK' \in [DOMAIN PID_TO_TASK' -> Task]
      /\ PID_TO_TASK'[n] = child
      /\ \A m \in DOMAIN PID_TO_TASK : m # n => PID_TO_TASK'[m] = PID_TO_TASK[m]
  BY <1>2, <1>3 DEF NewMapping, TypeOK
<1>9. /\ pid_current' \in Nat
      /\ recycled' \in Seq(Nat) /\ IsInjective(recycled')
      /\ ({pid[t] : t \in Live} \cup {n}) \cap ToSet(recycled') = {}
      /\ ({pid[t] : t \in Live} \cup {n}) \cup ToSet(recycled') = 0..(pid_current' - 1)
  BY <1>2, PidAllocFresh DEF n
<1>10. {pid'[t] : t \in Live'} = {pid[t] : t \in Live} \cup {n}
  BY <1>3, <1>4, <1>5 DEF Live
<1>11. TypeOK'
  BY <1>1, <1>2, <1>4, <1>6, <1>7, <1>8, <1>9 DEF TypeOK
<1>12. OnlyInitprocExitPanics'
  BY <1>2 DEF OnlyInitprocExitPanics
<1>13. OnePlace'
  BY <1>2, <1>3, <1>4, <1>6 DEF OnePlace
<1>14. FamilyTree'
  <2>1. ASSUME NEW p \in Task
        PROVE  /\ IsInjective(children'[p])
               /\ \A c \in Task : c \in ToSet(children'[p]) <=>
                                     c # INITPROC /\ c \in Live' /\ parent'[c] = p
    <3>1. CASE p = current
      BY <3>1, <1>0, <1>3, <1>4, <1>5, <1>7 DEF FamilyTree
    <3>2. CASE p # current
      <4>1. IsInjective(children'[p])
        BY <3>2, <1>7 DEF FamilyTree
      <4>2. ASSUME NEW c \in Task
            PROVE  c \in ToSet(children'[p]) <=>
                     c # INITPROC /\ c \in Live' /\ parent'[c] = p
        <5>1. CASE c = child
          BY <3>2, <5>1, <1>3, <1>4, <1>7
        <5>2. CASE c # child
          BY <3>2, <5>2, <1>4, <1>5, <1>7 DEF FamilyTree
        <5>3. QED BY <5>1, <5>2
      <4>3. QED BY <4>1, <4>2
    <3>3. QED BY <3>1, <3>2
  <2>2. ASSUME NEW c \in Live' \ {INITPROC}
        PROVE  parent'[c] \in Task /\ task_status'[parent'[c]] \in {"Ready", "Running"}
    <3>1. CASE c = child
      BY <3>1, <1>0, <1>3, <1>4
    <3>2. CASE c # child
      <4>1. c \in Live \ {INITPROC} /\ c \in Task
        BY <3>2, <1>5, <2>2 DEF Live
      <4>2. parent'[c] = parent[c] /\ parent[c] # child /\ parent[c] \in Task
        BY <3>2, <4>1, <1>3, <1>4 DEF FamilyTree
      <4>3. QED BY <4>1, <4>2, <1>4 DEF FamilyTree
    <3>3. QED BY <3>1, <3>2
  <2>3. QED BY <2>1, <2>2 DEF FamilyTree
<1>15. PidMapExact'
  <2>1. {pid'[t] : t \in {u \in Live' : task_status'[u] # "Zombie"}}
          = {pid[t] : t \in {u \in Live : task_status[u] # "Zombie"}} \cup {n}
    BY <1>3, <1>4, <1>5 DEF Live
  <2>2. ASSUME NEW t \in Live', task_status'[t] # "Zombie"
        PROVE  PID_TO_TASK'[pid'[t]] = t
    <3>1. CASE t = child
      BY <3>1, <1>3, <1>4, <1>8
    <3>2. CASE t # child
      <4>1. t \in Live /\ t \in Task /\ task_status[t] # "Zombie" /\ pid'[t] = pid[t]
        BY <3>2, <2>2, <1>4, <1>5 DEF Live
      <4>2. pid[t] \in DOMAIN PID_TO_TASK /\ pid[t] # n /\ PID_TO_TASK[pid[t]] = t
        BY <4>1, <1>1 DEF PidMapExact
      <4>3. QED BY <4>1, <4>2, <1>8
    <3>3. QED BY <3>1, <3>2
  <2>3. QED BY <2>1, <2>2, <1>8 DEF PidMapExact
<1>16. PidsPartitioned'
  <2>1. \A t, u \in Live' : pid'[t] = pid'[u] => t = u
    BY <1>1, <1>3, <1>4, <1>5 DEF PidsPartitioned, Live
  <2>2. kernel_stacks' = {pid'[t] : t \in Live'}
    BY <1>2, <1>10 DEF PidsPartitioned
  <2>3. QED BY <1>9, <1>10, <2>1, <2>2 DEF PidsPartitioned
<1>17. InFile'
  BY <1>2, <1>4, <1>3 DEF InFile, NotExited
<1>18. QED BY <1>11, <1>12, <1>13, <1>14, <1>15, <1>16, <1>17

(***************************************************************************)
(* exit preserves the invariant; its parent's vector still holds the task, *)
(* so the kernel does not free the stack it runs on.                       *)
(***************************************************************************)
LEMMA ExitIInv ==
  ASSUME IInv, exit_current_and_run_next
  PROVE  IInv'
<1> USE DEF IInv
<1>0. /\ current \in Task /\ current \in Live /\ task_status[current] = "Running"
      /\ panic = "none" /\ current \notin in_file
      /\ pid[current] \in DOMAIN PID_TO_TASK
  BY DEF exit_current_and_run_next, User, TypeOK, OnePlace, PidMapExact, Live
<1>1. CASE current = INITPROC
  BY <1>1, PanicIInv DEF exit_current_and_run_next
<1>2. CASE current # INITPROC
  <2>1. ~(Handles(current) \subseteq {<<"current">>, <<"PID_TO_TASK", pid[current]>>})
    <3> DEFINE p == parent[current]
    <3>1. p \in Task /\ current \in ToSet(children[p])
      BY <1>0, <1>2 DEF FamilyTree
    <3>2. PICK i \in DOMAIN children[p] : children[p][i] = current
      BY <3>1 DEF ToSet
    <3>3. <<"children", p, i>> \in Handles(current)
      BY <3>1, <3>2 DEF Handles
    <3>4. <<"children", p, i>> \notin {<<"current">>, <<"PID_TO_TASK", pid[current]>>}
      OBVIOUS
    <3>5. QED BY <3>3, <3>4
  <2>2. /\ task_status' = [task_status EXCEPT ![current] = "Zombie"]
        /\ reparent(current)
        /\ remove_from_pid_to_task(pid[current])
        /\ current' = None
        /\ UNCHANGED <<pid, in_file, ready_queue, pid_vars, panic>>
    BY <1>0, <1>2, <2>1 DEF exit_current_and_run_next
  <2>3. /\ task_status' \in [Task -> {"Free", "Ready", "Running", "Zombie"}]
        /\ \A t \in Task : task_status'[t] = IF t = current THEN "Zombie" ELSE task_status[t]
    BY <1>0, <2>2 DEF TypeOK
  <2>4. Live' = Live
    BY <1>0, <2>3 DEF Live
  <2>5. /\ parent' \in [Task -> Task \cup {None}]
        /\ \A c \in Task : parent'[c] = IF c \in ToSet(children[current]) THEN INITPROC
                                                                       ELSE parent[c]
    BY <2>2, TaskAssumption DEF reparent, TypeOK
  <2>6. /\ children' \in [Task -> Seq(Task)]
        /\ \A p \in Task : p \notin {INITPROC, current} => children'[p] = children[p]
        /\ ToSet(children'[current]) = {} /\ IsInjective(children'[current])
        /\ ToSet(children'[INITPROC]) = ToSet(children[INITPROC]) \cup ToSet(children[current])
        /\ IsInjective(children'[INITPROC])
    <3>1. /\ children[current] \in Seq(Task) /\ IsInjective(children[current])
          /\ children[INITPROC] \in Seq(Task) /\ IsInjective(children[INITPROC])
          /\ ToSet(children[INITPROC]) \cap ToSet(children[current]) = {}
      <4>1. children[current] \in Seq(Task) /\ children[INITPROC] \in Seq(Task)
        BY <1>0, TaskAssumption DEF TypeOK
      <4>2. ToSet(children[current]) \subseteq Task
        BY <4>1, ElementOfSeq, LenProperties DEF ToSet
      <4>3. QED BY <4>1, <4>2, <1>0, <1>2, TaskAssumption DEF FamilyTree
    <3>2. /\ children'[INITPROC] = children[INITPROC] \o children[current]
          /\ children'[current] = <<>>
          /\ \A p \in Task : p \notin {INITPROC, current} => children'[p] = children[p]
          /\ children' = [p \in Task |-> children'[p]]
      BY <1>0, <1>2, <2>2, TaskAssumption DEF reparent, TypeOK
    <3>3. /\ children'[INITPROC] \in Seq(Task) /\ IsInjective(children'[INITPROC])
          /\ ToSet(children'[INITPROC]) = ToSet(children[INITPROC]) \cup ToSet(children[current])
      BY <3>1, <3>2, ConcatElements
    <3>4. children' \in [Task -> Seq(Task)]
      <4>1. ASSUME NEW p \in Task PROVE children'[p] \in Seq(Task)
        <5>1. CASE p = INITPROC
          BY <5>1, <3>3
        <5>2. CASE p = current
          BY <5>2, <3>2
        <5>3. CASE p \notin {INITPROC, current}
          BY <5>3, <3>2 DEF TypeOK
        <5>4. QED BY <5>1, <5>2, <5>3
      <4>2. QED BY <3>2, <4>1
    <3>5. ToSet(children'[current]) = {} /\ IsInjective(children'[current])
      BY <3>2 DEF ToSet, IsInjective
    <3>6. QED BY <3>2, <3>3, <3>4, <3>5
  <2>7. /\ DOMAIN PID_TO_TASK' = DOMAIN PID_TO_TASK \ {pid[current]}
        /\ PID_TO_TASK' \in [DOMAIN PID_TO_TASK' -> Task]
        /\ \A m \in DOMAIN PID_TO_TASK' : PID_TO_TASK'[m] = PID_TO_TASK[m]
    BY <2>2 DEF remove_from_pid_to_task, Restrict, TypeOK
  <2>8. TypeOK'
    BY <2>2, <2>3, <2>5, <2>6, <2>7 DEF TypeOK, pid_vars
  <2>9. OnlyInitprocExitPanics'
    BY <2>2 DEF OnlyInitprocExitPanics
  <2>10. OnePlace'
    BY <1>0, <1>2, <2>2, <2>3, TaskAssumption DEF OnePlace
  <2>11. FamilyTree'
    <3>1. ASSUME NEW p \in Task
          PROVE  /\ IsInjective(children'[p])
                 /\ \A c \in Task : c \in ToSet(children'[p]) <=>
                                       c # INITPROC /\ c \in Live' /\ parent'[c] = p
      <4>1. CASE p = INITPROC
        BY <4>1, <1>0, <2>4, <2>5, <2>6 DEF FamilyTree
      <4>2. CASE p = current
        <5>1. \A c \in Live \ {INITPROC} : parent[c] = current => c \in ToSet(children[current])
          BY <1>0 DEF FamilyTree, Live
        <5>2. QED BY <4>2, <5>1, <1>0, <1>2, <2>4, <2>5, <2>6 DEF Live
      <4>3. CASE p \notin {INITPROC, current}
        <5>1. \A c \in ToSet(children[current]) : parent[c] = current
          <6>1. children[current] \in Seq(Task)
            BY <1>0 DEF TypeOK
          <6>2. ToSet(children[current]) \subseteq Task
            BY <6>1, ElementOfSeq, LenProperties DEF ToSet
          <6>3. QED BY <1>0, <6>2 DEF FamilyTree
        <5>2. QED BY <4>3, <5>1, <1>0, <2>4, <2>5, <2>6 DEF FamilyTree
      <4>4. QED BY <4>1, <4>2, <4>3
    <3>2. ASSUME NEW c \in Live' \ {INITPROC}
          PROVE  parent'[c] \in Task /\ task_status'[parent'[c]] \in {"Ready", "Running"}
      <4>1. CASE c \in ToSet(children[current])
        BY <4>1, <3>2, <1>2, <2>3, <2>4, <2>5, TaskAssumption DEF Live, OnePlace
      <4>2. CASE c \notin ToSet(children[current])
        <5>1. c \in Live \ {INITPROC} /\ c \in Task /\ parent'[c] = parent[c]
          BY <4>2, <3>2, <2>4, <2>5 DEF Live
        <5>2. parent[c] # current
          BY <4>2, <5>1, <1>0 DEF FamilyTree
        <5>3. QED BY <5>1, <5>2, <2>3 DEF FamilyTree
      <4>3. QED BY <4>1, <4>2
    <3>3. QED BY <3>1, <3>2 DEF FamilyTree
  <2>12. PidMapExact'
    <3>1. {pid[t] : t \in {u \in Live : task_status'[u] # "Zombie"}}
            = {pid[t] : t \in {u \in Live : task_status[u] # "Zombie"}} \ {pid[current]}
      BY <1>0, <2>3 DEF PidsPartitioned, Live
    <3>2. QED BY <3>1, <1>0, <2>2, <2>3, <2>4, <2>7 DEF PidMapExact, Live
  <2>13. PidsPartitioned'
    BY <2>2, <2>4 DEF PidsPartitioned, pid_vars
  <2>14. InFile'
    BY <1>0, <2>2, <2>3 DEF InFile, NotExited
  <2>15. QED BY <2>8, <2>9, <2>10, <2>11, <2>12, <2>13, <2>14
<1>3. QED BY <1>1, <1>2

(***************************************************************************)
(* waitpid preserves the invariant: the zombie it finds is held by the     *)
(* parent's vector alone, its pid is not recycled yet, and the TCB it      *)
(* frees is a zombie child of the caller.                                  *)
(***************************************************************************)
LEMMA ReapIInv ==
  ASSUME IInv, NEW n \in Int, sys_waitpid_reaps(n)
  PROVE  /\ IInv'
         /\ \A t \in Task : task_status'[t] # task_status[t] =>
              task_status[t] = "Zombie" /\ task_status'[t] = "Free" /\ parent[t] = current
<1> USE DEF IInv
<1>0. /\ current \in Task /\ current \in Live /\ task_status[current] = "Running"
      /\ panic = "none"
  BY DEF sys_waitpid_reaps, User, TypeOK, OnePlace, Live
<1>1. PICK i \in DOMAIN children[current] :
        /\ task_status[children[current][i]] = "Zombie"
        /\ IF Handles(children[current][i]) # {<<"children", current, i>>}
           THEN Panic("strong_count")
           ELSE IF \/ pid[children[current][i]] >= pid_current
                   \/ pid[children[current][i]] \in ToSet(recycled)
           THEN Panic("pid_dealloc")
           ELSE /\ children' = [children EXCEPT ![current] = RemoveAt(@, i)]
                /\ drop_tcb(children[current][i])
                /\ UNCHANGED <<in_file, sched_vars, panic>>
  BY DEF sys_waitpid_reaps, ReapIndex, IsReapable
<1> DEFINE z == children[current][i]
<1>2. /\ children[current] \in Seq(Task) /\ IsInjective(children[current])
      /\ i \in 1..Len(children[current])
  BY <1>0, <1>1, LenProperties DEF TypeOK, FamilyTree
<1>3. /\ z \in Task /\ z \in Live /\ z \in ToSet(children[current])
      /\ task_status[z] = "Zombie" /\ z # current /\ z # INITPROC
  BY <1>0, <1>1, <1>2, ElementOfSeq DEF ToSet, Live, OnePlace
<1>4. /\ parent[z] = current /\ z \notin ToSet(ready_queue) /\ z \notin in_file
      /\ \A m \in DOMAIN PID_TO_TASK : PID_TO_TASK[m] # z
  BY <1>0, <1>3 DEF FamilyTree, OnePlace, PidMapExact, InFile, NotExited, Live
<1>5. \A p \in Task, j \in Nat : j \in DOMAIN children[p] /\ children[p][j] = z => p = current /\ j = i
  <2>1. ASSUME NEW p \in Task, NEW j \in DOMAIN children[p], children[p][j] = z
        PROVE  p = current /\ j = i
    <3>1. z \in ToSet(children[p])
      BY <2>1 DEF ToSet
    <3>2. p = current
      BY <3>1, <1>3, <1>4 DEF FamilyTree
    <3>3. QED BY <3>2, <2>1, <1>2, <1>1 DEF IsInjective
  <2>2. QED BY <2>1
<1>6. Handles(z) = {<<"children", current, i>>}
  <2>1. /\ {z} \cap {INITPROC} = {} /\ {z} \cap {current} = {} /\ {z} \cap in_file = {}
        /\ {j \in DOMAIN ready_queue : ready_queue[j] = z} = {}
        /\ {m \in DOMAIN PID_TO_TASK : PID_TO_TASK[m] = z} = {}
    BY <1>3, <1>4 DEF ToSet
  <2>2. ASSUME NEW p \in Task
        PROVE  {j \in DOMAIN children[p] : children[p][j] = z} = IF p = current THEN {i} ELSE {}
    <3>1. DOMAIN children[p] = 1..Len(children[p]) /\ Len(children[p]) \in Nat
      BY LenProperties DEF TypeOK
    <3>2. QED BY <3>1, <1>1, <1>5
  <2> HIDE DEF z
  <2>3. UNION {{<<"children", p, k>> : k \in {j \in DOMAIN children[p] : children[p][j] = z}}
                 : p \in Task} = {<<"children", current, i>>}
    BY <1>0, <2>2
  <2>4. QED BY <2>1, <2>3 DEF Handles
<1>7. pid[z] \in Nat /\ ~(pid[z] >= pid_current) /\ pid[z] \notin ToSet(recycled)
  <2> HIDE DEF z
  <2>1. pid[z] \in Nat /\ pid_current \in Nat
    BY <1>3 DEF TypeOK
  <2>2. pid[z] \in {pid[t] : t \in Live}
    BY <1>3
  <2>3. pid[z] \in 0..(pid_current - 1) /\ pid[z] \notin ToSet(recycled)
    BY <2>2 DEF PidsPartitioned
  <2>4. QED BY <2>1, <2>3
<1>8. /\ children' = [children EXCEPT ![current] = RemoveAt(@, i)]
      /\ drop_tcb(z)
      /\ UNCHANGED <<in_file, sched_vars, panic>>
  BY <1>1, <1>6, <1>7
<1> HIDE DEF z
<1>9. /\ task_status' \in [Task -> {"Free", "Ready", "Running", "Zombie"}]
      /\ \A t \in Task : task_status'[t] = IF t = z THEN "Free" ELSE task_status[t]
      /\ pid' \in [Task -> Nat]
      /\ \A t \in Task : t # z => pid'[t] = pid[t]
      /\ parent' \in [Task -> Task \cup {None}]
      /\ \A t \in Task : t # z => parent'[t] = parent[t]
  BY <1>3, <1>8 DEF TypeOK, drop_tcb
<1>10. Live' = Live \ {z}
  BY <1>3, <1>9 DEF Live
<1>11. /\ children' \in [Task -> Seq(Task)]
       /\ \A p \in Task : p # current => children'[p] = children[p]
       /\ ToSet(children'[current]) = ToSet(children[current]) \ {z}
       /\ IsInjective(children'[current])
  <2>1. children'[current] = RemoveAt(children[current], i)
    BY <1>0, <1>8 DEF TypeOK
  <2>2. /\ children'[current] \in Seq(Task) /\ IsInjective(children'[current])
        /\ ToSet(children'[current]) = ToSet(children[current]) \ {z}
    BY <1>2, <2>1, RemoveAtElements DEF z
  <2>3. QED BY <1>0, <1>8, <2>1, <2>2 DEF TypeOK
<1>12. /\ recycled' \in Seq(Nat) /\ IsInjective(recycled')
       /\ ToSet(recycled') = ToSet(recycled) \cup {pid[z]}
  BY <1>7, <1>8, AppendElements DEF drop_tcb, TypeOK, PidsPartitioned
<1>13. {pid'[t] : t \in Live'} = {pid[t] : t \in Live} \ {pid[z]}
  BY <1>3, <1>9, <1>10 DEF PidsPartitioned, Live
<1>14. TypeOK'
  BY <1>8, <1>9, <1>11, <1>12 DEF TypeOK, drop_tcb, sched_vars
<1>15. OnlyInitprocExitPanics'
  BY <1>8 DEF OnlyInitprocExitPanics
<1>16. OnePlace'
  BY <1>3, <1>8, <1>9, TaskAssumption DEF OnePlace, sched_vars
<1>17. FamilyTree'
  <2>1. ASSUME NEW p \in Task
        PROVE  /\ IsInjective(children'[p])
               /\ \A c \in Task : c \in ToSet(children'[p]) <=>
                                     c # INITPROC /\ c \in Live' /\ parent'[c] = p
    <3>1. IsInjective(children'[p])
      BY <1>11 DEF FamilyTree
    <3>2. ASSUME NEW c \in Task
          PROVE  c \in ToSet(children'[p]) <=>
                   c # INITPROC /\ c \in Live' /\ parent'[c] = p
      <4>1. CASE c = z
        <5>1. c \notin Live'
          BY <4>1, <1>10
        <5>2. c \notin ToSet(children'[p])
          BY <4>1, <1>3, <1>4, <1>11 DEF FamilyTree
        <5>3. QED BY <5>1, <5>2
      <4>2. CASE c # z
        <5>1. c \in ToSet(children'[p]) <=> c \in ToSet(children[p])
          BY <4>2, <1>11
        <5>2. (c \in Live' <=> c \in Live) /\ parent'[c] = parent[c]
          BY <4>2, <1>9, <1>10
        <5>3. QED BY <5>1, <5>2 DEF FamilyTree
      <4>3. QED BY <4>1, <4>2
    <3>3. QED BY <3>1, <3>2
  <2>2. ASSUME NEW c \in Live' \ {INITPROC}
        PROVE  parent'[c] \in Task /\ task_status'[parent'[c]] \in {"Ready", "Running"}
    <3>1. c \in Live \ {INITPROC} /\ c \in Task /\ c # z
      BY <2>2, <1>10 DEF Live
    <3>2. parent'[c] = parent[c] /\ parent[c] \in Task /\ parent[c] # z
      BY <3>1, <1>3, <1>9 DEF FamilyTree
    <3>3. QED BY <3>1, <3>2, <1>9 DEF FamilyTree
  <2>3. QED BY <2>1, <2>2 DEF FamilyTree
<1>18. PidMapExact'
  <2>1. {pid'[t] : t \in {u \in Live' : task_status'[u] # "Zombie"}}
          = {pid[t] : t \in {u \in Live : task_status[u] # "Zombie"}}
    BY <1>3, <1>9, <1>10 DEF Live
  <2>2. QED BY <2>1, <1>8, <1>9, <1>10 DEF PidMapExact, sched_vars, Live
<1>19. PidsPartitioned'
  <2>1. kernel_stacks' = kernel_stacks \ {pid[z]} /\ pid_current' = pid_current
    BY <1>8 DEF drop_tcb
  <2>2. \A t, u \in Live' : pid'[t] = pid'[u] => t = u
    BY <1>9, <1>10 DEF PidsPartitioned, Live
  <2>3. pid[z] \in {pid[t] : t \in Live}
    BY <1>3
  <2>4. {pid'[t] : t \in Live'} \cap ToSet(recycled') = {}
    BY <1>12, <1>13 DEF PidsPartitioned
  <2>5. {pid'[t] : t \in Live'} \cup ToSet(recycled') = {pid[t] : t \in Live} \cup ToSet(recycled)
    BY <1>12, <1>13, <2>3
  <2>6. QED BY <2>1, <2>2, <2>4, <2>5, <1>12, <1>13 DEF PidsPartitioned
<1>20. InFile'
  BY <1>3, <1>4, <1>8, <1>9 DEF InFile, NotExited
<1>21. IInv'
  BY <1>14, <1>15, <1>16, <1>17, <1>18, <1>19, <1>20
<1>22. QED BY <1>3, <1>4, <1>9, <1>21

(***************************************************************************)
(* Every step of the process core preserves the invariant.                 *)
(***************************************************************************)
LEMMA NextIInv ==
  ASSUME IInv, [Next]_vars
  PROVE  IInv'
<1>1. CASE run_tasks
  BY <1>1, RunTasksIInv
<1>2. CASE sys_yield \/ timer_trap \/ file_suspends
  BY <1>2, SuspendIInv DEF sys_yield, timer_trap, file_suspends, User, pid_vars
<1>3. CASE file_returns
  BY <1>3, FileReturnsIInv
<1>4. CASE sys_fork
  BY <1>4, ForkIInv
<1>5. CASE exit_current_and_run_next
  BY <1>5, ExitIInv
<1>6. ASSUME NEW n \in {ANY_PROCESS} \cup (0..pid_current), sys_waitpid_reaps(n)
      PROVE  IInv'
  <2>1. n \in Int
    BY <1>6 DEF IInv, TypeOK, ANY_PROCESS
  <2>2. QED BY <1>6, <2>1, ReapIInv
<1>7. CASE UNCHANGED vars
  BY <1>7 DEF vars, IInv, tcb_vars, sched_vars, pid_vars, TypeOK, OnlyInitprocExitPanics, OnePlace,
              FamilyTree, PidMapExact, PidsPartitioned, InFile, NotExited, Live
<1>8. QED
  BY <1>1, <1>2, <1>3, <1>4, <1>5, <1>6, <1>7 DEF Next, Halted, sys_waitpid_fails

(***************************************************************************)
(* The inductive invariant holds in every reachable state.                 *)
(***************************************************************************)
THEOREM Invariance == Spec => []IInv
BY InitIInv, NextIInv, PTL DEF Spec

(***************************************************************************)
(* The variables keep their types.                                         *)
(***************************************************************************)
THEOREM TypeCorrect == Spec => []TypeOK
<1>1. IInv => TypeOK
  BY DEF IInv
<1>2. QED BY <1>1, Invariance, PTL

(***************************************************************************)
(* Whatever the processes call and however they interleave, the kernel     *)
(* stops only if INITPROC exits: the assertions of waitpid,                *)
(* PidAllocator::dealloc and PageTable::map and the unwrap-like lookup of  *)
(* remove_from_pid_to_task hold.                                           *)
(***************************************************************************)
THEOREM NoAssertionFails == Spec => []OnlyInitprocExitPanics
<1>1. IInv => OnlyInitprocExitPanics
  BY DEF IInv
<1>2. QED BY <1>1, Invariance, PTL

(***************************************************************************)
(* A task is in the processor, in one slot of the ready queue, or in       *)
(* neither, as its status says.                                            *)
(***************************************************************************)
THEOREM EachTaskInOnePlace == Spec => []OnePlace
<1>1. IInv => OnePlace
  BY DEF IInv
<1>2. QED BY <1>1, Invariance, PTL

(***************************************************************************)
(* fork, exit with its reparenting, and waitpid keep the process tree.     *)
(***************************************************************************)
THEOREM TreeKept == Spec => []FamilyTree
<1>1. IInv => FamilyTree
  BY DEF IInv
<1>2. QED BY <1>1, Invariance, PTL

(***************************************************************************)
(* PID_TO_TASK holds exactly the tasks that have not exited.               *)
(***************************************************************************)
THEOREM PidMapKept == Spec => []PidMapExact
<1>1. IInv => PidMapExact
  BY DEF IInv
<1>2. QED BY <1>1, Invariance, PTL

(***************************************************************************)
(* Pids in use, recycled pids and mapped kernel stacks agree.              *)
(***************************************************************************)
THEOREM PidsKept == Spec => []PidsPartitioned
<1>1. IInv => PidsPartitioned
  BY DEF IInv
<1>2. QED BY <1>1, Invariance, PTL

(***************************************************************************)
(* INITPROC and the TCBs that do not exist have no parent.                 *)
(***************************************************************************)
Roots == \A c \in Task : c = INITPROC \/ c \notin Live => parent[c] = None

(***************************************************************************)
(* The status a program can tell: the mapping of ImplementsProcesses.      *)
(***************************************************************************)
Kin == [t \in Task |-> IF task_status[t] \in {"Ready", "Running"} THEN "Live"
                       ELSE task_status[t]]

(***************************************************************************)
(* Every step is a step of the family of processes or changes nothing that *)
(* programs can tell, and keeps Roots: scheduling and file calls move a    *)
(* task between Ready and Running only.                                    *)
(***************************************************************************)
LEMMA FamilyStep ==
  ASSUME IInv, Roots, [Next]_vars
  PROVE  Roots' /\ [Family!FamilyNext]_<<Kin, parent>>
<1> USE DEF IInv
<1>0. /\ task_status \in [Task -> {"Free", "Ready", "Running", "Zombie"}]
      /\ parent \in [Task -> Task \cup {None}]
      /\ INITPROC \in Task /\ None \notin Task
  BY TaskAssumption DEF TypeOK
<1>1. CASE UNCHANGED <<Kin, parent>> /\ Live' = Live
  BY <1>1 DEF Roots
<1>2. CASE run_tasks
  <2>1. Head(ready_queue) \in ToSet(ready_queue) /\ Head(ready_queue) \in Task
    BY <1>2, HeadTailProperties, LenProperties DEF run_tasks, TypeOK, ToSet
  <2>2. /\ task_status' = [task_status EXCEPT ![Head(ready_queue)] = "Running"]
        /\ parent' = parent
    BY <1>2 DEF run_tasks
  <2>3. task_status[Head(ready_queue)] = "Ready"
    BY <2>1 DEF OnePlace
  <2>4. Kin' = Kin /\ Live' = Live
    BY <1>0, <2>1, <2>2, <2>3 DEF Kin, Live
  <2> QED BY <1>1, <2>2, <2>4
<1>3. CASE sys_yield \/ timer_trap \/ file_suspends
  <2>1. /\ current \in Task /\ task_status[current] = "Running"
        /\ task_status' = [task_status EXCEPT ![current] = "Ready"]
        /\ parent' = parent
    BY <1>3 DEF sys_yield, timer_trap, file_suspends, suspend_current_and_run_next, User,
                TypeOK, OnePlace
  <2>2. Kin' = Kin /\ Live' = Live
    BY <1>0, <2>1 DEF Kin, Live
  <2> QED BY <1>1, <2>1, <2>2
<1>4. CASE UNCHANGED <<task_status, parent>>
  BY <1>1, <1>4 DEF Kin, Live
<1>5. CASE sys_fork
  <2>1. CASE UNCHANGED <<task_status, parent>>
    BY <1>4, <2>1
  <2>2. ASSUME NEW child \in Task \ Live,
               task_status' = [task_status EXCEPT ![child] = "Ready"],
               parent' = [parent EXCEPT ![child] = current]
        PROVE  Roots' /\ [Family!FamilyNext]_<<Kin, parent>>
    <3>1. /\ current \in Task /\ task_status[current] = "Running"
          /\ task_status[child] = "Free" /\ child # INITPROC
      BY <1>5, <2>2 DEF sys_fork, User, TypeOK, OnePlace, Live
    <3>2. /\ Kin[current] = "Live" /\ Kin[child] = "Free"
          /\ Kin' = [Kin EXCEPT ![child] = "Live"]
      BY <1>0, <2>2, <3>1 DEF Kin
    <3>3. Family!Fork(current, child)
      BY <2>2, <3>2 DEF Family!Fork, Kin
    <3>4. Roots'
      BY <1>0, <2>2, <3>1 DEF Roots, Live
    <3> QED BY <2>2, <3>1, <3>3, <3>4 DEF Family!FamilyNext
  <2> QED BY <1>5, <2>1, <2>2 DEF sys_fork, Panic, tcb_vars
<1>6. CASE exit_current_and_run_next
  <2>1. CASE UNCHANGED <<task_status, parent>>
    BY <1>4, <2>1
  <2>2. CASE /\ current # INITPROC
             /\ task_status' = [task_status EXCEPT ![current] = "Zombie"]
             /\ reparent(current)
    <3>1. current \in Task /\ current \in Live /\ task_status[current] = "Running"
      BY <1>6 DEF exit_current_and_run_next, User, TypeOK, OnePlace, Live
    <3>2. \A c \in Task : c \in ToSet(children[current]) <=> parent[c] = current
      BY <1>0, <3>1 DEF FamilyTree, Roots
    <3>3. parent' = [c \in Task |-> IF parent[c] = current THEN INITPROC ELSE parent[c]]
      BY <2>2, <3>2 DEF reparent
    <3>4. Kin[current] = "Live" /\ Kin' = [Kin EXCEPT ![current] = "Zombie"]
      BY <1>0, <2>2, <3>1 DEF Kin
    <3>5. Family!Exit(current)
      BY <2>2, <3>3, <3>4 DEF Family!Exit, Kin
    <3>6. Live' = Live
      BY <1>0, <2>2, <3>1 DEF Live
    <3>7. Roots'
      BY <1>0, <3>1, <3>3, <3>6 DEF Roots
    <3>8. Family!FamilyNext
      BY <3>1, <3>5, Zenon DEF Family!FamilyNext, Family!Exit
    <3> QED BY <3>7, <3>8
  <2> QED BY <1>6, <2>1, <2>2 DEF exit_current_and_run_next, Panic, tcb_vars
<1>7. ASSUME NEW n \in {ANY_PROCESS} \cup (0..pid_current), sys_waitpid_reaps(n)
      PROVE  Roots' /\ [Family!FamilyNext]_<<Kin, parent>>
  <2>1. CASE UNCHANGED <<task_status, parent>>
    BY <1>4, <2>1
  <2>2. ASSUME NEW i \in ReapIndex(n), drop_tcb(children[current][i])
        PROVE  Roots' /\ [Family!FamilyNext]_<<Kin, parent>>
    <3> DEFINE z == children[current][i]
    <3>1. current \in Task /\ task_status[current] = "Running"
      BY <1>7 DEF sys_waitpid_reaps, User, TypeOK, OnePlace
    <3>2. i \in DOMAIN children[current] /\ task_status[z] = "Zombie"
      BY <2>2 DEF ReapIndex, IsReapable
    <3>3. children[current] \in Seq(Task)
      BY <3>1 DEF TypeOK
    <3>4. z \in Task /\ z \in ToSet(children[current])
      BY <3>2, <3>3, ElementOfSeq, LenProperties DEF ToSet
    <3>5. parent[z] = current /\ z # INITPROC
      BY <3>1, <3>4 DEF FamilyTree
    <3>6. /\ task_status' = [task_status EXCEPT ![z] = "Free"]
          /\ parent' = [parent EXCEPT ![z] = None]
      BY <2>2 DEF drop_tcb
    <3> HIDE DEF z
    <3>7. /\ Kin[current] = "Live" /\ Kin[z] = "Zombie"
          /\ Kin' = [Kin EXCEPT ![z] = "Free"]
      BY <1>0, <3>1, <3>2, <3>4, <3>6 DEF Kin
    <3>8. Family!Reap(current, z)
      BY <3>5, <3>6, <3>7 DEF Family!Reap, Kin
    <3>9. Roots'
      BY <1>0, <3>4, <3>6 DEF Roots, Live
    <3>10. Family!FamilyNext
      BY <3>1, <3>4, <3>8, Zenon DEF Family!FamilyNext, Family!Reap
    <3> QED BY <3>9, <3>10
  <2> QED BY <1>7, <2>1, <2>2 DEF sys_waitpid_reaps, Panic, tcb_vars
<1> QED
  BY <1>2, <1>3, <1>4, <1>5, <1>6, <1>7
     DEF Next, file_returns, sys_waitpid_fails, Halted, vars, tcb_vars

(***************************************************************************)
(* The process core, with any number of TCBs and however the processes     *)
(* interleave, implements the family of processes programs are written     *)
(* for.                                                                    *)
(***************************************************************************)
THEOREM CoreIsAFamily == Spec => ImplementsProcesses
<1>1. Init => Roots
  BY DEF Init, Roots
<1>2. Init => Family!FamilyInit
  BY TaskAssumption DEF Init, Family!FamilyInit
<1>3. IInv /\ Roots /\ [Next]_vars => Roots'
  BY FamilyStep
<1>4. IInv /\ Roots /\ [Next]_vars => [Family!FamilyNext]_(Family!family_vars)
  BY FamilyStep DEF Family!family_vars, Kin
<1> QED
  BY <1>1, <1>2, <1>3, <1>4, Invariance, PTL DEF Spec, ImplementsProcesses, Family!FamilySpec
=============================================================================
