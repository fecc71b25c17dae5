------------------------------ MODULE Initproc ------------------------------
(***************************************************************************)
(* The process core of Tasks composed with the program INITPROC runs       *)
(* (user/src/bin/initproc.rs over the wait of user/src/lib.rs): it forks   *)
(* the shell once and then collects its children for ever, yielding        *)
(* whenever waitpid finds nothing.  The other processes are arbitrary.     *)
(*                                                                         *)
(* This is the module for what must eventually happen.  The fairness is    *)
(* that of the kernel's own control flow:                                  *)
(*   - the idle loop of run_tasks keeps dispatching;                       *)
(*   - the timer interrupts a process that stays in user mode;             *)
(*   - a process dispatched inside a file call goes round its loop, which  *)
(*     suspends again or returns;                                          *)
(*   - a stopped process that is dispatched goes round the loop of         *)
(*     handle_signals, which suspends again or ends;                       *)
(*   - INITPROC, dispatched again and again in user mode, is not preempted *)
(*     every time before its next instruction: a time slice (10 ms) is     *)
(*     longer than the few instructions between two of its system calls.   *)
(* Nothing guarantees that INITPROC gets back to user mode: sys_kill lets  *)
(* every process stop every other, pid 0 included.  Which signals it gets, *)
(* and when, is arbitrary here and the subject of Signals; it has handlers *)
(* for none of them.                                                       *)
(***************************************************************************)
EXTENDS Tasks

VARIABLES
    initproc_pc,    \* the next system call of INITPROC
    initproc_mode   \* in user mode, on its way there, or frozen in handle_signals

initproc_vars == <<initproc_pc, initproc_mode>>
ivars == <<vars, initproc_vars>>

\* The first dispatch goes to trap_return.
IInit == Init /\ initproc_pc = "fork" /\ initproc_mode = "user"

\* INITPROC traps from user mode, and handle_signals follows the trap.
initproc_traps ==
    /\ current = INITPROC
    /\ initproc_mode = "user" /\ initproc_mode' = "signals"

initproc_forks ==
    /\ initproc_traps /\ initproc_pc = "fork"
    /\ sys_fork
    /\ initproc_pc' = "wait"

\* A child was collected: wait returns its pid and main calls wait again.
initproc_collects ==
    /\ initproc_traps /\ initproc_pc = "wait"
    /\ sys_waitpid_reaps(ANY_PROCESS)
    /\ UNCHANGED initproc_pc

\* -1 and -2 alike end in a call of yield.
initproc_finds_none ==
    /\ initproc_traps /\ initproc_pc = "wait"
    /\ sys_waitpid_fails(ANY_PROCESS)
    /\ initproc_pc' = "yield"

initproc_yields ==
    /\ initproc_traps /\ initproc_pc = "yield"
    /\ sys_yield
    /\ initproc_pc' = "wait"

\* INITPROC in the kernel, at handle_signals.
InSignals == panic = "none" /\ current = INITPROC /\ initproc_mode # "user"

\* Not frozen, or no longer: back to user mode.
initproc_resumes == initproc_mode' = "user" /\ UNCHANGED vars

\* Frozen: a turn of the loop.
initproc_frozen ==
    /\ initproc_mode' = "stopped"
    /\ suspend_current_and_run_next
    /\ UNCHANGED <<pid, parent, children, in_file, pid_vars, panic>>

initproc_handles_signals ==
    /\ InSignals
    /\ initproc_resumes \/ initproc_frozen
    /\ UNCHANGED initproc_pc

\* A fatal signal sent to INITPROC ends it; its program has no exit to reach.
initproc_killed ==
    /\ InSignals
    /\ exit_current_and_run_next
    /\ UNCHANGED initproc_vars

\* Any system call of any other process.
others_call ==
    /\ current # INITPROC
    /\ \/ sys_yield
       \/ sys_fork
       \/ exit_current_and_run_next
       \/ \E n \in {ANY_PROCESS} \cup (0..pid_current) : sys_waitpid_reaps(n)
    /\ UNCHANGED initproc_vars

\* The loop of File::read or File::write is entered, goes round or ends.
others_enter_file ==
    /\ current # INITPROC
    /\ User /\ file_suspends
    /\ UNCHANGED initproc_vars

file_loop ==
    /\ current \in in_file
    /\ file_suspends \/ file_returns
    /\ UNCHANGED initproc_vars

dispatch == run_tasks /\ UNCHANGED initproc_vars

preempt ==
    /\ timer_trap
    /\ initproc_traps \/ (current # INITPROC /\ UNCHANGED initproc_mode)
    /\ UNCHANGED initproc_pc

INext ==
    \/ initproc_forks
    \/ initproc_collects
    \/ initproc_finds_none
    \/ initproc_yields
    \/ initproc_handles_signals
    \/ initproc_killed
    \/ others_call
    \/ others_enter_file
    \/ file_loop
    \/ dispatch
    \/ preempt
    \/ Halted /\ UNCHANGED initproc_vars

Fairness ==
    /\ WF_ivars(dispatch)
    /\ WF_ivars(preempt)
    /\ WF_ivars(file_loop)
    /\ WF_ivars(initproc_handles_signals)
    /\ SF_ivars(initproc_forks)
    /\ SF_ivars(initproc_collects)
    /\ SF_ivars(initproc_finds_none)
    /\ SF_ivars(initproc_yields)

ISpec == IInit /\ [][INext]_ivars /\ Fairness
-----------------------------------------------------------------------------
(***************************************************************************)
(* No process starves: whatever the others do, a process in the ready      *)
(* queue is dispatched, unless the kernel stops.                           *)
(***************************************************************************)
ReadyRuns ==
    \A t \in Task : task_status[t] = "Ready" ~> (task_status[t] = "Running" \/ panic # "none")

(***************************************************************************)
(* Every zombie INITPROC is the parent of, its own child or an orphan it   *)
(* was given by exit, is collected and its pid and stack freed, however    *)
(* many zombies keep arriving and however often INITPROC is stopped and    *)
(* continued, unless the kernel stops or some process stops INITPROC for   *)
(* good.                                                                   *)
(***************************************************************************)
OrphansCollected ==
    \A t \in Task \ {INITPROC} :
        (task_status[t] = "Zombie" /\ parent[t] = INITPROC)
            ~> (task_status[t] = "Free" \/ panic # "none" \/ [](initproc_mode = "stopped"))
=============================================================================
