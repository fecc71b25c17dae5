------------------------------ MODULE Signals ------------------------------
(***************************************************************************)
(* Signal delivery (os/src/task/signal.rs, the signal system calls of      *)
(* os/src/syscall/process.rs and the end of trap_handler).                 *)
(*                                                                         *)
(* The module follows one process.  Processes share no signal state, so    *)
(* the others appear only as senders: sys_kill of another process may set  *)
(* a bit at any time the followed one waits to be dispatched.  Init holds  *)
(* the states in which a process is created: by TaskControlBlock::new, or  *)
(* by a fork, possibly made inside a handler, from a parent with any mask  *)
(* and any actions.                                                        *)
(*                                                                         *)
(* A trap is two steps up to the point where it suspends: the system call  *)
(* or fault, and handle_signals with what follows it in trap_handler.      *)
(* Nobody runs in between; at "trap" the signals it will find can be seen. *)
(* The context is reduced to the code it resumes: the program (Main) or a  *)
(* handler.  Programs may call sigreturn anywhere.                         *)
(***************************************************************************)
EXTENDS Integers

CONSTANTS
    Sig,        \* the signal numbers in use, out of 0..31
    Masks,      \* the sets of signals programs use as masks
    Main,       \* the context of the program itself
    None

ASSUME SigAssumption ==
    /\ Sig \subseteq 0..31
    /\ Masks \subseteq SUBSET Sig
    /\ {Main, None} \cap Sig = {} /\ Main # None

MAX_SIG == 31

SIGDEF  == 0
SIGINT  == 2
SIGQUIT == 3
SIGILL  == 4
SIGTRAP == 5
SIGABRT == 6
SIGFPE  == 8
SIGKILL == 9
SIGSEGV == 11
SIGCONT == 18
SIGSTOP == 19

KernelSig == {SIGKILL, SIGSTOP, SIGCONT, SIGDEF}
UserSig   == Sig \ KernelSig

\* The signals for which check_error gives an exit code.
ErrorSig == {SIGINT, SIGILL, SIGABRT, SIGFPE, SIGKILL, SIGSEGV}

\* SignalAction::default: no handler, and the mask 40.
DefaultAction == [handler |-> FALSE, mask |-> {SIGQUIT, SIGTRAP} \cap Sig]

\* sigaction of SIGCONT or SIGDEF writes an entry nothing reads; the table is
\* restricted to the signals that reach call_user_signal_handler.
Actions == [UserSig -> [handler : BOOLEAN, mask : Masks \cup {DefaultAction.mask}]]

Contexts == {Main} \cup UserSig

VARIABLES
    inner,      \* the signal fields of TaskControlBlockInner, and the trap context
    pc          \* where the process is

vars == <<inner, pc>>

NotHandling == -1

Fresh(mask, actions, cx) ==
    [signals |-> {}, signal_mask |-> mask, handling_sig |-> NotHandling,
     signal_actions |-> actions, killed |-> FALSE, frozen |-> FALSE,
     trap_cx |-> cx, trap_ctx_backup |-> None]

Init ==
    /\ pc = "created"
    /\ \/ inner = Fresh({}, [s \in UserSig |-> DefaultAction], Main)
       \/ \E mask \in Masks, actions \in Actions, cx \in Contexts :
            inner = Fresh(mask, actions, cx)
-----------------------------------------------------------------------------
(***************************************************************************)
(* check_pending_signals.  The loop over the numbers 0..31 skips what is   *)
(* not pending, what the process masks and what the action of the signal   *)
(* being handled masks.  It runs the kernel's handler of every other       *)
(* kernel signal it meets and returns at the first other user signal.      *)
(***************************************************************************)
Deliverable(t) ==
    (t.signals \ t.signal_mask)
        \ IF t.handling_sig = NotHandling THEN {}
          ELSE t.signal_actions[t.handling_sig].mask

FirstUserSig(t) ==
    LET u == Deliverable(t) \cap UserSig
    IN  {s \in u : \A r \in u : s <= r}

KernelHandled(t) ==
    {s \in Deliverable(t) \cap KernelSig : \A u \in FirstUserSig(t) : s < u}

\* Variant: SIGCONT is consumed and the process stays stopped.
call_kernel_signal_handlers_no_resume(t) ==
    LET k == KernelHandled(t)
    IN  [t EXCEPT !.signals = @ \ (k \cap {SIGSTOP, SIGCONT}),
                  !.frozen  = @ \/ SIGSTOP \in k,
                  !.killed  = @ \/ k \cap {SIGKILL, SIGDEF} # {}]

\* Variant: the handler of SIGKILL sets no flag.
call_kernel_signal_handlers_no_kill(t) ==
    LET k == KernelHandled(t)
    IN  [t EXCEPT !.signals = @ \ (k \cap {SIGSTOP, SIGCONT}),
                  !.frozen  = IF SIGSTOP \in k THEN TRUE
                              ELSE IF SIGCONT \in k THEN FALSE ELSE @]

\* Variant: every kernel signal is cleared, SIGKILL with it.
call_kernel_signal_handlers_clear(t) ==
    LET k == KernelHandled(t)
    IN  [t EXCEPT !.signals = @ \ k,
                  !.frozen  = IF SIGSTOP \in k THEN TRUE
                              ELSE IF SIGCONT \in k THEN FALSE ELSE @,
                  !.killed  = @ \/ k \cap {SIGKILL, SIGDEF} # {}]

\* The handler of SIGCONT runs before that of SIGSTOP, whichever came first.
call_kernel_signal_handlers(t) ==
    LET k == KernelHandled(t)
    IN  [t EXCEPT !.signals = @ \ (k \cap {SIGSTOP, SIGCONT}),
                  !.frozen  = IF SIGSTOP \in k THEN TRUE
                              ELSE IF SIGCONT \in k THEN FALSE ELSE @,
                  !.killed  = @ \/ k \cap {SIGKILL, SIGDEF} # {}]

\* Variant: the interrupted context is not saved.
call_user_signal_handler_no_backup(t, sig) ==
    IF ~t.signal_actions[sig].handler
    THEN t
    ELSE [t EXCEPT !.signal_mask = t.signal_actions[sig].mask,
                   !.handling_sig = sig,
                   !.signals = @ \ {sig},
                   !.trap_cx = sig]

\* Without a handler the signal is reported and stays pending.
call_user_signal_handler(t, sig) ==
    IF ~t.signal_actions[sig].handler
    THEN t
    ELSE [t EXCEPT !.signal_mask = t.signal_actions[sig].mask,
                   !.handling_sig = sig,
                   !.signals = @ \ {sig},
                   !.trap_ctx_backup = t.trap_cx,
                   !.trap_cx = sig]

check_pending_signals(t) ==
    LET k == call_kernel_signal_handlers(t)
    IN  IF FirstUserSig(t) = {} THEN k
        ELSE call_user_signal_handler(k, CHOOSE s \in FirstUserSig(t) : TRUE)

\* The loop itself, which PendingLoopAgrees compares with this closed form: a turn
\* looks at one number, and "returned" is the return after a user's handler.
call_kernel_signal_handler(t, sig) ==
    CASE sig = SIGSTOP -> [t EXCEPT !.frozen = TRUE, !.signals = @ \ {sig}]
      [] sig = SIGCONT -> [t EXCEPT !.frozen = FALSE, !.signals = @ \ {sig}]
      [] OTHER -> [t EXCEPT !.killed = TRUE]

check_turn(acc, sig) ==
    LET t == acc.t IN
    IF \/ acc.returned \/ sig \notin t.signals \/ sig \in t.signal_mask
       \/ t.handling_sig # NotHandling /\ sig \in t.signal_actions[t.handling_sig].mask
    THEN acc
    ELSE IF sig \in KernelSig
    THEN [t |-> call_kernel_signal_handler(t, sig), returned |-> FALSE]
    ELSE [t |-> call_user_signal_handler(t, sig), returned |-> TRUE]

check_pending_loop(t) ==
    LET Loop[n \in 0..(MAX_SIG + 1)] ==
            IF n = 0 THEN [t |-> t, returned |-> FALSE] ELSE check_turn(Loop[n - 1], n - 1)
    IN Loop[MAX_SIG + 1].t
-----------------------------------------------------------------------------
(***************************************************************************)
(* handle_signals and what follows it in trap_handler.  A stopped process  *)
(* suspends inside the loop and looks at its flags again when it runs.     *)
(***************************************************************************)
\* Variant: masked signals are left out of check_error.
trap_handler_ends_masked(t) ==
    /\ inner' = t
    /\ pc' = IF (t.signals \ t.signal_mask) \cap ErrorSig # {} THEN "exited" ELSE "user"

trap_handler_ends(t) ==
    /\ inner' = t
    /\ pc' = IF t.signals \cap ErrorSig # {} THEN "exited" ELSE "user"

\* Variant: the loop ends whatever the flags are.
loop_never_blocks(t) == FALSE

loop_blocks(t) == t.frozen /\ ~t.killed

handle_signals_loop(t) ==
    IF loop_blocks(t)
    THEN inner' = check_pending_signals(t) /\ pc' = "frozen"
    ELSE trap_handler_ends(t)

handle_signals(t) == handle_signals_loop(check_pending_signals(t))

trap_handles == pc = "trap" /\ handle_signals(inner)

frozen_runs == pc = "frozen" /\ handle_signals_loop(inner)
-----------------------------------------------------------------------------
(***************************************************************************)
(* The traps of the process.                                               *)
(***************************************************************************)
\* The first dispatch goes to trap_return and looks at no signals.
first_runs == pc = "created" /\ pc' = "user" /\ UNCHANGED inner

\* A fault in user mode: current_add_signal.
exception(sig) ==
    pc = "user" /\ pc' = "trap" /\ inner' = [inner EXCEPT !.signals = @ \cup {sig}]

\* The timer, or sys_yield: the process suspends before it looks at signals.
suspends == pc = "user" /\ pc' = "suspended" /\ UNCHANGED inner

\* A read or write that waits inside the kernel, looking at no signals.
file_waits == pc = "user" /\ pc' = "file" /\ UNCHANGED inner

suspended_runs == pc = "suspended" /\ handle_signals(inner)

file_returns == pc = "file" /\ handle_signals(inner)

\* A system call that touches no signal state (fork included).
other_syscall == pc = "user" /\ pc' = "trap" /\ UNCHANGED inner

\* exec resets the context and none of the signal state.
sys_exec == pc = "user" /\ pc' = "trap" /\ inner' = [inner EXCEPT !.trap_cx = Main]

sys_exit == pc = "user" /\ pc' = "exited" /\ UNCHANGED inner

sys_kill_self(sig) ==
    pc = "user" /\ pc' = "trap" /\ inner' = [inner EXCEPT !.signals = @ \cup {sig}]

\* Another process, which is running, sends sig to this one, which is not.
sys_kill(sig) ==
    /\ pc \in {"created", "suspended", "file", "frozen"}
    /\ inner' = [inner EXCEPT !.signals = @ \cup {sig}]
    /\ UNCHANGED pc

\* SIGKILL and SIGSTOP are refused, a system call without effect.
sys_sigaction(sig, action) ==
    pc = "user" /\ pc' = "trap" /\ inner' = [inner EXCEPT !.signal_actions[sig] = action]

sys_procmask(mask) ==
    pc = "user" /\ pc' = "trap" /\ inner' = [inner EXCEPT !.signal_mask = mask]

\* Variant: take().unwrap() in place of unwrap().
sys_sigreturn_takes ==
    /\ pc = "user"
    /\ IF inner.trap_ctx_backup = None
       THEN pc' = "panic" /\ inner' = [inner EXCEPT !.handling_sig = NotHandling]
       ELSE pc' = "trap" /\ inner' = [inner EXCEPT !.handling_sig = NotHandling,
                                                  !.trap_cx = inner.trap_ctx_backup,
                                                  !.trap_ctx_backup = None]

\* The unwrap of an empty backup stops the kernel.  A backup stays when it is used,
\* so that a sigreturn outside any handler restores an old one.
sys_sigreturn ==
    /\ pc = "user"
    /\ IF inner.trap_ctx_backup = None
       THEN pc' = "panic" /\ inner' = [inner EXCEPT !.handling_sig = NotHandling]
       ELSE pc' = "trap" /\ inner' = [inner EXCEPT !.handling_sig = NotHandling,
                                                  !.trap_cx = inner.trap_ctx_backup]

Next ==
    \/ \E sig \in Sig : sys_kill(sig) \/ sys_kill_self(sig)
    \/ \E sig \in {SIGILL, SIGSEGV} \cap Sig : exception(sig)
    \/ \E sig \in UserSig, handler \in BOOLEAN, mask \in Masks :
         sys_sigaction(sig, [handler |-> handler, mask |-> mask])
    \/ \E mask \in Masks : sys_procmask(mask)
    \/ first_runs
    \/ trap_handles
    \/ suspends
    \/ suspended_runs
    \/ frozen_runs
    \/ file_waits
    \/ file_returns
    \/ other_syscall
    \/ sys_exec
    \/ sys_exit
    \/ sys_sigreturn
    \/ pc \in {"exited", "panic"} /\ UNCHANGED vars

(***************************************************************************)
(* The timer interrupts user mode, a trap goes on, and a process that does *)
(* not wait for a file is dispatched (module Initproc shows that the       *)
(* scheduler does it).                                                     *)
(***************************************************************************)
Fairness ==
    /\ WF_vars(first_runs) /\ WF_vars(suspends) /\ WF_vars(trap_handles)
    /\ WF_vars(suspended_runs) /\ WF_vars(frozen_runs)

Spec == Init /\ [][Next]_vars /\ Fairness
-----------------------------------------------------------------------------
(***************************************************************************)
(* The fields have the types of the Rust fields they stand for.            *)
(***************************************************************************)
TypeOK ==
    /\ inner.signals \in SUBSET Sig
    /\ inner.signal_mask \in Masks \cup {{}, DefaultAction.mask}
    /\ inner.handling_sig \in UserSig \cup {NotHandling}
    /\ inner.signal_actions \in Actions
    /\ inner.killed \in BOOLEAN /\ inner.frozen \in BOOLEAN
    /\ inner.trap_cx \in Contexts
    /\ inner.trap_ctx_backup \in Contexts \cup {None}
    /\ pc \in {"created", "user", "trap", "suspended", "file", "frozen", "exited", "panic"}

(***************************************************************************)
(* A stopped process does not run its program: no way through the traps    *)
(* and the loop of handle_signals leads back to user mode with frozen set, *)
(* except for a process that SIGDEF has marked killed.                     *)
(***************************************************************************)
StoppedStaysStopped ==
    pc \in {"user", "trap", "suspended", "file"} /\ inner.frozen => inner.killed

(***************************************************************************)
(* The effect of check_pending_signals on every reachable state is that of *)
(* its loop, taken signal by signal in numerical order.                    *)
(***************************************************************************)
PendingLoopAgrees == check_pending_signals(inner) = check_pending_loop(inner)

(***************************************************************************)
(* The fields keep their types, and while a signal is handled the context  *)
(* its handler interrupted is kept, through sigreturn, exec, forks and     *)
(* handlers interrupted by handlers.                                       *)
(***************************************************************************)
HandlingHasBackup ==
    /\ TypeOK
    /\ inner.handling_sig # NotHandling => inner.trap_ctx_backup # None

(***************************************************************************)
(* Once a process has entered a handler it keeps a backup, and no          *)
(* sigreturn of it stops the kernel: not a second one for the same signal, *)
(* not one outside any handler, not one after exec.  (Before the first     *)
(* handler, in a child forked inside one too, sigreturn unwraps None.)     *)
(***************************************************************************)
SigreturnAfterDelivery ==
    [][inner.trap_ctx_backup # None => inner'.trap_ctx_backup # None /\ pc' # "panic"]_vars

(***************************************************************************)
(* A signal once pending is never dropped: SIGSTOP leaves the set only to  *)
(* stop the process, SIGCONT to let it go on (or be stopped again by the   *)
(* SIGSTOP taken with it), another one when its handler is entered.  A     *)
(* trap of a stopped process looks for signals twice.  So the handler it   *)
(* entered first may be the interrupted context of a second one, and the   *)
(* handler of a number above SIGSTOP may let a SIGCONT in that was masked  *)
(* when SIGSTOP took effect.                                               *)
(***************************************************************************)
Consumed(t, u) ==
    LET gone == t.signals \ u.signals IN
    \A s \in gone :
        \/ /\ s = SIGSTOP
           /\ \/ u.frozen
              \/ /\ SIGCONT \in gone
                 /\ u.handling_sig > SIGSTOP /\ u.trap_cx = u.handling_sig
        \/ s = SIGCONT /\ (~u.frozen \/ SIGSTOP \in gone)
        \/ /\ s \in UserSig /\ s \in {u.trap_cx, u.trap_ctx_backup}
           /\ u.trap_cx = u.handling_sig

SignalNotLost == [][Consumed(inner, inner')]_vars

(***************************************************************************)
(* An error signal of the user's range ends the process or is delivered to *)
(* its handler, even when a mask holds it back: trap_handler looks for it  *)
(* after handle_signals and without the masks.  Only a process that stays  *)
(* stopped, or in one file call, for ever keeps such a signal pending.     *)
(***************************************************************************)
ErrorSignalEnds ==
    \A s \in ErrorSig \cap UserSig :
        s \in inner.signals
            ~> \/ s \notin inner.signals \/ pc \in {"exited", "panic"}
               \/ [](pc = "frozen") \/ [](pc = "file")

(***************************************************************************)
(* SIGKILL works: a process with SIGKILL pending exits, unless it stays in *)
(* a file call, or is stopped while SIGKILL is masked or behind a smaller  *)
(* pending user signal.                                                    *)
(***************************************************************************)
KillTerminates ==
    SIGKILL \in inner.signals
        ~> \/ pc \in {"exited", "panic", "file"}
           \/ pc = "frozen" /\ inner.frozen /\ SIGKILL \notin KernelHandled(inner)

(***************************************************************************)
(* SIGCONT works: a stopped process with SIGCONT pending goes on, unless a *)
(* SIGSTOP is delivered with it (the loop then stops the process again,    *)
(* even if SIGSTOP was sent first), or SIGCONT is masked or behind a       *)
(* smaller pending user signal.                                            *)
(***************************************************************************)
ContResumes ==
    (pc = "frozen" /\ inner.frozen /\ SIGCONT \in inner.signals)
        ~> \/ pc # "frozen"
           \/ SIGSTOP \in KernelHandled(inner)
           \/ SIGCONT \in inner.signals \ KernelHandled(inner)

(***************************************************************************)
(* What the comment on sys_sigreturn says, "signal handling ends, return   *)
(* to the user's logic": as long as some signal is handled, the context of *)
(* the program that the first handler interrupted is kept for sigreturn.   *)
(***************************************************************************)
UserLogicKept ==
    [][(/\ inner.handling_sig # NotHandling /\ inner.trap_ctx_backup = Main
        /\ inner'.handling_sig # NotHandling)
         => inner'.trap_ctx_backup = Main]_vars
=============================================================================
