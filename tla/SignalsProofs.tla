--------------------------- MODULE SignalsProofs ---------------------------
(***************************************************************************)
(* Proofs about signal delivery, for every set of signals and of masks.    *)
(* Two lemmas say what one call of check_pending_signals does to the       *)
(* process, a third what two calls in a row do (a trap of a stopped        *)
(* process makes two), and the theorems follow trap by trap.               *)
(***************************************************************************)
EXTENDS Signals, TLAPS

InnerType ==
    [signals : SUBSET Sig, signal_mask : Masks \cup {{}, DefaultAction.mask},
     handling_sig : UserSig \cup {NotHandling}, signal_actions : Actions,
     killed : BOOLEAN, frozen : BOOLEAN,
     trap_cx : Contexts, trap_ctx_backup : Contexts \cup {None}]

Backed(t) ==
    /\ t \in InnerType
    /\ t.handling_sig # NotHandling => t.trap_ctx_backup # None

\* The inductive invariant: the created process is not stopped yet.
IInv ==
    /\ Backed(inner)
    /\ pc \in {"created", "user", "trap", "suspended", "file", "frozen", "exited", "panic"}
    /\ pc = "created" => ~inner.frozen
    /\ StoppedStaysStopped
-----------------------------------------------------------------------------
(***************************************************************************)
(* SIGSTOP is no user signal, a signal number is none of the other values  *)
(* the fields take.                                                        *)
(***************************************************************************)
LEMMA SigFacts ==
    /\ UserSig \subseteq Sig /\ UserSig \subseteq Int
    /\ NotHandling \notin UserSig
    /\ None \notin Contexts /\ Main \notin UserSig
    /\ UserSig \cap KernelSig = {}
<1>1. Sig \subseteq Int /\ NotHandling \notin Sig
  BY SigAssumption DEF NotHandling
<1>2. {Main, None} \cap Sig = {} /\ Main # None
  BY SigAssumption
<1>. QED
  BY <1>1, <1>2 DEF UserSig, Contexts

(***************************************************************************)
(* The smallest deliverable user signal is unique.                         *)
(***************************************************************************)
LEMMA FirstIsOne ==
    ASSUME NEW t \in InnerType, NEW s \in FirstUserSig(t)
    PROVE  /\ s \in UserSig /\ s \in t.signals
           /\ (CHOOSE r \in FirstUserSig(t) : TRUE) = s
<1>1. FirstUserSig(t) \subseteq UserSig /\ FirstUserSig(t) \subseteq t.signals
  BY DEF FirstUserSig, Deliverable
<1>2. \A r \in FirstUserSig(t) : r <= s /\ s <= r
  BY DEF FirstUserSig
<1>3. \A r \in FirstUserSig(t) : r \in Int
  BY <1>1, SigFacts
<1>4. \A r \in FirstUserSig(t) : r = s
  BY <1>2, <1>3
<1>. QED
  BY <1>1, <1>4

(***************************************************************************)
(* The kernel's handlers change three fields, and keep the types.          *)
(***************************************************************************)
LEMMA KernelHandlersType ==
    ASSUME NEW t \in InnerType
    PROVE  LET k == call_kernel_signal_handlers(t) IN
           /\ k \in InnerType
           /\ k.signals = t.signals \ (KernelHandled(t) \cap {SIGSTOP, SIGCONT})
           /\ k.frozen = (IF SIGSTOP \in KernelHandled(t) THEN TRUE
                          ELSE IF SIGCONT \in KernelHandled(t) THEN FALSE ELSE t.frozen)
           /\ k.signal_mask = t.signal_mask /\ k.handling_sig = t.handling_sig
           /\ k.signal_actions = t.signal_actions
           /\ k.trap_cx = t.trap_cx /\ k.trap_ctx_backup = t.trap_ctx_backup
BY DEF InnerType, call_kernel_signal_handlers

(***************************************************************************)
(* What one call of check_pending_signals does: the kernel's handlers, and *)
(* no user handler (the first case) or the handler of the first user       *)
(* signal (the second).                                                    *)
(***************************************************************************)
LEMMA CheckEffect ==
    ASSUME NEW t \in InnerType
    PROVE  LET k == call_kernel_signal_handlers(t)
               c == check_pending_signals(t)
           IN \/ c = k
              \/ \E s \in FirstUserSig(t) :
                    /\ s \in UserSig
                    /\ c \in InnerType
                    /\ c.signals = k.signals \ {s}
                    /\ c.frozen = k.frozen
                    /\ c.handling_sig = s /\ c.trap_cx = s
                    /\ c.trap_ctx_backup = t.trap_cx
<1>. DEFINE k == call_kernel_signal_handlers(t)
            c == check_pending_signals(t)
<1>1. CASE FirstUserSig(t) = {}
  BY <1>1 DEF check_pending_signals
<1>2. ASSUME NEW s \in FirstUserSig(t)
      PROVE  c = k \/ \E r \in FirstUserSig(t) :
                    /\ r \in UserSig
                    /\ c \in InnerType
                    /\ c.signals = k.signals \ {r}
                    /\ c.frozen = k.frozen
                    /\ c.handling_sig = r /\ c.trap_cx = r
                    /\ c.trap_ctx_backup = t.trap_cx
  <2>1. s \in UserSig /\ c = call_user_signal_handler(k, s)
    BY FirstIsOne DEF check_pending_signals
  <2>2. CASE ~k.signal_actions[s].handler
    BY <2>1, <2>2 DEF call_user_signal_handler
  <2>3. CASE k.signal_actions[s].handler
    <3>1. c = [k EXCEPT !.signal_mask = k.signal_actions[s].mask,
                   !.handling_sig = s,
                   !.signals = @ \ {s},
                   !.trap_ctx_backup = k.trap_cx,
                   !.trap_cx = s]
      BY <2>1, <2>3 DEF call_user_signal_handler
    <3>2. k \in InnerType /\ k.trap_cx = t.trap_cx
      BY KernelHandlersType
    <3>3. k.signal_actions[s].mask \in Masks \cup {{}, DefaultAction.mask}
      BY <3>2, <2>1 DEF InnerType, Actions
    <3>4. s \in Contexts
      BY <2>1 DEF Contexts
    <3>5. /\ c.signals = k.signals \ {s} /\ c.frozen = k.frozen
          /\ c.handling_sig = s /\ c.trap_cx = s /\ c.trap_ctx_backup = t.trap_cx
      BY <3>1, <3>2 DEF InnerType
    <3>6. c \in InnerType
      BY <3>1, <3>2, <3>3, <3>4, <2>1 DEF InnerType
    <3>. QED
      BY <3>5, <3>6, <2>1
  <2>. QED
    BY <2>2, <2>3
<1>. QED
  BY <1>1, <1>2

(***************************************************************************)
(* A call of check_pending_signals keeps the types, a context backed up    *)
(* for the signal being handled, and any backup there is.                  *)
(***************************************************************************)
LEMMA CheckBacked ==
    ASSUME NEW t, Backed(t)
    PROVE  /\ Backed(check_pending_signals(t))
           /\ t.trap_ctx_backup # None => check_pending_signals(t).trap_ctx_backup # None
<1>1. t \in InnerType /\ t.trap_cx \in Contexts
  BY DEF Backed, InnerType
<1>2. CASE check_pending_signals(t) = call_kernel_signal_handlers(t)
  BY <1>1, <1>2, KernelHandlersType DEF Backed
<1>3. CASE check_pending_signals(t) # call_kernel_signal_handlers(t)
  BY <1>1, <1>3, CheckEffect, SigFacts DEF Backed
<1>. QED
  BY <1>2, <1>3

(***************************************************************************)
(* One call of check_pending_signals drops no signal.                      *)
(***************************************************************************)
LEMMA ConsumedOnce ==
    ASSUME NEW t \in InnerType
    PROVE  Consumed(t, check_pending_signals(t))
<1>. DEFINE k == call_kernel_signal_handlers(t)
            c == check_pending_signals(t)
<1>1. KernelHandled(t) \subseteq t.signals
  BY DEF KernelHandled, Deliverable
<1>2. ASSUME NEW s \in t.signals \ k.signals
      PROVE  \/ s = SIGCONT /\ (~k.frozen \/ SIGSTOP \in t.signals \ k.signals)
             \/ s = SIGSTOP /\ k.frozen
  BY <1>1, KernelHandlersType
<1>3. CASE c = k
  BY <1>2, <1>3 DEF Consumed
<1>4. CASE c # k
  <2>1. PICK r \in UserSig : /\ c.signals = k.signals \ {r} /\ c.frozen = k.frozen
                             /\ c.handling_sig = r /\ c.trap_cx = r
    BY <1>4, CheckEffect
  <2>2. t.signals \ k.signals \subseteq t.signals \ c.signals
    BY <2>1
  <2>3. ASSUME NEW s \in t.signals \ c.signals
        PROVE  \/ s = SIGSTOP /\ c.frozen
               \/ s = SIGCONT /\ (~c.frozen \/ SIGSTOP \in t.signals \ c.signals)
               \/ s = r
    <3>. HIDE DEF k, c
    <3>. QED
      BY <1>2, <2>1, <2>2
  <2>. QED
    BY <2>1, <2>3 DEF Consumed
<1>. QED
  BY <1>3, <1>4

(***************************************************************************)
(* Nor do two calls in a row.  A SIGCONT the second call delivers and the  *)
(* first, which delivered SIGSTOP, did not, was masked by the program and  *)
(* is let in by the handler entered in between.                            *)
(***************************************************************************)
LEMMA ConsumedTwice ==
    ASSUME NEW t \in InnerType
    PROVE  Consumed(t, check_pending_signals(check_pending_signals(t)))
<1>. DEFINE k == call_kernel_signal_handlers(t)
            c == check_pending_signals(t)
            l == call_kernel_signal_handlers(c)
            d == check_pending_signals(c)
<1>1. c \in InnerType
  BY CheckEffect, KernelHandlersType
<1>2. Consumed(c, d)
  BY <1>1, ConsumedOnce
<1>3. k.signals = t.signals \ (KernelHandled(t) \cap {SIGSTOP, SIGCONT})
  BY KernelHandlersType
<1>4. /\ KernelHandled(t) \subseteq t.signals
      /\ c.signals \subseteq k.signals /\ d.signals \subseteq c.signals
  <2>1. ASSUME NEW u \in InnerType
        PROVE  /\ check_pending_signals(u).signals \subseteq call_kernel_signal_handlers(u).signals
               /\ call_kernel_signal_handlers(u).signals \subseteq u.signals
    BY CheckEffect, KernelHandlersType
  <2>. QED
    BY <2>1, <1>1 DEF KernelHandled, Deliverable
<1>5. \/ d = l
      \/ \E r \in FirstUserSig(c) :
            /\ r \in UserSig /\ d.signals = l.signals \ {r} /\ d.frozen = l.frozen
            /\ d.handling_sig = r /\ d.trap_cx = r /\ d.trap_ctx_backup = c.trap_cx
  BY <1>1, CheckEffect
<1>6. /\ l.handling_sig = c.handling_sig /\ l.trap_cx = c.trap_cx
      /\ l.signals = c.signals \ (KernelHandled(c) \cap {SIGSTOP, SIGCONT})
      /\ l.frozen = (IF SIGSTOP \in KernelHandled(c) THEN TRUE
                     ELSE IF SIGCONT \in KernelHandled(c) THEN FALSE ELSE c.frozen)
  BY <1>1, KernelHandlersType
<1>7. KernelHandled(c) \subseteq c.signals
  BY DEF KernelHandled, Deliverable
<1>8. SIGSTOP \notin UserSig /\ SIGSTOP \in Int /\ SIGCONT \in KernelSig
  BY DEF UserSig, KernelSig, SIGSTOP, SIGCONT
<1>9. c.frozen = k.frozen
  BY CheckEffect
<1>10. k.frozen = (IF SIGSTOP \in KernelHandled(t) THEN TRUE
                   ELSE IF SIGCONT \in KernelHandled(t) THEN FALSE ELSE t.frozen)
  BY KernelHandlersType
\* Once SIGSTOP has stopped it, only a handler above SIGSTOP lets SIGCONT in.
<1>11. ASSUME SIGSTOP \in KernelHandled(t), ~d.frozen
       PROVE  /\ SIGCONT \in t.signals \ d.signals
              /\ d.handling_sig > SIGSTOP /\ d.trap_cx = d.handling_sig
  <2>1. SIGCONT \in KernelHandled(c)
    BY <1>11, <1>5, <1>6, <1>9, <1>10
  <2>2. SIGCONT \in t.signals \ d.signals
    BY <2>1, <1>3, <1>4, <1>5, <1>6, <1>7
  <2>3. c # k
    <3>1. SUFFICES ASSUME c = k PROVE FALSE
      OBVIOUS
    <3>2. SIGCONT \in Deliverable(t)
      <4>1. SIGCONT \in Deliverable(c)
        BY <2>1 DEF KernelHandled
      <4>. QED
        BY <3>1, <4>1, KernelHandlersType DEF Deliverable
    <3>3. \A u \in FirstUserSig(t) : u \in Int /\ SIGSTOP < u
      BY <1>11, FirstIsOne, SigFacts DEF KernelHandled
    <3>4. SIGCONT \in KernelHandled(t)
      BY <3>2, <3>3, <1>8 DEF KernelHandled, SIGSTOP, SIGCONT
    <3>. QED
      BY <3>1, <3>4, <2>1, <1>3, <1>7
  <2>4. PICK r \in FirstUserSig(t) : r \in UserSig /\ c.handling_sig = r /\ c.trap_cx = r
    BY <2>3, CheckEffect
  <2>5. r > SIGSTOP
    BY <1>11, <2>4, <1>8, SigFacts DEF KernelHandled
  <2>6. \A u \in FirstUserSig(c) : u \in UserSig => u > SIGSTOP
    <3>1. \A u \in FirstUserSig(c) : SIGCONT < u
      BY <2>1 DEF KernelHandled
    <3>2. \A u \in UserSig : u \in Int /\ u # SIGSTOP
      BY <1>8, SigFacts
    <3>. QED
      BY <3>1, <3>2 DEF SIGSTOP, SIGCONT
  <2>. QED
    BY <2>2, <2>4, <2>5, <2>6, <1>5, <1>6
\* SIGCONT taken first lets the process go on, if no SIGSTOP is taken.
<1>12. ASSUME SIGCONT \in KernelHandled(t), d.frozen
       PROVE  SIGSTOP \in t.signals \ d.signals
  <2>1. SIGSTOP \in KernelHandled(t) \/ SIGSTOP \in KernelHandled(c)
    BY <1>12, <1>5, <1>6, <1>9, <1>10
  <2>. QED
    BY <2>1, <1>3, <1>4, <1>5, <1>6, <1>7
<1>13. \/ c = k
       \/ \E r \in UserSig : /\ c.signals = k.signals \ {r}
                             /\ c.handling_sig = r /\ c.trap_cx = r
  BY CheckEffect
<1>14. SUFFICES ASSUME NEW s \in t.signals \ d.signals
                PROVE  \/ /\ s = SIGSTOP
                          /\ \/ d.frozen
                             \/ /\ SIGCONT \in t.signals \ d.signals
                                /\ d.handling_sig > SIGSTOP /\ d.trap_cx = d.handling_sig
                       \/ s = SIGCONT /\ (~d.frozen \/ SIGSTOP \in t.signals \ d.signals)
                       \/ /\ s \in UserSig /\ s \in {d.trap_cx, d.trap_ctx_backup}
                          /\ d.trap_cx = d.handling_sig
  BY DEF Consumed
<1>. HIDE DEF k, c, l, d
<1>15. CASE s \in c.signals
  <2>1. c.signals \ d.signals \subseteq t.signals \ d.signals
    BY <1>3, <1>4
  <2>. QED
    BY <2>1, <1>2, <1>15 DEF Consumed
<1>16. CASE s \notin c.signals
  <2>1. \/ s \in KernelHandled(t) \cap {SIGSTOP, SIGCONT}
        \/ s \in UserSig /\ c.handling_sig = s /\ c.trap_cx = s
    BY <1>3, <1>13, <1>16
  <2>2. CASE s \in KernelHandled(t) \cap {SIGSTOP, SIGCONT}
    BY <2>2, <1>11, <1>12
  <2>3. CASE s \in UserSig /\ c.handling_sig = s /\ c.trap_cx = s
    BY <2>3, <1>5, <1>6
  <2>. QED
    BY <2>1, <2>2, <2>3
<1>. QED
  BY <1>15, <1>16
-----------------------------------------------------------------------------
\* What a trap that finds the process as s leaves behind: the process as t, at
\* the place called at.
Lands(s, t, at) ==
    /\ Backed(t)
    /\ at \in {"frozen", "user", "exited"}
    /\ at = "user" => (t.frozen => t.killed)
    /\ Consumed(s, t)
    /\ s.trap_ctx_backup # None => t.trap_ctx_backup # None

(***************************************************************************)
(* The loop of handle_signals, entered with the process at t.              *)
(***************************************************************************)
LEMMA LoopLands ==
    ASSUME NEW s, NEW t, Backed(t), Consumed(s, t),
           s.trap_ctx_backup # None => t.trap_ctx_backup # None,
           Consumed(s, check_pending_signals(t)), handle_signals_loop(t)
    PROVE  Lands(s, inner', pc')
<1>1. CASE loop_blocks(t)
  <2>1. inner' = check_pending_signals(t) /\ pc' = "frozen"
    BY <1>1 DEF handle_signals_loop
  <2>. QED
    BY <2>1, CheckBacked DEF Lands
<1>2. CASE ~loop_blocks(t)
  <2>1. inner' = t /\ pc' = IF t.signals \cap ErrorSig # {} THEN "exited" ELSE "user"
    BY <1>2 DEF handle_signals_loop, trap_handler_ends
  <2>2. t.frozen => t.killed
    BY <1>2 DEF loop_blocks
  <2>. QED
    BY <2>1, <2>2 DEF Lands
<1>. QED
  BY <1>1, <1>2

(***************************************************************************)
(* handle_signals, which looks for signals once before its loop.           *)
(***************************************************************************)
LEMMA HandleLands ==
    ASSUME NEW t, Backed(t), handle_signals(t)
    PROVE  Lands(t, inner', pc')
<1>1. t \in InnerType
  BY DEF Backed
<1>2. /\ Consumed(t, check_pending_signals(t))
      /\ Consumed(t, check_pending_signals(check_pending_signals(t)))
  BY <1>1, ConsumedOnce, ConsumedTwice
<1>3. /\ Backed(check_pending_signals(t))
      /\ t.trap_ctx_backup # None => check_pending_signals(t).trap_ctx_backup # None
  BY CheckBacked
<1>. QED
  BY <1>2, <1>3, LoopLands DEF handle_signals

(***************************************************************************)
(* The frozen process that runs again reads its flags first.               *)
(***************************************************************************)
LEMMA FrozenLands ==
    ASSUME Backed(inner), frozen_runs
    PROVE  Lands(inner, inner', pc')
<1>1. inner \in InnerType
  BY DEF Backed
<1>2. Consumed(inner, inner) /\ Consumed(inner, check_pending_signals(inner))
  BY <1>1, ConsumedOnce DEF Consumed
<1>. QED
  BY <1>2, LoopLands DEF frozen_runs

\* The steps that look at signals.
TrapStep == trap_handles \/ suspended_runs \/ file_returns \/ frozen_runs

(***************************************************************************)
(* They all land where Lands says.                                         *)
(***************************************************************************)
LEMMA TrapLands ==
    ASSUME Backed(inner), TrapStep
    PROVE  Lands(inner, inner', pc')
BY HandleLands, FrozenLands DEF TrapStep, trap_handles, suspended_runs, file_returns

\* What the other steps leave behind: they take no signal, stop no process and
\* keep the backup.
Keeps(s, t) ==
    /\ Backed(t)
    /\ s.signals \subseteq t.signals /\ t.frozen = s.frozen /\ t.killed = s.killed
    /\ t.trap_ctx_backup = s.trap_ctx_backup

\* The first half of a trap.
CallStep ==
    \/ \E sig \in Sig : sys_kill_self(sig)
    \/ \E sig \in {SIGILL, SIGSEGV} \cap Sig : exception(sig)
    \/ \E sig \in UserSig, handler \in BOOLEAN, mask \in Masks :
         sys_sigaction(sig, [handler |-> handler, mask |-> mask])
    \/ \E mask \in Masks : sys_procmask(mask)
    \/ other_syscall
    \/ sys_exec
    \/ sys_sigreturn

(***************************************************************************)
(* A signal added keeps the rest.                                          *)
(***************************************************************************)
LEMMA AddKeeps ==
    ASSUME Backed(inner), NEW sig \in Sig, inner' = [inner EXCEPT !.signals = @ \cup {sig}]
    PROVE  Keeps(inner, inner')
<1>1. inner \in InnerType /\ (inner.handling_sig # NotHandling => inner.trap_ctx_backup # None)
  BY DEF Backed
<1>2. inner' \in InnerType /\ inner.signals \subseteq inner'.signals
  BY <1>1 DEF InnerType
<1>3. /\ inner'.handling_sig = inner.handling_sig
      /\ inner'.trap_ctx_backup = inner.trap_ctx_backup
      /\ inner'.frozen = inner.frozen /\ inner'.killed = inner.killed
  BY <1>1 DEF InnerType
<1>. QED
  BY <1>1, <1>2, <1>3 DEF Keeps, Backed

(***************************************************************************)
(* System call by system call: they reach "trap", or, for a sigreturn      *)
(* without a backup, stop the kernel.                                      *)
(***************************************************************************)
LEMMA CallKeeps ==
    ASSUME Backed(inner), CallStep
    PROVE  /\ pc = "user" /\ Keeps(inner, inner')
           /\ pc' = "trap" \/ (pc' = "panic" /\ inner.trap_ctx_backup = None)
<1>1. inner \in InnerType /\ (inner.handling_sig # NotHandling => inner.trap_ctx_backup # None)
  BY DEF Backed
<1>2. CASE (\E sig \in Sig : sys_kill_self(sig)) \/ (\E sig \in {SIGILL, SIGSEGV} \cap Sig : exception(sig))
  BY <1>2, AddKeeps DEF sys_kill_self, exception
<1>3. ASSUME NEW sig \in UserSig, NEW handler \in BOOLEAN, NEW mask \in Masks,
             sys_sigaction(sig, [handler |-> handler, mask |-> mask])
      PROVE  pc = "user" /\ pc' = "trap" /\ Keeps(inner, inner')
  <2>. DEFINE action == [handler |-> handler, mask |-> mask]
  <2>1. inner' = [inner EXCEPT !.signal_actions[sig] = action] /\ pc = "user" /\ pc' = "trap"
    BY <1>3 DEF sys_sigaction
  <2>2. [inner.signal_actions EXCEPT ![sig] = action] \in Actions
    BY <1>1 DEF InnerType, Actions
  <2>3. inner' \in InnerType
    BY <1>1, <2>1, <2>2 DEF InnerType
  <2>4. /\ inner'.handling_sig = inner.handling_sig /\ inner'.signals = inner.signals
        /\ inner'.trap_ctx_backup = inner.trap_ctx_backup
        /\ inner'.frozen = inner.frozen /\ inner'.killed = inner.killed
    BY <1>1, <2>1 DEF InnerType
  <2>. QED
    BY <1>1, <2>1, <2>3, <2>4 DEF Keeps, Backed
<1>4. ASSUME NEW mask \in Masks, sys_procmask(mask)
      PROVE  pc = "user" /\ pc' = "trap" /\ Keeps(inner, inner')
  <2>1. inner' = [inner EXCEPT !.signal_mask = mask] /\ pc = "user" /\ pc' = "trap"
    BY <1>4 DEF sys_procmask
  <2>2. inner' \in InnerType
    BY <1>1, <2>1 DEF InnerType
  <2>3. /\ inner'.handling_sig = inner.handling_sig /\ inner'.signals = inner.signals
        /\ inner'.trap_ctx_backup = inner.trap_ctx_backup
        /\ inner'.frozen = inner.frozen /\ inner'.killed = inner.killed
    BY <1>1, <2>1 DEF InnerType
  <2>. QED
    BY <1>1, <2>1, <2>2, <2>3 DEF Keeps, Backed
<1>5. CASE other_syscall
  BY <1>5 DEF other_syscall, Keeps, Backed
<1>6. CASE sys_exec
  <2>1. inner' = [inner EXCEPT !.trap_cx = Main] /\ pc = "user" /\ pc' = "trap"
    BY <1>6 DEF sys_exec
  <2>2. inner' \in InnerType
    BY <1>1, <2>1 DEF InnerType, Contexts
  <2>3. /\ inner'.handling_sig = inner.handling_sig /\ inner'.signals = inner.signals
        /\ inner'.trap_ctx_backup = inner.trap_ctx_backup
        /\ inner'.frozen = inner.frozen /\ inner'.killed = inner.killed
    BY <1>1, <2>1 DEF InnerType
  <2>. QED
    BY <1>1, <2>1, <2>2, <2>3 DEF Keeps, Backed
<1>7. CASE sys_sigreturn /\ inner.trap_ctx_backup # None
  <2>1. /\ inner' = [inner EXCEPT !.handling_sig = NotHandling,
                                  !.trap_cx = inner.trap_ctx_backup]
        /\ pc = "user" /\ pc' = "trap"
    BY <1>7 DEF sys_sigreturn
  <2>2. inner.trap_ctx_backup \in Contexts
    BY <1>1, <1>7 DEF InnerType
  <2>3. inner' \in InnerType
    BY <1>1, <2>1, <2>2 DEF InnerType
  <2>4. /\ inner'.handling_sig = NotHandling /\ inner'.signals = inner.signals
        /\ inner'.trap_ctx_backup = inner.trap_ctx_backup
        /\ inner'.frozen = inner.frozen /\ inner'.killed = inner.killed
    BY <1>1, <2>1 DEF InnerType
  <2>. QED
    BY <2>1, <2>3, <2>4 DEF Keeps, Backed
<1>8. CASE sys_sigreturn /\ inner.trap_ctx_backup = None
  <2>1. /\ inner' = [inner EXCEPT !.handling_sig = NotHandling]
        /\ pc = "user" /\ pc' = "panic"
    BY <1>8 DEF sys_sigreturn
  <2>2. inner' \in InnerType
    BY <1>1, <2>1 DEF InnerType
  <2>3. /\ inner'.handling_sig = NotHandling /\ inner'.signals = inner.signals
        /\ inner'.trap_ctx_backup = inner.trap_ctx_backup
        /\ inner'.frozen = inner.frozen /\ inner'.killed = inner.killed
    BY <1>1, <2>1 DEF InnerType
  <2>. QED
    BY <1>8, <2>1, <2>2, <2>3 DEF Keeps, Backed
<1>. QED
  BY <1>2, <1>3, <1>4, <1>5, <1>6, <1>7, <1>8 DEF CallStep

\* The rest: another process adds a signal, or only the place changes.
OtherStep ==
    \/ \E sig \in Sig : sys_kill(sig)
    \/ /\ inner' = inner
       /\ <<pc, pc'>> \in {<<"created", "user">>, <<"user", "suspended">>, <<"user", "file">>,
                           <<"user", "exited">>, <<"exited", "exited">>, <<"panic", "panic">>}

(***************************************************************************)
(* These are all the steps of Next.                                        *)
(***************************************************************************)
LEMMA StepCases ==
    ASSUME Next
    PROVE  TrapStep \/ CallStep \/ OtherStep
<1>1. CASE first_runs \/ suspends \/ file_waits \/ sys_exit
  BY <1>1 DEF first_runs, suspends, file_waits, sys_exit, OtherStep
<1>2. CASE pc \in {"exited", "panic"} /\ UNCHANGED vars
  BY <1>2 DEF vars, OtherStep
<1>3. CASE \E sig \in Sig : sys_kill(sig)
  BY <1>3 DEF OtherStep
<1>. QED
  BY <1>1, <1>2, <1>3 DEF Next, TrapStep, CallStep

(***************************************************************************)
(* sys_kill of the process by another one adds a signal and nothing else.  *)
(***************************************************************************)
LEMMA KillKeeps ==
    ASSUME Backed(inner), NEW sig \in Sig, sys_kill(sig)
    PROVE  /\ Keeps(inner, inner')
           /\ pc' = pc /\ pc \in {"created", "suspended", "file", "frozen"}
BY AddKeeps DEF sys_kill

(***************************************************************************)
(* The process as it is created satisfies the inductive invariant.         *)
(***************************************************************************)
LEMMA InitIInv ==
    ASSUME Init
    PROVE  IInv
<1>1. ASSUME NEW mask \in Masks \cup {{}}, NEW actions \in Actions, NEW cx \in Contexts,
             inner = Fresh(mask, actions, cx)
      PROVE  Backed(inner) /\ ~inner.frozen
  BY <1>1 DEF Fresh, Backed, InnerType
<1>2. [s \in UserSig |-> DefaultAction] \in Actions /\ Main \in Contexts
  BY DEF Actions, DefaultAction, Contexts
<1>3. Backed(inner) /\ ~inner.frozen
  BY <1>1, <1>2 DEF Init
<1>. QED
  BY <1>3 DEF Init, IInv, StoppedStaysStopped

(***************************************************************************)
(* Every step keeps the inductive invariant.                               *)
(***************************************************************************)
LEMMA NextIInv ==
    ASSUME IInv, [Next]_vars
    PROVE  IInv'
<1>. USE DEF IInv, StoppedStaysStopped
<1>1. CASE UNCHANGED vars
  BY <1>1 DEF vars, Backed
<1>2. CASE TrapStep
  <2>1. Lands(inner, inner', pc')
    BY <1>2, TrapLands
  <2>. QED
    BY <2>1 DEF Lands, Backed
<1>3. CASE CallStep
  BY <1>3, CallKeeps DEF Keeps, Backed
<1>4. CASE OtherStep
  <2>1. CASE \E sig \in Sig : sys_kill(sig)
    <3>1. PICK sig \in Sig : sys_kill(sig)
      BY <2>1
    <3>. QED
      BY <3>1, KillKeeps DEF Keeps, Backed
  <2>2. CASE ~\E sig \in Sig : sys_kill(sig)
    BY <1>4, <2>2 DEF OtherStep, Backed
  <2>. QED
    BY <2>1, <2>2
<1>. QED
  BY <1>1, <1>2, <1>3, <1>4, StepCases

(***************************************************************************)
(* The inductive invariant holds: a trap and a kill keep it.               *)
(***************************************************************************)
THEOREM Invariance == Spec => []IInv
<1>1. Init => IInv
  BY InitIInv
<1>2. IInv /\ [Next]_vars => IInv'
  BY NextIInv
<1>. QED
  BY <1>1, <1>2, PTL DEF Spec

(***************************************************************************)
(* handle_signals lets no stopped process back into its program, whatever  *)
(* signals and masks programs use.                                         *)
(***************************************************************************)
THEOREM StoppedSafe == Spec => []StoppedStaysStopped
<1>1. IInv => StoppedStaysStopped
  BY DEF IInv
<1>. QED
  BY <1>1, Invariance, PTL

(***************************************************************************)
(* While a signal is handled the context its handler interrupted is kept   *)
(* in trap_ctx_backup, whatever handlers interrupt each other.             *)
(***************************************************************************)
THEOREM BackupSafe == Spec => []HandlingHasBackup
<1>1. IInv => HandlingHasBackup
  BY DEF IInv, HandlingHasBackup, TypeOK, Backed, InnerType
<1>. QED
  BY <1>1, Invariance, PTL

(***************************************************************************)
(* No sequence of handlers, sigreturns and execs takes the backup away: a  *)
(* process that was delivered a signal once stops the kernel by no         *)
(* sys_sigreturn.                                                          *)
(***************************************************************************)
THEOREM SigreturnSafe == Spec => SigreturnAfterDelivery
<1>. DEFINE A == inner.trap_ctx_backup # None => inner'.trap_ctx_backup # None /\ pc' # "panic"
<1>1. ASSUME IInv, [Next]_vars
      PROVE  [A]_vars
  <2>1. CASE TrapStep
    BY <1>1, <2>1, TrapLands DEF IInv, Lands
  <2>2. CASE CallStep
    BY <1>1, <2>2, CallKeeps DEF IInv, Keeps
  <2>3. CASE \E sig \in Sig : sys_kill(sig)
    BY <1>1, <2>3, KillKeeps DEF IInv, Keeps
  <2>4. CASE OtherStep /\ ~\E sig \in Sig : sys_kill(sig)
    BY <1>1, <2>4 DEF OtherStep, vars
  <2>. QED
    BY <1>1, <2>1, <2>2, <2>3, <2>4, StepCases
<1>. QED
  BY <1>1, Invariance, PTL DEF Spec, SigreturnAfterDelivery

(***************************************************************************)
(* No trap and no kill drops a pending signal, whatever the masks and      *)
(* handlers are: check_pending_signals, called twice in a row by a stopped *)
(* process, gives every signal it takes its effect.                        *)
(***************************************************************************)
THEOREM SignalsSafe == Spec => SignalNotLost
<1>1. ASSUME IInv, [Next]_vars
      PROVE  [Consumed(inner, inner')]_vars
  <2>1. CASE TrapStep
    BY <1>1, <2>1, TrapLands DEF IInv, Lands
  <2>2. CASE CallStep
    BY <1>1, <2>2, CallKeeps DEF IInv, Keeps, Consumed
  <2>3. CASE \E sig \in Sig : sys_kill(sig)
    BY <1>1, <2>3, KillKeeps DEF IInv, Keeps, Consumed
  <2>4. CASE inner' = inner
    BY <2>4 DEF Consumed
  <2>. QED
    BY <1>1, <2>1, <2>2, <2>3, <2>4, StepCases DEF OtherStep, vars
<1>. QED
  BY <1>1, Invariance, PTL DEF Spec, SignalNotLost
-----------------------------------------------------------------------------
(***************************************************************************)
(* The loop of check_pending_signals and its closed form.  Induction up to *)
(* the number of its turns.                                                *)
(***************************************************************************)
LEMMA LastTurn ==
    ASSUME NEW T, 0 \in T, \A n \in 0..31 : n \in T => n + 1 \in T
    PROVE  32 \in T
OBVIOUS

\* What the kernel's handlers of the signals in k do together.
Frozen(t, k) == IF SIGSTOP \in k THEN TRUE ELSE IF SIGCONT \in k THEN FALSE ELSE t.frozen

Killed(t, k) == t.killed \/ k \cap {SIGKILL, SIGDEF} # {}

Handled(t, k) ==
    [t EXCEPT !.signals = @ \ (k \cap {SIGSTOP, SIGCONT}),
              !.frozen  = Frozen(t, k), !.killed = Killed(t, k)]

KernelBefore(t, n) == {s \in Deliverable(t) \cap KernelSig : s < n}

UserBefore(t, n) == {s \in Deliverable(t) \cap UserSig : s < n}

\* The loop before it looks at the number n.
Turned(t, n) ==
    IF UserBefore(t, n) = {} THEN [t |-> Handled(t, KernelBefore(t, n)), returned |-> FALSE]
    ELSE [t |-> check_pending_signals(t), returned |-> TRUE]

(***************************************************************************)
(* One turn of the loop: the number n is skipped, is handled by the kernel *)
(* or is the first user signal, at which the loop returns.                 *)
(***************************************************************************)
LEMMA TurnTurns ==
    ASSUME NEW t \in InnerType, NEW n \in 0..31
    PROVE  check_turn(Turned(t, n), n) = Turned(t, n + 1)
<1>. DEFINE D == Deliverable(t)
            k == KernelBefore(t, n)
            h == Handled(t, k)
<1>1. D \subseteq t.signals /\ D \subseteq Int
  <2>1. D \subseteq t.signals
    BY DEF Deliverable
  <2>2. t.signals \subseteq Sig /\ Sig \subseteq Int
    BY SigAssumption DEF InnerType
  <2>3. QED BY <2>1, <2>2
<1>2. CASE UserBefore(t, n) # {}
  <2>1. UserBefore(t, n + 1) # {}
    BY <1>1, <1>2 DEF UserBefore
  <2>2. QED BY <2>1, <1>2 DEF Turned, check_turn
<1>3. CASE UserBefore(t, n) = {}
  <2>1. Turned(t, n) = [t |-> h, returned |-> FALSE]
    BY <1>3 DEF Turned
  <2>2. /\ h.signals = t.signals \ (k \cap {SIGSTOP, SIGCONT})
        /\ h.signal_mask = t.signal_mask /\ h.handling_sig = t.handling_sig
        /\ h.signal_actions = t.signal_actions
    BY DEF Handled, InnerType
  <2>3. n \notin k
    BY <1>1 DEF KernelBefore
  <2>4. (n \in h.signals) = (n \in t.signals)
    BY <2>2, <2>3
  <2>5. n \in D <=> ~(\/ n \notin h.signals \/ n \in h.signal_mask
                      \/ h.handling_sig # NotHandling /\ n \in h.signal_actions[h.handling_sig].mask)
    BY <2>2, <2>4 DEF Deliverable
  <2>6. CASE n \notin D
    <3>1. KernelBefore(t, n + 1) = k /\ UserBefore(t, n + 1) = {}
      BY <2>6, <1>1, <1>3 DEF KernelBefore, UserBefore
    <3>2. check_turn(Turned(t, n), n) = Turned(t, n)
      BY <2>1, <2>5, <2>6 DEF check_turn
    <3>3. QED BY <3>1, <3>2, <2>1 DEF Turned
  <2>7. CASE n \in D /\ n \in KernelSig
    <3>1. KernelBefore(t, n + 1) = k \cup {n}
      BY <2>7, <1>1 DEF KernelBefore
    <3>2. UserBefore(t, n + 1) = {}
      BY <2>7, <1>1, <1>3 DEF UserBefore, UserSig
    <3>3. Turned(t, n + 1) = [t |-> Handled(t, k \cup {n}), returned |-> FALSE]
      BY <3>1, <3>2 DEF Turned
    <3>4. check_turn(Turned(t, n), n)
            = [t |-> call_kernel_signal_handler(h, n), returned |-> FALSE]
      <4>. HIDE DEF h
      <4>. QED BY <2>1, <2>5, <2>7 DEF check_turn
    <3>5. CASE n = SIGSTOP
      <4>1. call_kernel_signal_handler(h, n) = [h EXCEPT !.frozen = TRUE, !.signals = @ \ {n}]
        BY <3>5 DEF call_kernel_signal_handler, SIGSTOP, SIGCONT
      <4>2. Frozen(t, k \cup {n}) = TRUE
        BY <3>5 DEF Frozen
      <4>3. Killed(t, k \cup {n}) = Killed(t, k)
        <5>1. (k \cup {n}) \cap {SIGKILL, SIGDEF} = k \cap {SIGKILL, SIGDEF}
          BY <3>5 DEF SIGSTOP, SIGKILL, SIGDEF
        <5>2. QED BY <5>1 DEF Killed
      <4>4. [h EXCEPT !.frozen = TRUE, !.signals = @ \ {n}] = Handled(t, k \cup {n})
        <5>1. t.signals \ ((k \cup {n}) \cap {SIGSTOP, SIGCONT}) = h.signals \ {n}
          BY <3>5, <2>2
        <5>2. QED BY <5>1, <4>2, <4>3 DEF Handled, InnerType
      <4>5. QED BY <4>1, <4>4, <3>3, <3>4
    <3>6. CASE n = SIGCONT
      <4>1. call_kernel_signal_handler(h, n) = [h EXCEPT !.frozen = FALSE, !.signals = @ \ {n}]
        BY <3>6 DEF call_kernel_signal_handler, SIGSTOP, SIGCONT
      <4>2. Frozen(t, k \cup {n}) = FALSE
        <5>1. SIGSTOP \notin k \cup {n}
          BY <3>6 DEF KernelBefore, SIGSTOP, SIGCONT
        <5>2. QED BY <3>6, <5>1 DEF Frozen
      <4>3. Killed(t, k \cup {n}) = Killed(t, k)
        <5>1. (k \cup {n}) \cap {SIGKILL, SIGDEF} = k \cap {SIGKILL, SIGDEF}
          BY <3>6 DEF SIGCONT, SIGKILL, SIGDEF
        <5>2. QED BY <5>1 DEF Killed
      <4>4. [h EXCEPT !.frozen = FALSE, !.signals = @ \ {n}] = Handled(t, k \cup {n})
        <5>1. t.signals \ ((k \cup {n}) \cap {SIGSTOP, SIGCONT}) = h.signals \ {n}
          BY <3>6, <2>2
        <5>2. QED BY <5>1, <4>2, <4>3 DEF Handled, InnerType
      <4>5. QED BY <4>1, <4>4, <3>3, <3>4
    <3>7. CASE n \in {SIGKILL, SIGDEF}
      <4>1. call_kernel_signal_handler(h, n) = [h EXCEPT !.killed = TRUE]
        BY <3>7 DEF call_kernel_signal_handler, SIGSTOP, SIGCONT, SIGKILL, SIGDEF
      <4>2. Frozen(t, k \cup {n}) = Frozen(t, k)
        <5>1. SIGSTOP # n /\ SIGCONT # n
          BY <3>7 DEF SIGSTOP, SIGCONT, SIGKILL, SIGDEF
        <5>2. QED BY <5>1 DEF Frozen
      <4>3. Killed(t, k \cup {n}) = TRUE
        BY <3>7 DEF Killed
      <4>4. [h EXCEPT !.killed = TRUE] = Handled(t, k \cup {n})
        <5>1. t.signals \ ((k \cup {n}) \cap {SIGSTOP, SIGCONT}) = h.signals
          BY <3>7, <2>2 DEF SIGSTOP, SIGCONT, SIGKILL, SIGDEF
        <5>2. QED BY <5>1, <4>2, <4>3 DEF Handled, InnerType
      <4>5. QED BY <4>1, <4>4, <3>3, <3>4
    <3>8. QED BY <2>7, <3>5, <3>6, <3>7 DEF KernelSig
  <2>8. CASE n \in D /\ n \notin KernelSig
    <3>1. n \in UserSig /\ n \in UserBefore(t, n + 1)
      BY <2>8, <1>1 DEF UserBefore, UserSig, InnerType
    <3>2. FirstUserSig(t) = {n}
      BY <3>1, <2>8, <1>1, <1>3 DEF FirstUserSig, UserBefore
    <3>3. k = KernelHandled(t)
      BY <3>2, <1>1 DEF KernelHandled, KernelBefore
    <3>4. check_pending_signals(t) = call_user_signal_handler(h, n)
      BY <3>2, <3>3 DEF check_pending_signals, call_kernel_signal_handlers, Handled, Frozen, Killed
    <3>5. check_turn(Turned(t, n), n)
            = [t |-> call_user_signal_handler(h, n), returned |-> TRUE]
      BY <2>1, <2>5, <2>8 DEF check_turn
    <3>6. QED BY <3>1, <3>4, <3>5 DEF Turned
  <2>9. QED BY <2>6, <2>7, <2>8
<1>4. QED BY <1>2, <1>3

(***************************************************************************)
(* After the last turn the loop has done what the closed form says.        *)
(***************************************************************************)
LEMMA LoopIsClosedForm ==
    ASSUME NEW t \in InnerType
    PROVE  check_pending_loop(t) = check_pending_signals(t)
<1>. DEFINE Start == [t |-> t, returned |-> FALSE]
            F == [n \in 0..32 |-> Turned(t, n)]
            L == CHOOSE f : f = [n \in 0..32 |-> IF n = 0 THEN Start ELSE check_turn(f[n - 1], n - 1)]
<1>1. Turned(t, 0) = Start
  <2>1. KernelBefore(t, 0) = {} /\ UserBefore(t, 0) = {}
    <3>1. Deliverable(t) \subseteq t.signals
      BY DEF Deliverable
    <3>2. t.signals \subseteq 0..31
      BY SigAssumption DEF InnerType
    <3>3. QED BY <3>1, <3>2 DEF KernelBefore, UserBefore
  <2>2. Handled(t, {}) = t
    BY DEF Handled, Frozen, Killed, InnerType
  <2>3. QED BY <2>1, <2>2 DEF Turned
<1>2. F = [n \in 0..32 |-> IF n = 0 THEN Start ELSE check_turn(F[n - 1], n - 1)]
  <2>1. ASSUME NEW n \in 0..32
        PROVE  Turned(t, n) = IF n = 0 THEN Start ELSE check_turn(F[n - 1], n - 1)
    <3>1. CASE n = 0
      BY <3>1, <1>1
    <3>2. CASE n # 0
      <4>1. n - 1 \in 0..31 /\ (n - 1) + 1 = n
        BY <3>2
      <4>2. check_turn(Turned(t, n - 1), n - 1) = Turned(t, n)
        BY <4>1, TurnTurns
      <4>3. F[n - 1] = Turned(t, n - 1)
        BY <4>1
      <4>4. QED BY <3>2, <4>2, <4>3
    <3>3. QED BY <3>1, <3>2
  <2>2. QED BY <2>1
<1>3. L = [n \in 0..32 |-> IF n = 0 THEN Start ELSE check_turn(L[n - 1], n - 1)]
  <2>. HIDE DEF F, Start
  <2>. QED BY <1>2
<1>4. L[32] = F[32]
  <2>. DEFINE T == {n \in 0..32 : L[n] = F[n]}
  <2>1. 0 \in T
    <3>. HIDE DEF L, F
    <3>. QED BY <1>2, <1>3
  <2>2. \A n \in 0..31 : n \in T => n + 1 \in T
    <3>1. ASSUME NEW n \in 0..31, n \in T PROVE n + 1 \in T
      <4>1. n + 1 \in 0..32 /\ n + 1 # 0 /\ (n + 1) - 1 = n
        OBVIOUS
      <4>2. L[n + 1] = check_turn(L[n], n) /\ F[n + 1] = check_turn(F[n], n)
        <5>. HIDE DEF L, F
        <5>. QED BY <4>1, <1>2, <1>3
      <4>3. L[n] = F[n]
        BY <3>1
      <4>4. QED BY <4>1, <4>2, <4>3
    <3>2. QED BY <3>1
  <2>3. 32 \in T
    <3>. HIDE DEF T
    <3>. QED BY <2>1, <2>2, LastTurn
  <2>4. QED BY <2>3
<1>5. check_pending_loop(t) = L[32].t
  BY DEF check_pending_loop, MAX_SIG
<1>6. Turned(t, 32).t = check_pending_signals(t)
  <2>1. CASE UserBefore(t, 32) # {}
    BY <2>1 DEF Turned
  <2>2. CASE UserBefore(t, 32) = {}
    <3>1. Deliverable(t) \subseteq 0..31
      BY SigAssumption DEF Deliverable, InnerType
    <3>2. FirstUserSig(t) = {}
      BY <2>2, <3>1 DEF FirstUserSig, UserBefore
    <3>3. KernelBefore(t, 32) = KernelHandled(t)
      BY <3>1, <3>2 DEF KernelHandled, KernelBefore
    <3>4. QED BY <2>2, <3>2, <3>3
            DEF Turned, check_pending_signals, call_kernel_signal_handlers, Handled,
                Frozen, Killed
  <2>3. QED BY <2>1, <2>2
<1>7. QED
  <2>. HIDE DEF L
  <2>. QED BY <1>4, <1>5, <1>6

(***************************************************************************)
(* check_pending_signals, as the theorems above reason about it, has in    *)
(* every reachable state the effect of its loop over the numbers 0..31.    *)
(***************************************************************************)
THEOREM PendingLoopSafe == Spec => []PendingLoopAgrees
<1>1. IInv => PendingLoopAgrees
  BY LoopIsClosedForm DEF IInv, Backed, PendingLoopAgrees
<1>2. QED BY Invariance, <1>1, PTL
=============================================================================
