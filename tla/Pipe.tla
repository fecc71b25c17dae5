------------------------------- MODULE Pipe --------------------------------
(***************************************************************************)
(* A pipe (os/src/fs/pipe.rs) and the processes that share it: the loops   *)
(* of Pipe::read and Pipe::write, and the calls that copy and drop the     *)
(* descriptors of its two ends.                                            *)
(*                                                                         *)
(* The pipe starts as make_pipe leaves it, both ends held by one process.  *)
(* Kernel mode is not preempted: between two suspensions a loop runs       *)
(* alone, which is what hart records.  The weak pointer write_end can be   *)
(* upgraded as long as some descriptor table has an entry for the write    *)
(* end, and a table is dropped with its TCB, when the parent reaps the     *)
(* process, not when the process exits.  A descriptor table is reduced to  *)
(* the set of ends it has entries for.                                     *)
(***************************************************************************)
EXTENDS RingBuffer

CONSTANTS
    Proc,
    Creator,    \* the process that called make_pipe
    None,
    MaxLen      \* the bound on the length of a user buffer

ASSUME ProcAssumption == Creator \in Proc /\ None \notin Proc /\ MaxLen \in Nat

VARIABLES
    fds,        \* per process: the ends of the pipe in its fd_table
    pc,         \* per process: "Free", "User", "Read", "Write" or "Zombie"
    todo,       \* per process: the bytes left in the user buffer of its call
    hart,       \* the process inside one run of its loop, or None
    count       \* what is left of the for loop over 0..loop_read_size
                \* or 0..loop_write_size

procs == <<fds, pc, todo, hart, count>>
vars  == <<ring, procs>>

PipeInit ==
    /\ RingInit
    /\ fds = [p \in Proc |-> IF p = Creator THEN {"r", "w"} ELSE {}]
    /\ pc = [p \in Proc |-> IF p = Creator THEN "User" ELSE "Free"]
    /\ todo = [p \in Proc |-> 0]
    /\ hart = None
    /\ count = 0

\* Variant: both ends count.
all_ends_closed == \A p \in Proc : fds[p] = {}

all_write_ends_closed == \A p \in Proc : "w" \notin fds[p]

returns(p) ==
    /\ pc' = [pc EXCEPT ![p] = "User"]
    /\ todo' = [todo EXCEPT ![p] = 0]
    /\ hart' = None
    /\ count' = 0
    /\ UNCHANGED fds

suspends == hart' = None /\ UNCHANGED <<fds, pc, todo, count>>

enters_for(p, n) ==
    /\ hart' = p
    /\ count' = n
    /\ UNCHANGED <<fds, pc, todo>>

next_byte(p) ==
    /\ todo' = [todo EXCEPT ![p] = @ - 1]
    /\ count' = count - 1
    /\ UNCHANGED <<fds, pc, hart>>
-----------------------------------------------------------------------------
(***************************************************************************)
(* Pipe::read and Pipe::write: the head of the loop, and one pass through  *)
(* the for loop.  The call returns from inside the for loop only, when the *)
(* ring has more to offer than the user buffer takes; a read also returns  *)
(* at the head of the loop, when there are no writers left.                *)
(***************************************************************************)
sys_read(p, len) ==
    /\ hart = None /\ pc[p] = "User" /\ "r" \in fds[p]
    /\ pc' = [pc EXCEPT ![p] = "Read"]
    /\ todo' = [todo EXCEPT ![p] = len]
    /\ hart' = p
    /\ UNCHANGED <<ring, fds, count>>

sys_write(p, len) ==
    /\ hart = None /\ pc[p] = "User" /\ "w" \in fds[p]
    /\ pc' = [pc EXCEPT ![p] = "Write"]
    /\ todo' = [todo EXCEPT ![p] = len]
    /\ hart' = p
    /\ UNCHANGED <<ring, fds, count>>

\* Variant: an empty ring ends the call.
read_loop_nonblocking(p) ==
    /\ pc[p] = "Read" /\ hart \in {None, p} /\ count = 0
    /\ \/ available_read = 0 /\ returns(p)
       \/ available_read > 0 /\ enters_for(p, available_read)
    /\ UNCHANGED ring

read_loop(p) ==
    /\ pc[p] = "Read" /\ hart \in {None, p} /\ count = 0
    /\ \/ available_read = 0 /\ all_write_ends_closed /\ returns(p)
       \/ available_read = 0 /\ ~all_write_ends_closed /\ suspends
       \/ available_read > 0 /\ enters_for(p, available_read)
    /\ UNCHANGED ring

read_for(p) ==
    /\ pc[p] = "Read" /\ hart = p /\ count > 0
    /\ \/ todo[p] > 0 /\ read_byte /\ next_byte(p)
       \/ todo[p] = 0 /\ returns(p) /\ UNCHANGED ring

write_loop(p) ==
    /\ pc[p] = "Write" /\ hart \in {None, p} /\ count = 0
    /\ \/ available_write = 0 /\ suspends
       \/ available_write > 0 /\ enters_for(p, available_write)
    /\ UNCHANGED ring

write_for(p) ==
    /\ pc[p] = "Write" /\ hart = p /\ count > 0
    /\ \/ todo[p] > 0 /\ next_byte(p) /\ \E b \in Byte : write_byte(b)
       \/ todo[p] = 0 /\ returns(p) /\ UNCHANGED ring
-----------------------------------------------------------------------------
(***************************************************************************)
(* The life of the descriptors.                                            *)
(***************************************************************************)
sys_close(p, end) ==
    /\ hart = None /\ pc[p] = "User" /\ end \in fds[p]
    /\ fds' = [fds EXCEPT ![p] = @ \ {end}]
    /\ UNCHANGED <<ring, pc, todo, hart, count>>

sys_fork(p, c) ==
    /\ hart = None /\ pc[p] = "User" /\ pc[c] = "Free"
    /\ fds' = [fds EXCEPT ![c] = fds[p]]
    /\ pc' = [pc EXCEPT ![c] = "User"]
    /\ UNCHANGED <<ring, todo, hart, count>>

exit_current_and_run_next(p) ==
    /\ hart = None /\ pc[p] = "User"
    /\ pc' = [pc EXCEPT ![p] = "Zombie"]
    /\ UNCHANGED <<ring, fds, todo, hart, count>>

\* waitpid of the parent: the last Arc to the TCB goes, and its fd_table with it.
reaped(p) ==
    /\ hart = None /\ pc[p] = "Zombie"
    /\ pc' = [pc EXCEPT ![p] = "Free"]
    /\ fds' = [fds EXCEPT ![p] = {}]
    /\ UNCHANGED <<ring, todo, hart, count>>

Step(p) ==
    \/ \E len \in 0..MaxLen : sys_read(p, len) \/ sys_write(p, len)
    \/ read_loop(p)
    \/ read_for(p)
    \/ write_loop(p)
    \/ write_for(p)
    \/ \E end \in {"r", "w"} : sys_close(p, end)
    \/ \E c \in Proc : sys_fork(p, c)
    \/ exit_current_and_run_next(p)
    \/ reaped(p)

\* The pipe is gone with the last process that could use it.
Gone == (\A p \in Proc : pc[p] = "Free") /\ UNCHANGED vars

PipeNext == Gone \/ \E p \in Proc : Step(p)

(***************************************************************************)
(* The scheduler dispatches every suspended process again and again, and   *)
(* nothing stops a loop between two suspensions.  Strong fairness is for   *)
(* the moments at which hart is taken; in the two properties below the     *)
(* condition a loop waits for stays true once it is true.                  *)
(***************************************************************************)
Fairness ==
    \A p \in Proc : /\ SF_vars(read_loop(p)) /\ SF_vars(write_loop(p))
                    /\ WF_vars(read_for(p)) /\ WF_vars(write_for(p))

PipeSpec == PipeInit /\ [][PipeNext]_vars /\ Fairness
-----------------------------------------------------------------------------
(***************************************************************************)
(* The fields and the local variables of the loops have the types of what  *)
(* they stand for.                                                         *)
(***************************************************************************)
TypeOK ==
    /\ RingOK
    /\ fds \in [Proc -> SUBSET {"r", "w"}]
    /\ pc \in [Proc -> {"Free", "User", "Read", "Write", "Zombie"}]
    /\ todo \in [Proc -> Nat]
    /\ hart \in Proc \cup {None}
    /\ count \in Nat

(***************************************************************************)
(* The for loops stay within what they measured: no read_byte on an empty  *)
(* ring and no write_byte on a full one, neither of which the ring itself  *)
(* would notice, although the status changes under the running loop.       *)
(***************************************************************************)
LoopsInBounds ==
    /\ count > 0 => hart # None
    /\ \A p \in Proc :
         hart = p /\ count > 0 =>
            \/ pc[p] = "Read" /\ count <= available_read /\ status # "Empty"
            \/ pc[p] = "Write" /\ count <= available_write /\ status # "Full"

(***************************************************************************)
(* The bytes come out in the order they went in, none lost, repeated or    *)
(* invented, whichever processes read and write: the ring as the loops use *)
(* it implements a bounded queue.                                          *)
(***************************************************************************)
ImplementsQueue == Queue!Spec

\* No process has the write end, those that exited and were not reaped included.
NoWriter == \A p \in Proc : "w" \notin fds[p]

(***************************************************************************)
(* A read that returns before the user buffer is full means end of file:   *)
(* there are no bytes in the ring and no write end is open, not even in    *)
(* the table of a process that exited and was not reaped.                  *)
(***************************************************************************)
ShortReadIsEof ==
    [][\A p \in Proc : pc[p] = "Read" /\ pc'[p] = "User" /\ todo[p] > 0
         => status = "Empty" /\ NoWriter]_vars

(***************************************************************************)
(* End of file is final: with no bytes and no write ends left, no fork,    *)
(* close, exit or call brings either back.                                 *)
(***************************************************************************)
EofIsFinal ==
    [][(status = "Empty" /\ NoWriter)
         => (status = "Empty" /\ NoWriter)']_vars

(***************************************************************************)
(* A reader notices that the last write end was closed: its call returns.  *)
(***************************************************************************)
ReadEnds ==
    \A p \in Proc : (pc[p] = "Read" /\ NoWriter) ~> pc[p] = "User"

(***************************************************************************)
(* A write waits for nothing but room: it returns, or the ring is full     *)
(* some time later.                                                        *)
(***************************************************************************)
WriteEnds ==
    \A p \in Proc : pc[p] = "Write" ~> (pc[p] = "User" \/ status = "Full")

(***************************************************************************)
(* What the comment in Pipe::read says, "the user buffer is full, no new   *)
(* data can be written to it", of the return it stands at: a read that     *)
(* takes the last byte its user buffer has room for returns.               *)
(***************************************************************************)
FullBufferReturns ==
    \A p \in Proc :
        (pc[p] = "Read" /\ hart = p /\ count > 0 /\ todo[p] = 1) ~> pc[p] = "User"
=============================================================================
