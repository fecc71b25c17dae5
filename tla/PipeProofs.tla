----------------------------- MODULE PipeProofs -----------------------------
(***************************************************************************)
(* Proofs about the pipe, for every size of the ring, every set of bytes   *)
(* and every set of processes.                                             *)
(***************************************************************************)
EXTENDS Pipe, SequenceTheorems, TLAPS

\* One step past the end of the array wraps once.
LEMMA ModOnce ==
    ASSUME NEW n \in Nat \ {0}, NEW x \in Nat, x < 2 * n
    PROVE  x % n = IF x < n THEN x ELSE x - n
<1>1. CASE x < n
  BY <1>1
<1>2. CASE x >= n
  BY <1>2
<1> QED
  BY <1>1, <1>2

\* The index after i.
LEMMA NextIndex ==
    ASSUME NEW i \in Index
    PROVE  /\ (i + 1) % RING_BUFFER_SIZE \in Index
           /\ (i + 1) % RING_BUFFER_SIZE = IF i + 1 = RING_BUFFER_SIZE THEN 0 ELSE i + 1
<1> DEFINE x == i + 1
<1>1. x \in Nat /\ x < 2 * RING_BUFFER_SIZE /\ x <= RING_BUFFER_SIZE
  BY RingAssumption DEF Index
<1> HIDE DEF x
<1>2. x % RING_BUFFER_SIZE = IF x < RING_BUFFER_SIZE THEN x ELSE x - RING_BUFFER_SIZE
  BY <1>1, ModOnce, RingAssumption
<1>3. x % RING_BUFFER_SIZE = IF x = RING_BUFFER_SIZE THEN 0 ELSE x
  BY <1>1, <1>2, RingAssumption
<1>4. x % RING_BUFFER_SIZE \in Index
  BY <1>1, <1>3, RingAssumption DEF Index
<1> QED
  BY <1>3, <1>4, Zenon DEF x

\* How many bytes a ring of the right shape holds.
LEMMA Available ==
    ASSUME RingOK
    PROVE  /\ available_read \in 0 .. RING_BUFFER_SIZE
           /\ available_write = RING_BUFFER_SIZE - available_read
           /\ available_read = 0 <=> status = "Empty"
           /\ available_read = RING_BUFFER_SIZE <=> status = "Full"
BY RingAssumption DEF RingOK, Index, available_read, available_write

\* read_byte on a ring that is not empty: the shape is kept, one byte less is left.
LEMMA ReadByteShape ==
    ASSUME RingOK, status # "Empty", read_byte
    PROVE  RingOK' /\ available_read' = available_read - 1
<1>1. /\ head' \in Index
      /\ head' = IF head + 1 = RING_BUFFER_SIZE THEN 0 ELSE head + 1
  BY NextIndex DEF RingOK, read_byte
<1>2. RingOK'
  BY <1>1 DEF RingOK, read_byte
<1>3. available_read' = available_read - 1
  BY <1>1, RingAssumption DEF RingOK, read_byte, available_read, Index
<1> QED
  BY <1>2, <1>3

\* write_byte on a ring that is not full: the shape is kept, one byte more is there.
LEMMA WriteByteShape ==
    ASSUME RingOK, status # "Full", NEW b \in Byte, write_byte(b)
    PROVE  RingOK' /\ available_read' = available_read + 1
<1>1. /\ tail' \in Index
      /\ tail' = IF tail + 1 = RING_BUFFER_SIZE THEN 0 ELSE tail + 1
  BY NextIndex DEF RingOK, write_byte
<1>2. RingOK'
  BY <1>1 DEF RingOK, write_byte
<1>3. available_read' = available_read + 1
  BY <1>1, RingAssumption DEF RingOK, write_byte, available_read, Index
<1> QED
  BY <1>2, <1>3

\* The i-th oldest byte is at most once around the array from the head h.
LEMMA Slot ==
    ASSUME NEW h \in Index, NEW i \in 1 .. RING_BUFFER_SIZE
    PROVE  /\ (h + i - 1) % RING_BUFFER_SIZE
                = IF h + i - 1 < RING_BUFFER_SIZE THEN h + i - 1
                  ELSE h + i - 1 - RING_BUFFER_SIZE
           /\ (h + i - 1) % RING_BUFFER_SIZE \in Index
<1> DEFINE x == h + i - 1
<1>1. x \in Nat /\ x < 2 * RING_BUFFER_SIZE
  BY RingAssumption DEF Index
<1> HIDE DEF x
<1>2. x % RING_BUFFER_SIZE = IF x < RING_BUFFER_SIZE THEN x ELSE x - RING_BUFFER_SIZE
  BY <1>1, ModOnce, RingAssumption
<1>3. x % RING_BUFFER_SIZE \in Index
  BY <1>1, <1>2, RingAssumption DEF Index
<1> QED
  BY <1>2, <1>3, RingAssumption DEF x, Index

\* What the ring holds is a sequence of bytes.
LEMMA ContentsType ==
    ASSUME RingOK
    PROVE  /\ Contents \in Seq(Byte)
           /\ Len(Contents) = available_read
           /\ DOMAIN Contents = 1 .. available_read
<1>1. available_read \in Nat /\ available_read <= RING_BUFFER_SIZE
  BY Available, RingAssumption
<1>2. \A i \in 1 .. available_read : arr[(head + i - 1) % RING_BUFFER_SIZE] \in Byte
  <2> TAKE i \in 1 .. available_read
  <2>1. (head + i - 1) % RING_BUFFER_SIZE \in Index
    BY <1>1, Slot, RingAssumption DEF RingOK
  <2> QED
    BY <2>1 DEF RingOK
<1>3. Contents \in [1 .. available_read -> Byte]
  BY <1>2 DEF Contents
<1> HIDE DEF Contents
<1>4. Contents \in Seq(Byte)
  BY <1>1, <1>3
<1>5. DOMAIN Contents = 1 .. available_read
  BY <1>3
<1>6. Len(Contents) = available_read
  BY <1>1, <1>4, <1>5
<1> QED
  BY <1>4, <1>5, <1>6

\* read_byte on a ring that is not empty takes the oldest byte out.
LEMMA ReadByteQueue ==
    ASSUME RingOK, status # "Empty", read_byte
    PROVE  byte' = Head(Contents) /\ Contents' = Tail(Contents) /\ Contents # <<>>
<1> DEFINE N == RING_BUFFER_SIZE
           n == available_read
<1>1. n \in 1 .. N /\ N \in Nat
  BY Available, RingAssumption
<1>2. RingOK' /\ available_read' = n - 1
  BY ReadByteShape
<1>3. /\ Contents \in Seq(Byte) /\ Len(Contents) = n /\ DOMAIN Contents = 1 .. n
      /\ \A i \in 1 .. n : Contents[i] = arr[(head + i - 1) % N]
  BY ContentsType DEF Contents
<1>4. byte' = Head(Contents)
  <2>1. (head + 1 - 1) % N = head
    BY <1>1, Slot DEF RingOK, Index
  <2>2. Contents[1] = arr[head]
    BY <1>1, <1>3, <2>1
  <2> QED
    BY <1>1, <1>3, <2>2 DEF read_byte
<1>5. \A i \in 1 .. n - 1 : (head' + i - 1) % N = (head + (i + 1) - 1) % N
  <2> TAKE i \in 1 .. n - 1
  <2>1. head \in Index /\ head' \in Index /\ i \in 1 .. N /\ i + 1 \in 1 .. N
    BY <1>1, <1>2 DEF RingOK
  <2>2. (head' + i - 1) % N = IF head' + i - 1 < N THEN head' + i - 1 ELSE head' + i - 1 - N
    BY <2>1, Slot
  <2>3. (head + (i + 1) - 1) % N
          = IF head + (i + 1) - 1 < N THEN head + (i + 1) - 1 ELSE head + (i + 1) - 1 - N
    BY <2>1, Slot
  <2>4. head' = IF head + 1 = N THEN 0 ELSE head + 1
    BY <2>1, NextIndex DEF read_byte
  <2> QED
    BY <1>1, <2>1, <2>2, <2>3, <2>4 DEF Index
<1>6. /\ Contents' \in Seq(Byte) /\ Len(Contents') = n - 1
      /\ \A i \in 1 .. n - 1 : Contents'[i] = arr[(head' + i - 1) % N]
  <2>1. RingOK' => (Contents \in Seq(Byte) /\ Len(Contents) = available_read)'
    BY ContentsType, PTL
  <2>2. Contents' = [i \in 1 .. n - 1 |-> arr[(head' + i - 1) % N]]
    BY <1>2 DEF Contents, read_byte
  <2> QED
    BY <1>2, <2>1, <2>2
<1>7. /\ Contents # <<>> /\ Tail(Contents) \in Seq(Byte) /\ Len(Tail(Contents)) = n - 1
      /\ \A i \in 1 .. n - 1 : Tail(Contents)[i] = Contents[i + 1]
  BY <1>1, <1>3, HeadTailProperties
<1>8. \A i \in 1 .. n - 1 : Contents'[i] = Tail(Contents)[i]
  BY <1>1, <1>3, <1>5, <1>6, <1>7
<1>9. Contents' = Tail(Contents)
  BY <1>6, <1>7, <1>8, SeqEqual
<1> QED
  BY <1>1, <1>3, <1>4, <1>9

\* write_byte on a ring that is not full adds the byte at the end.
LEMMA WriteByteQueue ==
    ASSUME RingOK, status # "Full", NEW b \in Byte, write_byte(b)
    PROVE  Contents' = Append(Contents, b) /\ Len(Contents) < RING_BUFFER_SIZE
<1> DEFINE N == RING_BUFFER_SIZE
           n == available_read
<1>1. n \in 0 .. N - 1 /\ N \in Nat \ {0}
  BY Available, RingAssumption
<1>2. RingOK' /\ available_read' = n + 1
  BY WriteByteShape
<1>3. /\ Contents \in Seq(Byte) /\ Len(Contents) = n
      /\ \A i \in 1 .. n : Contents[i] = arr[(head + i - 1) % N]
  BY ContentsType DEF Contents
<1>4. \A i \in 1 .. n + 1 : (head + i - 1) % N = tail <=> i = n + 1
  <2> TAKE i \in 1 .. n + 1
  <2>1. head \in Index /\ tail \in Index /\ i \in 1 .. N
    BY <1>1 DEF RingOK
  <2>2. (head + i - 1) % N = IF head + i - 1 < N THEN head + i - 1 ELSE head + i - 1 - N
    BY <2>1, Slot
  <2> QED
    BY <1>1, <2>1, <2>2 DEF Index, available_read, RingOK
<1>5. \A i \in 1 .. n + 1 : arr'[(head + i - 1) % N] = IF i = n + 1 THEN b ELSE Contents[i]
  <2> TAKE i \in 1 .. n + 1
  <2>1. (head + i - 1) % N \in Index
    BY <1>1, Slot DEF RingOK
  <2>2. arr'[(head + i - 1) % N]
          = IF (head + i - 1) % N = tail THEN b ELSE arr[(head + i - 1) % N]
    BY <2>1 DEF RingOK, write_byte
  <2> QED
    BY <1>1, <1>3, <1>4, <2>2
<1>6. /\ Contents' \in Seq(Byte) /\ Len(Contents') = n + 1
      /\ \A i \in 1 .. n + 1 : Contents'[i] = arr'[(head + i - 1) % N]
  <2>1. RingOK' => (Contents \in Seq(Byte) /\ Len(Contents) = available_read)'
    BY ContentsType, PTL
  <2>2. Contents' = [i \in 1 .. n + 1 |-> arr'[(head + i - 1) % N]]
    BY <1>2 DEF Contents, write_byte
  <2> QED
    BY <1>2, <2>1, <2>2
<1>7. /\ Append(Contents, b) \in Seq(Byte) /\ Len(Append(Contents, b)) = n + 1
      /\ \A i \in 1 .. n : Append(Contents, b)[i] = Contents[i]
      /\ Append(Contents, b)[n + 1] = b
  BY <1>3, AppendProperties
<1>8. \A i \in 1 .. n + 1 : Contents'[i] = Append(Contents, b)[i]
  BY <1>1, <1>5, <1>6, <1>7
<1>9. Contents' = Append(Contents, b)
  BY <1>6, <1>7, <1>8, SeqEqual
<1> QED
  BY <1>1, <1>3, <1>9
-----------------------------------------------------------------------------
(***************************************************************************)
(* The inductive invariant.  LoopsInBounds is inductive together with the  *)
(* types: what a for loop measured stays true because each pass uses up    *)
(* one of its rounds and one byte (or one place), and nobody else moves.   *)
(* WritersHoldEnd is what makes end of file final: a process inside a      *)
(* write cannot have closed the write end.                                 *)
(***************************************************************************)
WritersHoldEnd == \A p \in Proc : pc[p] = "Write" => "w" \in fds[p]

IInv == TypeOK /\ LoopsInBounds /\ WritersHoldEnd

\* make_pipe establishes it.
LEMMA InitIInv == PipeInit => IInv
<1> SUFFICES ASSUME PipeInit PROVE IInv
  OBVIOUS
<1>1. RingOK
  BY RingAssumption DEF PipeInit, RingInit, RingOK, Index
<1> QED
  BY <1>1, ProcAssumption DEF PipeInit, IInv, TypeOK, LoopsInBounds, WritersHoldEnd

\* Steps that leave the ring alone and are outside a for loop, before and after.
LEMMA OutsideLoopIInv ==
    ASSUME IInv, UNCHANGED ring, count' = 0,
           fds' \in [Proc -> SUBSET {"r", "w"}],
           pc' \in [Proc -> {"Free", "User", "Read", "Write", "Zombie"}],
           todo' \in [Proc -> Nat],
           hart' \in Proc \cup {None},
           WritersHoldEnd'
    PROVE  IInv'
<1>1. RingOK'
  BY DEF IInv, TypeOK, RingOK, ring
<1> QED
  BY <1>1 DEF IInv, TypeOK, LoopsInBounds

\* The system calls that start a loop, and those that only move descriptors.
LEMMA SysCallIInv ==
    ASSUME IInv, NEW p \in Proc,
           \/ \E len \in 0..MaxLen : sys_read(p, len) \/ sys_write(p, len)
           \/ \E end \in {"r", "w"} : sys_close(p, end)
           \/ \E c \in Proc : sys_fork(p, c)
           \/ exit_current_and_run_next(p)
           \/ reaped(p)
    PROVE  IInv'
<1> USE DEF IInv, TypeOK, WritersHoldEnd
<1>0. hart = None /\ count = 0
  BY DEF LoopsInBounds, sys_read, sys_write, sys_close, sys_fork,
         exit_current_and_run_next, reaped
<1>1. CASE \E len \in 0..MaxLen : sys_read(p, len) \/ sys_write(p, len)
  BY <1>0, <1>1, OutsideLoopIInv, ProcAssumption DEF sys_read, sys_write
<1>2. CASE \E end \in {"r", "w"} : sys_close(p, end)
  BY <1>0, <1>2, OutsideLoopIInv DEF sys_close
<1>3. CASE \E c \in Proc : sys_fork(p, c)
  BY <1>0, <1>3, OutsideLoopIInv DEF sys_fork
<1>4. CASE exit_current_and_run_next(p)
  BY <1>0, <1>4, OutsideLoopIInv DEF exit_current_and_run_next
<1>5. CASE reaped(p)
  BY <1>0, <1>5, OutsideLoopIInv DEF reaped
<1> QED
  BY <1>1, <1>2, <1>3, <1>4, <1>5

\* The head of a loop measures what the for loop may use.
LEMMA LoopHeadIInv ==
    ASSUME IInv, NEW p \in Proc, read_loop(p) \/ write_loop(p)
    PROVE  IInv'
<1> USE DEF IInv, TypeOK, WritersHoldEnd
<1>0. /\ count = 0 /\ UNCHANGED ring
      /\ available_read \in Nat /\ available_write \in Nat
      /\ available_read = 0 <=> status = "Empty"
      /\ available_write = 0 <=> status = "Full"
      /\ hart \in {None, p}
  BY Available, RingAssumption DEF read_loop, write_loop
<1>1. CASE returns(p) \/ suspends
  BY <1>0, <1>1, OutsideLoopIInv DEF returns, suspends
<1>2. CASE \/ pc[p] = "Read" /\ available_read > 0 /\ enters_for(p, available_read)
           \/ pc[p] = "Write" /\ available_write > 0 /\ enters_for(p, available_write)
  <2>1. RingOK' /\ available_read' = available_read /\ available_write' = available_write
    BY <1>0 DEF RingOK, ring, available_read, available_write
  <2>2. TypeOK'
    BY <1>0, <1>2, <2>1 DEF enters_for
  <2>3. LoopsInBounds'
    BY <1>0, <1>2, <2>1, ProcAssumption DEF enters_for, LoopsInBounds, ring
  <2>4. WritersHoldEnd'
    BY <1>2 DEF enters_for
  <2> QED
    BY <2>2, <2>3, <2>4
<1> QED
  BY <1>1, <1>2 DEF read_loop, write_loop

\* One pass through a for loop.
LEMMA ForIInv ==
    ASSUME IInv, NEW p \in Proc, read_for(p) \/ write_for(p)
    PROVE  IInv'
<1> USE DEF IInv, TypeOK, WritersHoldEnd
<1>0. /\ RING_BUFFER_SIZE \in Nat
      /\ available_read \in 0 .. RING_BUFFER_SIZE
      /\ available_write = RING_BUFFER_SIZE - available_read
  BY Available, RingAssumption
<1>1. CASE returns(p) /\ UNCHANGED ring
  BY <1>1, OutsideLoopIInv DEF returns
<1>2. CASE read_for(p) /\ todo[p] > 0 /\ read_byte /\ next_byte(p)
  <2>1. /\ pc[p] = "Read" /\ hart = p /\ count > 0 /\ count <= available_read
        /\ status # "Empty"
    BY <1>2 DEF read_for, LoopsInBounds
  <2>2. RingOK' /\ available_read' = available_read - 1
    BY <1>2, <2>1, ReadByteShape
  <2>3. (RingOK => /\ available_read \in 0 .. RING_BUFFER_SIZE
                   /\ available_read = 0 <=> status = "Empty")'
    BY Available, PTL
  <2>4. count' \in Nat /\ count' = count - 1 /\ hart' = p /\ pc'[p] = "Read"
    BY <1>2, <2>1 DEF next_byte
  <2>5. count' > 0 => count' <= available_read' /\ status' # "Empty"
    BY <1>0, <2>1, <2>2, <2>3, <2>4
  <2>6. TypeOK'
    BY <1>2, <2>1, <2>2 DEF next_byte
  <2>7. LoopsInBounds'
    BY <2>4, <2>5, ProcAssumption DEF LoopsInBounds
  <2>8. WritersHoldEnd'
    BY <1>2 DEF next_byte
  <2> QED
    BY <2>6, <2>7, <2>8
<1>3. CASE write_for(p) /\ todo[p] > 0 /\ next_byte(p) /\ \E b \in Byte : write_byte(b)
  <2>1. /\ pc[p] = "Write" /\ hart = p /\ count > 0 /\ count <= available_write
        /\ status # "Full"
    BY <1>3 DEF write_for, LoopsInBounds
  <2>2. RingOK' /\ available_read' = available_read + 1
    BY <1>3, <2>1, WriteByteShape
  <2>3. (RingOK => /\ available_read \in 0 .. RING_BUFFER_SIZE
                   /\ available_write = RING_BUFFER_SIZE - available_read
                   /\ available_read = RING_BUFFER_SIZE <=> status = "Full")'
    BY Available, PTL
  <2>4. available_write' = available_write - 1
    BY <1>0, <2>2, <2>3
  <2>5. count' \in Nat /\ count' = count - 1 /\ hart' = p /\ pc'[p] = "Write"
    BY <1>3, <2>1 DEF next_byte
  <2>6. count' > 0 => count' <= available_write' /\ status' # "Full"
    BY <1>0, <2>1, <2>2, <2>3, <2>4, <2>5
  <2>7. TypeOK'
    BY <1>3, <2>1, <2>2 DEF next_byte
  <2>8. LoopsInBounds'
    BY <2>5, <2>6, ProcAssumption DEF LoopsInBounds
  <2>9. WritersHoldEnd'
    BY <1>3 DEF next_byte
  <2> QED
    BY <2>7, <2>8, <2>9
<1> QED
  BY <1>1, <1>2, <1>3 DEF read_for, write_for

\* Every step preserves the invariant.
LEMMA NextIInv == IInv /\ [PipeNext]_vars => IInv'
<1> SUFFICES ASSUME IInv, [PipeNext]_vars PROVE IInv'
  OBVIOUS
<1>1. CASE UNCHANGED vars
  BY <1>1 DEF vars, procs, ring, IInv, TypeOK, RingOK, LoopsInBounds, WritersHoldEnd,
              available_read, available_write
<1>2. CASE \E p \in Proc : Step(p)
  <2>1. PICK p \in Proc : Step(p)
    BY <1>2
  <2>2. CASE read_loop(p) \/ write_loop(p)
    BY <2>2, LoopHeadIInv
  <2>3. CASE read_for(p) \/ write_for(p)
    BY <2>3, ForIInv
  <2>4. CASE \/ \E len \in 0..MaxLen : sys_read(p, len) \/ sys_write(p, len)
             \/ \E end \in {"r", "w"} : sys_close(p, end)
             \/ \E c \in Proc : sys_fork(p, c)
             \/ exit_current_and_run_next(p)
             \/ reaped(p)
    BY <2>4, SysCallIInv
  <2> QED
    BY <2>1, <2>2, <2>3, <2>4 DEF Step
<1> QED
  BY <1>1, <1>2 DEF PipeNext, Gone

(***************************************************************************)
(* The invariant holds in every reachable state of the pipe.               *)
(***************************************************************************)
THEOREM Invariance == PipeSpec => []IInv
<1>1. PipeInit => IInv
  BY InitIInv
<1>2. IInv /\ [PipeNext]_vars => IInv'
  BY NextIInv
<1> QED
  BY <1>1, <1>2, PTL DEF PipeSpec

(***************************************************************************)
(* head and tail stay inside the array, and they meet exactly when status  *)
(* says Empty or Full, for a ring of any size.                             *)
(***************************************************************************)
THEOREM PipeTypeCorrect == PipeSpec => []TypeOK
<1>1. IInv => TypeOK
  BY DEF IInv
<1> QED
  BY <1>1, Invariance, PTL

(***************************************************************************)
(* No loop of Pipe::read or Pipe::write reads a byte that is not there or  *)
(* overwrites one that was not read.                                       *)
(***************************************************************************)
THEOREM LoopsStayInBounds == PipeSpec => []LoopsInBounds
<1>1. IInv => LoopsInBounds
  BY DEF IInv
<1> QED
  BY <1>1, Invariance, PTL

\* A step on the ring is a step of the queue.
LEMMA QueueStep == IInv /\ [PipeNext]_vars => [Queue!Next]_<<Contents, byte>>
<1> SUFFICES ASSUME IInv, [PipeNext]_vars
             PROVE  Queue!Next \/ UNCHANGED <<Contents, byte>>
  OBVIOUS
<1>1. CASE UNCHANGED ring
  BY <1>1 DEF ring, Contents, available_read
<1>2. ASSUME NEW p \in Proc, read_for(p), read_byte
      PROVE  Queue!Next
  <2>1. RingOK /\ status # "Empty"
    BY <1>2 DEF IInv, TypeOK, LoopsInBounds, read_for
  <2>2. byte' = Head(Contents) /\ Contents' = Tail(Contents) /\ Contents # <<>>
    BY <1>2, <2>1, ReadByteQueue
  <2> QED
    BY <2>2 DEF Queue!Next, Queue!Get
<1>3. ASSUME NEW p \in Proc, write_for(p), NEW b \in Byte, write_byte(b)
      PROVE  Queue!Next
  <2>1. RingOK /\ status # "Full"
    BY <1>3 DEF IInv, TypeOK, LoopsInBounds, write_for
  <2>2. Contents' = Append(Contents, b) /\ Len(Contents) < RING_BUFFER_SIZE
    BY <1>3, <2>1, WriteByteQueue
  <2>3. byte' = byte
    BY <1>3 DEF write_byte
  <2> QED
    BY <2>2, <2>3 DEF Queue!Next, Queue!Put
<1>4. ASSUME NEW p \in Proc, Step(p)
      PROVE  Queue!Next \/ UNCHANGED ring
  BY <1>2, <1>3, <1>4 DEF Step, sys_read, sys_write, read_loop, read_for, write_loop,
     write_for, sys_close, sys_fork, exit_current_and_run_next, reaped
<1> QED
  BY <1>1, <1>4 DEF PipeNext, Gone, vars

(***************************************************************************)
(* A pipe is a queue: its readers together get the bytes its writers wrote *)
(* in the order they were written, whatever the size of the ring and the   *)
(* number of processes.                                                    *)
(***************************************************************************)
THEOREM PipeIsAQueue == PipeSpec => ImplementsQueue
<1>1. PipeInit => Queue!Init
  <2> SUFFICES ASSUME PipeInit PROVE Queue!Init
    OBVIOUS
  <2>1. available_read = 0 /\ byte \in Byte
    BY RingAssumption DEF PipeInit, RingInit, available_read
  <2>2. Contents = <<>>
    BY <2>1 DEF Contents
  <2> QED
    BY <2>1, <2>2 DEF Queue!Init
<1>2. IInv /\ [PipeNext]_vars => [Queue!Next]_<<Contents, byte>>
  BY QueueStep
<1> QED
  BY <1>1, <1>2, Invariance, PTL DEF PipeSpec, ImplementsQueue, Queue!Spec

(***************************************************************************)
(* A read comes back with less than it was asked for only at end of file.  *)
(***************************************************************************)
THEOREM ShortReadsAreEof == PipeSpec => ShortReadIsEof
<1>1. ASSUME IInv, [PipeNext]_vars
      PROVE  [\A p \in Proc : pc[p] = "Read" /\ pc'[p] = "User" /\ todo[p] > 0
                => status = "Empty" /\ NoWriter]_vars
  <2> USE <1>1
  <2> SUFFICES ASSUME PipeNext, NEW p \in Proc, pc[p] = "Read", pc'[p] = "User",
                      todo[p] > 0
               PROVE  status = "Empty" /\ NoWriter
    BY DEF vars, procs
  <2>1. PICK q \in Proc : Step(q)
    BY DEF PipeNext, Gone, vars, procs
  <2>2. p = q /\ (read_loop(q) \/ read_for(q))
    BY <2>1 DEF Step, sys_read, sys_write, read_loop, read_for, write_loop, write_for,
       sys_close, sys_fork, exit_current_and_run_next, reaped, returns, suspends,
       enters_for, next_byte, IInv, TypeOK
  <2>3. read_loop(p) /\ available_read = 0 /\ all_write_ends_closed
    BY <2>2 DEF read_loop, read_for, suspends, enters_for, next_byte, IInv, TypeOK
  <2> QED
    BY <2>3, Available DEF IInv, TypeOK, all_write_ends_closed, NoWriter
<1> QED
  BY <1>1, Invariance, PTL DEF PipeSpec, ShortReadIsEof

(***************************************************************************)
(* Once a reader can have seen end of file, no byte and no write end comes *)
(* back.                                                                   *)
(***************************************************************************)
THEOREM EofStays == PipeSpec => EofIsFinal
<1>1. ASSUME IInv, [PipeNext]_vars
      PROVE  [(status = "Empty" /\ NoWriter) => (status = "Empty" /\ NoWriter)']_vars
  <2> USE <1>1
  <2> SUFFICES ASSUME PipeNext, status = "Empty", NoWriter
               PROVE  (status = "Empty" /\ NoWriter)'
    BY DEF vars
  <2>1. CASE UNCHANGED vars
    BY <2>1 DEF vars, ring, procs, NoWriter
  <2>2. CASE \E p \in Proc : Step(p)
    <3>1. PICK p \in Proc : Step(p)
      BY <2>2
    <3>2. ~read_for(p) /\ ~write_for(p)
      BY DEF read_for, write_for, IInv, TypeOK, LoopsInBounds, WritersHoldEnd, NoWriter
    <3> QED
      BY <3>1, <3>2 DEF Step, sys_read, sys_write, read_loop, write_loop, sys_close,
         sys_fork, exit_current_and_run_next, reaped, returns, suspends,
         enters_for, next_byte, IInv, TypeOK, NoWriter, ring
  <2> QED
    BY <2>1, <2>2 DEF PipeNext, Gone
<1> QED
  BY <1>1, Invariance, PTL DEF PipeSpec, EofIsFinal
=============================================================================
