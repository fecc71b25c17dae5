---------------------------- MODULE RingBuffer -----------------------------
(***************************************************************************)
(* PipeRingBuffer of os/src/fs/pipe.rs: the circular array behind a pipe.  *)
(* Neither read_byte nor write_byte checks that there is a byte, or room:  *)
(* the callers have to (module Pipe).                                      *)
(***************************************************************************)
EXTENDS Integers, Sequences

CONSTANTS
    RING_BUFFER_SIZE,
    Byte,
    Zero        \* the byte the array is filled with

ASSUME RingAssumption == RING_BUFFER_SIZE \in Nat \ {0} /\ Zero \in Byte

VARIABLES
    arr,
    head,
    tail,
    status,     \* RingBufferStatus
    byte        \* what read_byte returned last

ring == <<arr, head, tail, status, byte>>

Index == 0 .. RING_BUFFER_SIZE - 1

RingInit ==
    /\ arr = [i \in Index |-> Zero]
    /\ head = 0 /\ tail = 0
    /\ status = "Empty"
    /\ byte = Zero

\* Variant: the head moves before the byte is taken.
read_byte_late ==
    /\ head' = (head + 1) % RING_BUFFER_SIZE
    /\ byte' = arr[head']
    /\ status' = IF head' = tail THEN "Empty" ELSE "Normal"
    /\ UNCHANGED <<arr, tail>>

read_byte ==
    /\ byte' = arr[head]
    /\ head' = (head + 1) % RING_BUFFER_SIZE
    /\ status' = IF head' = tail THEN "Empty" ELSE "Normal"
    /\ UNCHANGED <<arr, tail>>

write_byte(b) ==
    /\ arr' = [arr EXCEPT ![tail] = b]
    /\ tail' = (tail + 1) % RING_BUFFER_SIZE
    /\ status' = IF head = tail' THEN "Full" ELSE "Normal"
    /\ UNCHANGED <<head, byte>>

available_read ==
    IF status = "Empty" THEN 0
    ELSE IF tail > head THEN tail - head
    ELSE RING_BUFFER_SIZE - head + tail

\* Variant: one place of the array is kept free.
available_write_keeps_one ==
    IF status = "Full" THEN 0 ELSE RING_BUFFER_SIZE - 1 - available_read

available_write ==
    IF status = "Full" THEN 0 ELSE RING_BUFFER_SIZE - available_read
-----------------------------------------------------------------------------
(***************************************************************************)
(* The fields have the types of the Rust fields they stand for, the        *)
(* indices are inside the array, and head and tail coincide exactly when   *)
(* the status says that the ring is empty or full.                         *)
(***************************************************************************)
RingOK ==
    /\ arr \in [Index -> Byte]
    /\ head \in Index /\ tail \in Index
    /\ status \in {"Empty", "Normal", "Full"}
    /\ byte \in Byte
    /\ head = tail <=> status # "Normal"

\* The bytes in the ring, oldest first.
Contents == [i \in 1 .. available_read |-> arr[(head + i - 1) % RING_BUFFER_SIZE]]

Queue == INSTANCE ByteQueue WITH Capacity <- RING_BUFFER_SIZE, q <- Contents, got <- byte
=============================================================================
