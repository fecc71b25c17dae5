----------------------------- MODULE ByteQueue -----------------------------
(***************************************************************************)
(* What a pipe buffer promises: a bounded first-in first-out queue of      *)
(* bytes.  got is the byte delivered last.                                 *)
(***************************************************************************)
EXTENDS Naturals, Sequences

CONSTANTS Byte, Capacity

VARIABLES q, got

Init == q = <<>> /\ got \in Byte

Put(b) ==
    /\ Len(q) < Capacity
    /\ q' = Append(q, b)
    /\ UNCHANGED got

Get ==
    /\ q # <<>>
    /\ got' = Head(q)
    /\ q' = Tail(q)

Next == Get \/ \E b \in Byte : Put(b)

Spec == Init /\ [][Next]_<<q, got>>
=============================================================================
