------------------------------- MODULE FlatFs -------------------------------
(***************************************************************************)
(* What easy-fs promises its callers: a directory of files, each one a     *)
(* sequence of bytes.  A write beyond the end leaves zeros in between.     *)
(* The file system may stop, and then nothing changes any more.            *)
(***************************************************************************)
EXTENDS Integers, Sequences

CONSTANTS Name, Request, ZERO

VARIABLES
    files,      \* from the names in the directory to the contents
    stopped

Zeros(len) == [k \in 1..len |-> ZERO]

\* The contents of a file after a write of buf at offset.
Overwritten(file, offset, buf) ==
    SubSeq(file \o Zeros(offset - Len(file)), 1, offset)
      \o buf
      \o SubSeq(file, offset + Len(buf) + 1, Len(file))

Init == files = [n \in {} |-> <<>>] /\ stopped = FALSE

Create(n) ==
    /\ ~stopped /\ n \notin DOMAIN files
    /\ files' = [m \in DOMAIN files \cup {n} |-> IF m = n THEN <<>> ELSE files[m]]
    /\ UNCHANGED stopped

Write(n, offset, buf) ==
    /\ ~stopped /\ n \in DOMAIN files
    /\ files' = [files EXCEPT ![n] = Overwritten(@, offset, buf)]
    /\ UNCHANGED stopped

Clear(n) ==
    /\ ~stopped /\ n \in DOMAIN files
    /\ files' = [files EXCEPT ![n] = <<>>]
    /\ UNCHANGED stopped

Stop == stopped' = TRUE /\ UNCHANGED files

Next ==
    \/ \E n \in Name : Create(n) \/ Clear(n)
    \/ \E n \in Name, r \in Request : Write(n, r.offset, r.buf)
    \/ Stop

Spec == Init /\ [][Next]_<<files, stopped>>
=============================================================================
