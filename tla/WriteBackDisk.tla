--------------------------- MODULE WriteBackDisk ---------------------------
(***************************************************************************)
(* What the block cache promises: one current value per block, which only  *)
(* a write changes, and a device that holds for every block its current    *)
(* value or an older one.  The machine going down leaves the device.       *)
(***************************************************************************)
CONSTANTS Block, Data

VARIABLES
    current,    \* what reading a block gives
    disk        \* what the device holds

Init == disk \in [Block -> Data] /\ current = disk

Write(b, d) == current' = [current EXCEPT ![b] = d] /\ UNCHANGED disk

Flush(b) == disk' = [disk EXCEPT ![b] = current[b]] /\ UNCHANGED current

PowerOff == current' = disk /\ UNCHANGED disk

Next ==
    \/ \E b \in Block, d \in Data : Write(b, d)
    \/ \E b \in Block : Flush(b)
    \/ PowerOff

Spec == Init /\ [][Next]_<<current, disk>>
=============================================================================
