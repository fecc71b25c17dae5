----------------------------- MODULE Processes ------------------------------
(***************************************************************************)
(* What the process core promises the programs: a family of processes,     *)
(* without ready queue, pids, kernel stacks or reference counts.  A        *)
(* process forks children, exits and collects the children of its that     *)
(* exited; the children of one that exits go to INITPROC, which does not   *)
(* exit.                                                                   *)
(***************************************************************************)
CONSTANTS Process, INITPROC, None

VARIABLES
    state,      \* per process: "Free", "Live" or "Zombie"
    parent      \* per process: its parent, or None

family_vars == <<state, parent>>

FamilyInit ==
    /\ state = [p \in Process |-> IF p = INITPROC THEN "Live" ELSE "Free"]
    /\ parent = [p \in Process |-> None]

Fork(p, c) ==
    /\ state[p] = "Live" /\ state[c] = "Free"
    /\ state' = [state EXCEPT ![c] = "Live"]
    /\ parent' = [parent EXCEPT ![c] = p]

Exit(p) ==
    /\ state[p] = "Live" /\ p # INITPROC
    /\ state' = [state EXCEPT ![p] = "Zombie"]
    /\ parent' = [c \in Process |-> IF parent[c] = p THEN INITPROC ELSE parent[c]]

Reap(p, c) ==
    /\ state[p] = "Live" /\ state[c] = "Zombie" /\ parent[c] = p
    /\ state' = [state EXCEPT ![c] = "Free"]
    /\ parent' = [parent EXCEPT ![c] = None]

FamilyNext == \E p \in Process : Exit(p) \/ \E c \in Process : Fork(p, c) \/ Reap(p, c)

FamilySpec == FamilyInit /\ [][FamilyNext]_family_vars
=============================================================================
