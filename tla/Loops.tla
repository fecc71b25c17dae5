------------------------------- MODULE Loops --------------------------------
(***************************************************************************)
(* The rule for loops: what holds before a loop, and is kept by each turn  *)
(* of it, holds after the loop.  A loop is the recursive function that     *)
(* ForEach of PageTable is made of, over any sequence and with any body    *)
(* op, whose parameters a and b do not change; Inv says of a parameter p   *)
(* what holds after i turns.  The module is instantiated once per loop.    *)
(* The principle of induction is a hypothesis of the rule (UpTo of         *)
(* MemorySetProofs), so that an instance is no larger than it has to be.   *)
(***************************************************************************)
EXTENDS Integers, Sequences

CONSTANTS op(_, _, _, _), Inv(_, _, _)

Run(a, b, s, seq) ==
    LET Loop[i \in 0..Len(seq)] ==
            IF i = 0 THEN s
            ELSE LET t == Loop[i - 1] IN IF t.panic # "none" THEN t ELSE op(a, b, t, seq[i])
    IN Loop[Len(seq)]

Induction ==
    \A n \in Nat : \A T :
        (0 \in T /\ \A i \in 1..n : i - 1 \in T => i \in T) => 0..n \subseteq T

\* One turn of the loop.
Step(a, b, t, x) == IF t.panic # "none" THEN t ELSE op(a, b, t, x)

IsHistory(g, a, b, s, seq) ==
    g = [i \in 0..Len(seq) |-> IF i = 0 THEN s ELSE Step(a, b, g[i-1], seq[i])]

(***************************************************************************)
(* The loop is a history g: it starts with s, each turn gives op what the  *)
(* one before it left, and after a panic nothing changes any more.         *)
(***************************************************************************)
LEMMA LoopUnfolds ==
  ASSUME Induction, NEW a, NEW b, NEW s, NEW seq, Len(seq) \in Nat
  PROVE  \E g : IsHistory(g, a, b, s, seq) /\ Run(a, b, s, seq) = g[Len(seq)]
<1> DEFINE n == Len(seq)
           Q(g, k) == g = [i \in 0..k |-> IF i = 0 THEN s ELSE Step(a, b, g[i-1], seq[i])]
           T == {k \in 0..n : \E g : Q(g, k)}
<1>1. 0 \in T
  <2>1. Q([i \in 0..0 |-> s], 0)
    OBVIOUS
  <2>2. \E g : Q(g, 0)
    BY <2>1
  <2>3. 0 \in 0..n
    OBVIOUS
  <2>4. QED BY <2>2, <2>3
<1>2. ASSUME NEW k \in 1..n, k - 1 \in T
      PROVE  k \in T
  <2>1. PICK g : Q(g, k - 1)
    BY <1>2
  <2> DEFINE h == [i \in 0..k |-> IF i = 0 THEN s ELSE Step(a, b, g[i-1], seq[i])]
  <2>2. \A i \in 0..k-1 : h[i] = g[i]
    BY <2>1
  <2>3. h = [i \in 0..k |-> IF i = 0 THEN s ELSE Step(a, b, h[i-1], seq[i])]
    <3>1. \A i \in 0..k : i # 0 => h[i-1] = g[i-1]
      BY <2>2
    <3> HIDE DEF h
    <3>2. [i \in 0..k |-> IF i = 0 THEN s ELSE Step(a, b, g[i-1], seq[i])]
            = [i \in 0..k |-> IF i = 0 THEN s ELSE Step(a, b, h[i-1], seq[i])]
      BY <3>1
    <3> QED BY <3>2 DEF h
  <2> HIDE DEF h
  <2>4. QED BY <2>3
<1>3. \E g : Q(g, n)
  <2>1. 0..n \subseteq T
    <3> HIDE DEF T
    <3> QED BY <1>1, <1>2 DEF Induction
  <2>2. n \in T
    BY <2>1
  <2>3. QED BY <2>2
<1> DEFINE G == CHOOSE g : Q(g, n)
<1>4. Q(G, n)
  BY <1>3
<1>5. Run(a, b, s, seq) = G[n]
  BY DEF Run, Step
<1>6. QED BY <1>4, <1>5 DEF IsHistory

(***************************************************************************)
(* The rule: a turn, and a panic that ends the loop early, keep Inv.       *)
(***************************************************************************)
THEOREM LoopInvariant ==
  ASSUME Induction, NEW a, NEW b, NEW p, NEW s, NEW seq, Len(seq) \in Nat, Inv(p, 0, s),
         \A i \in 1..Len(seq) : \A t :
            Inv(p, i - 1, t) => Inv(p, i, IF t.panic # "none" THEN t ELSE op(a, b, t, seq[i]))
  PROVE  Inv(p, Len(seq), Run(a, b, s, seq))
<1>1. PICK g : IsHistory(g, a, b, s, seq) /\ Run(a, b, s, seq) = g[Len(seq)]
  BY LoopUnfolds
<1> DEFINE T == {k \in 0..Len(seq) : Inv(p, k, g[k])}
<1>2. 0 \in T
  BY <1>1 DEF IsHistory
<1>3. \A i \in 1..Len(seq) : i - 1 \in T => i \in T
  BY <1>1 DEF Step, IsHistory
<1>4. 0..Len(seq) \subseteq T
  <2> HIDE DEF T
  <2> QED BY <1>2, <1>3 DEF Induction
<1>5. QED BY <1>4, <1>1
=============================================================================
