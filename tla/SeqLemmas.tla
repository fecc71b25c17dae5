---------------------------- MODULE SeqLemmas ----------------------------
(***************************************************************************)
(* Facts about sequences without repetition that the proofs about the      *)
(* ready queue, the vectors of children and the recycled pids rest on:     *)
(* what appending, popping, concatenating and removing do to the set of    *)
(* elements, and that none of them introduces a repetition.                *)
(***************************************************************************)
EXTENDS Integers, Sequences, SequencesExt, SequenceTheorems, TLAPS

(***************************************************************************)
(* push_back adds one element; a new element causes no repetition.         *)
(***************************************************************************)
LEMMA AppendElements ==
  ASSUME NEW S, NEW s \in Seq(S), NEW e \in S
  PROVE  /\ Append(s, e) \in Seq(S)
         /\ ToSet(Append(s, e)) = ToSet(s) \cup {e}
         /\ IsInjective(s) /\ e \notin ToSet(s) => IsInjective(Append(s, e))
<1> DEFINE a == Append(s, e)
<1>1. /\ a \in Seq(S) /\ Len(a) = Len(s) + 1 /\ DOMAIN a = 1..(Len(s) + 1)
      /\ \A i \in 1..Len(s) : a[i] = s[i]
      /\ a[Len(s) + 1] = e
      /\ DOMAIN s = 1..Len(s) /\ Len(s) \in Nat
  BY AppendProperties, LenProperties
<1> HIDE DEF a
<1>2. ToSet(a) = ToSet(s) \cup {e}
  BY <1>1 DEF ToSet
<1>3. ASSUME IsInjective(s), e \notin ToSet(s)
      PROVE  IsInjective(a)
  <2>1. ASSUME NEW i \in DOMAIN a, NEW j \in DOMAIN a, a[i] = a[j]
        PROVE  i = j
    BY <2>1, <1>1, <1>3 DEF IsInjective, ToSet
  <2>2. QED BY <2>1 DEF IsInjective
<1>4. QED BY <1>1, <1>2, <1>3 DEF a

(***************************************************************************)
(* pop_front removes the head.                                             *)
(***************************************************************************)
LEMMA TailElements ==
  ASSUME NEW S, NEW s \in Seq(S), s # <<>>, IsInjective(s)
  PROVE  /\ Tail(s) \in Seq(S)
         /\ Head(s) \in ToSet(s) /\ Head(s) \in S
         /\ ToSet(Tail(s)) = ToSet(s) \ {Head(s)}
         /\ IsInjective(Tail(s))
<1> DEFINE r == Tail(s)
<1>1. /\ r \in Seq(S) /\ Len(r) = Len(s) - 1 /\ DOMAIN r = 1..(Len(s) - 1)
      /\ \A i \in 1..(Len(s) - 1) : r[i] = s[i + 1]
      /\ DOMAIN s = 1..Len(s) /\ Len(s) \in Nat /\ Len(s) > 0
      /\ Head(s) = s[1] /\ s[1] \in S
  BY HeadTailProperties, LenProperties, EmptySeq
<1> HIDE DEF r
<1>2. ToSet(r) = ToSet(s) \ {Head(s)}
  <2>1. ASSUME NEW x \in ToSet(r) PROVE x \in ToSet(s) \ {Head(s)}
    <3>1. PICK i \in 1..(Len(s) - 1) : x = r[i]
      BY <1>1 DEF ToSet
    <3>2. x = s[i + 1] /\ i + 1 \in DOMAIN s /\ 1 \in DOMAIN s /\ i + 1 # 1
      BY <3>1, <1>1
    <3>3. QED BY <3>2, <1>1 DEF ToSet, IsInjective
  <2>2. ASSUME NEW x \in ToSet(s) \ {Head(s)} PROVE x \in ToSet(r)
    <3>1. PICK i \in 1..Len(s) : x = s[i]
      BY <1>1 DEF ToSet
    <3>2. i - 1 \in 1..(Len(s) - 1) /\ r[i - 1] = s[i]
      <4>1. i # 1 BY <3>1, <2>2, <1>1
      <4>2. i - 1 \in 1..(Len(s) - 1) BY <4>1, <1>1
      <4>3. QED BY <4>2, <1>1
    <3>3. QED BY <3>1, <3>2, <1>1 DEF ToSet
  <2>3. QED BY <2>1, <2>2
<1>3. IsInjective(r)
  <2>1. ASSUME NEW i \in DOMAIN r, NEW j \in DOMAIN r, r[i] = r[j]
        PROVE  i = j
    BY <2>1, <1>1 DEF IsInjective
  <2>2. QED BY <2>1 DEF IsInjective
<1>4. Head(s) \in ToSet(s)
  BY <1>1 DEF ToSet
<1>5. QED BY <1>1, <1>2, <1>3, <1>4 DEF r

(***************************************************************************)
(* pop removes the last element.                                           *)
(***************************************************************************)
LEMMA FrontElements ==
  ASSUME NEW S, NEW s \in Seq(S), s # <<>>, IsInjective(s)
  PROVE  /\ Front(s) \in Seq(S)
         /\ Last(s) \in ToSet(s) /\ Last(s) \in S
         /\ ToSet(Front(s)) = ToSet(s) \ {Last(s)}
         /\ IsInjective(Front(s))
<1> DEFINE r == Front(s)
<1>1. /\ DOMAIN s = 1..Len(s) /\ Len(s) \in Nat /\ Len(s) > 0
      /\ \A i \in 1..Len(s) : s[i] \in S
  BY LenProperties, EmptySeq, ElementOfSeq
<1>2. /\ r \in Seq(S) /\ Len(r) = Len(s) - 1 /\ DOMAIN r = 1..(Len(s) - 1)
      /\ \A i \in 1..(Len(s) - 1) : r[i] = s[i]
  <2>1. r = SubSeq(s, 1, Len(s) - 1)
    BY DEF Front
  <2>2. QED BY <2>1, <1>1, SubSeqProperties
<1>3. Last(s) = s[Len(s)]
  BY DEF Last
<1> HIDE DEF r
<1>4. ToSet(r) = ToSet(s) \ {Last(s)}
  BY <1>1, <1>2, <1>3 DEF ToSet, IsInjective
<1>5. IsInjective(r)
  BY <1>1, <1>2 DEF IsInjective
<1>6. Last(s) \in ToSet(s) /\ Last(s) \in S
  BY <1>1, <1>3 DEF ToSet
<1>7. QED BY <1>2, <1>4, <1>5, <1>6 DEF r

(***************************************************************************)
(* Appending one vector to another joins their elements; vectors with no   *)
(* common element cause no repetition.                                     *)
(***************************************************************************)
LEMMA ConcatElements ==
  ASSUME NEW S, NEW s \in Seq(S), NEW t \in Seq(S)
  PROVE  /\ s \o t \in Seq(S)
         /\ ToSet(s \o t) = ToSet(s) \cup ToSet(t)
         /\ IsInjective(s) /\ IsInjective(t) /\ ToSet(s) \cap ToSet(t) = {}
              => IsInjective(s \o t)
<1> DEFINE c == s \o t
<1>1. /\ c \in Seq(S) /\ Len(c) = Len(s) + Len(t)
      /\ \A i \in 1..Len(c) : c[i] = IF i <= Len(s) THEN s[i] ELSE t[i - Len(s)]
  BY ConcatProperties
<1>2. /\ DOMAIN c = 1..(Len(s) + Len(t))
      /\ DOMAIN s = 1..Len(s) /\ DOMAIN t = 1..Len(t)
      /\ Len(s) \in Nat /\ Len(t) \in Nat
  BY <1>1, LenProperties
<1> HIDE DEF c
<1>3. ToSet(c) = ToSet(s) \cup ToSet(t)
  <2>1. ASSUME NEW x \in ToSet(c) PROVE x \in ToSet(s) \cup ToSet(t)
    <3>1. PICK i \in 1..(Len(s) + Len(t)) : x = c[i]
      BY <1>2 DEF ToSet
    <3>2. CASE i <= Len(s)
      BY <3>1, <3>2, <1>1, <1>2 DEF ToSet
    <3>3. CASE i > Len(s)
      <4>1. i - Len(s) \in 1..Len(t) /\ x = t[i - Len(s)]
        BY <3>1, <3>3, <1>1, <1>2
      <4>2. QED BY <4>1, <1>2 DEF ToSet
    <3>4. QED BY <3>1, <3>2, <3>3, <1>2
  <2>2. ASSUME NEW x \in ToSet(s) PROVE x \in ToSet(c)
    <3>1. PICK i \in 1..Len(s) : x = s[i]
      BY <1>2 DEF ToSet
    <3>2. i \in 1..(Len(s) + Len(t)) /\ c[i] = s[i]
      BY <1>1, <1>2
    <3>3. QED BY <3>1, <3>2, <1>2 DEF ToSet
  <2>3. ASSUME NEW x \in ToSet(t) PROVE x \in ToSet(c)
    <3>1. PICK i \in 1..Len(t) : x = t[i]
      BY <1>2 DEF ToSet
    <3>2. /\ i + Len(s) \in 1..(Len(s) + Len(t)) /\ ~(i + Len(s) <= Len(s))
          /\ (i + Len(s)) - Len(s) = i
      BY <1>2
    <3>3. c[i + Len(s)] = t[(i + Len(s)) - Len(s)]
      BY <3>2, <1>1
    <3>4. c[i + Len(s)] = t[i]
      BY <3>2, <3>3
    <3>5. QED BY <3>1, <3>2, <3>4, <1>2 DEF ToSet
  <2>4. QED BY <2>1, <2>2, <2>3
<1>4. ASSUME IsInjective(s), IsInjective(t), ToSet(s) \cap ToSet(t) = {}
      PROVE  IsInjective(c)
  <2>0. \A i \in 1..Len(s), j \in 1..Len(t) : s[i] # t[j]
    BY <1>4, <1>2 DEF ToSet
  <2>1. ASSUME NEW i \in DOMAIN c, NEW j \in DOMAIN c, c[i] = c[j]
        PROVE  i = j
    <3>1. CASE i <= Len(s) /\ j <= Len(s)
      BY <3>1, <2>1, <1>1, <1>2, <1>4 DEF IsInjective
    <3>2. CASE i > Len(s) /\ j > Len(s)
      <4>1. /\ i - Len(s) \in DOMAIN t /\ j - Len(s) \in DOMAIN t
            /\ t[i - Len(s)] = t[j - Len(s)]
        BY <3>2, <2>1, <1>1, <1>2
      <4>2. i - Len(s) = j - Len(s)
        BY <4>1, <1>4 DEF IsInjective
      <4>3. QED BY <4>2, <1>2
    <3>3. CASE i <= Len(s) /\ j > Len(s)
      BY <3>3, <2>0, <2>1, <1>1, <1>2
    <3>4. CASE i > Len(s) /\ j <= Len(s)
      BY <3>4, <2>0, <2>1, <1>1, <1>2
    <3>5. QED BY <3>1, <3>2, <3>3, <3>4, <1>2
  <2>2. QED BY <2>1 DEF IsInjective
<1>5. QED BY <1>1, <1>3, <1>4 DEF c

(***************************************************************************)
(* Vec::remove takes out one element and keeps the others.                 *)
(***************************************************************************)
LEMMA RemoveAtElements ==
  ASSUME NEW S, NEW s \in Seq(S), NEW i \in DOMAIN s, IsInjective(s)
  PROVE  /\ RemoveAt(s, i) \in Seq(S)
         /\ ToSet(RemoveAt(s, i)) = ToSet(s) \ {s[i]}
         /\ IsInjective(RemoveAt(s, i))
<1> DEFINE l == SubSeq(s, 1, i - 1)
           r == SubSeq(s, i + 1, Len(s))
<1>1. DOMAIN s = 1..Len(s) /\ Len(s) \in Nat /\ i \in 1..Len(s)
      /\ \A j \in 1..Len(s) : s[j] \in S
  BY LenProperties, ElementOfSeq
<1>2. /\ l \in Seq(S) /\ Len(l) = i - 1 /\ DOMAIN l = 1..(i - 1)
      /\ \A j \in 1..(i - 1) : l[j] = s[j]
  BY <1>1, SubSeqProperties
<1>3. /\ r \in Seq(S) /\ Len(r) = Len(s) - i /\ DOMAIN r = 1..(Len(s) - i)
      /\ \A j \in 1..(Len(s) - i) : r[j] = s[i + j]
  BY <1>1, SubSeqProperties
<1>4. RemoveAt(s, i) = l \o r
  BY DEF RemoveAt
<1> HIDE DEF l, r
<1>5. IsInjective(l) /\ IsInjective(r)
  <2>1. IsInjective(l)
    BY <1>1, <1>2 DEF IsInjective
  <2>2. ASSUME NEW j \in DOMAIN r, NEW k \in DOMAIN r, r[j] = r[k]
        PROVE  j = k
    <3>1. i + j \in DOMAIN s /\ i + k \in DOMAIN s /\ s[i + j] = s[i + k]
      BY <2>2, <1>1, <1>3
    <3>2. i + j = i + k
      BY <3>1 DEF IsInjective
    <3>3. QED BY <3>2, <1>1, <1>3
  <2>3. QED BY <2>1, <2>2 DEF IsInjective
<1>6. ToSet(l) = {s[j] : j \in 1..(i - 1)} /\ ToSet(r) = {s[j] : j \in (i + 1)..Len(s)}
  <2>1. ToSet(l) = {s[j] : j \in 1..(i - 1)}
    BY <1>2 DEF ToSet
  <2>2. ASSUME NEW x \in ToSet(r) PROVE x \in {s[j] : j \in (i + 1)..Len(s)}
    <3>1. PICK j \in 1..(Len(s) - i) : x = r[j]
      BY <1>3 DEF ToSet
    <3>2. x = s[i + j] /\ i + j \in (i + 1)..Len(s)
      BY <3>1, <1>1, <1>3
    <3>3. QED BY <3>2
  <2>3. ASSUME NEW j \in (i + 1)..Len(s) PROVE s[j] \in ToSet(r)
    <3>1. j - i \in 1..(Len(s) - i) /\ r[j - i] = s[i + (j - i)] /\ i + (j - i) = j
      BY <1>1, <1>3
    <3>2. QED BY <3>1, <1>3 DEF ToSet
  <2>4. QED BY <2>1, <2>2, <2>3
<1>7. ToSet(l) \cap ToSet(r) = {}
  BY <1>1, <1>6 DEF IsInjective
<1>8. ToSet(l) \cup ToSet(r) = ToSet(s) \ {s[i]}
  <2>1. ToSet(s) = {s[j] : j \in 1..Len(s)}
    BY <1>1 DEF ToSet
  <2>2. QED BY <2>1, <1>1, <1>6 DEF IsInjective
<1>9. QED BY <1>2, <1>3, <1>4, <1>5, <1>7, <1>8, ConcatElements
=============================================================================
