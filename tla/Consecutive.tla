----------------------------- MODULE Consecutive -----------------------------
(***************************************************************************)
(* Sequences of consecutive numbers: how they grow, shrink and join, and   *)
(* what they have as members.  The logs, channels and backlogs of a        *)
(* session and the lines of a history file are such sequences.             *)
(***************************************************************************)
EXTENDS Integers, Sequences, SequenceTheorems, TLAPS

\* s holds the n numbers after k.
Follows(s, k, n) == /\ s \in Seq(Nat) /\ Len(s) = n
                    /\ \A i \in 1..n : s[i] = k + i

\* The members of a sequence.
Elems(s) == {s[i] : i \in DOMAIN s}

LEMMA FollowsEmpty ==
  ASSUME NEW k \in Nat
  PROVE  Follows(<<>>, k, 0)
BY EmptySeq DEF Follows

LEMMA FollowsAppend ==
  ASSUME NEW k \in Nat, NEW n \in Nat, NEW s, Follows(s, k, n)
  PROVE  Follows(Append(s, k + n + 1), k, n + 1)
<1>1. k + n + 1 \in Nat
  OBVIOUS
<1> QED
  BY <1>1, AppendProperties DEF Follows

LEMMA FollowsTail ==
  ASSUME NEW k \in Nat, NEW n \in Nat, NEW s, Follows(s, k, n), s # <<>>
  PROVE  /\ Head(s) = k + 1 /\ n \in Nat \ {0}
         /\ Follows(Tail(s), k + 1, n - 1)
<1>1. s \in Seq(Nat) /\ Len(s) = n /\ \A i \in 1..n : s[i] = k + i
  BY DEF Follows
<1>2. n \in Nat \ {0}
  BY <1>1, EmptySeq
<1>3. Head(s) = s[1]
  BY <1>1
<1>4. Tail(s) \in Seq(Nat) /\ Len(Tail(s)) = n - 1 /\ \A i \in 1..(n - 1) : Tail(s)[i] = s[i + 1]
  BY <1>1, HeadTailProperties
<1> QED
  BY <1>1, <1>2, <1>3, <1>4 DEF Follows

LEMMA FollowsConcat ==
  ASSUME NEW k \in Nat, NEW n \in Nat, NEW m \in Nat,
         NEW s, NEW t, Follows(s, k, n), Follows(t, k + n, m)
  PROVE  Follows(s \o t, k, n + m)
<1>1. /\ s \o t \in Seq(Nat) /\ Len(s \o t) = n + m
      /\ \A i \in 1..(n + m) : (s \o t)[i] = IF i <= n THEN s[i] ELSE t[i - n]
  BY ConcatProperties DEF Follows
<1>2. (\A i \in 1..n : s[i] = k + i) /\ (\A i \in 1..m : t[i] = k + n + i)
  BY DEF Follows
<1>3. ASSUME NEW i \in 1..(n + m)
      PROVE  (s \o t)[i] = k + i
  <2>1. CASE i <= n
    BY <1>1, <1>2, <2>1
  <2>2. CASE i > n
    <3>1. i - n \in 1..m /\ ~(i <= n)
      BY <2>2
    <3>2. (s \o t)[i] = t[i - n]
      BY <1>1, <3>1
    <3>3. t[i - n] = k + n + (i - n)
      BY <1>2, <3>1
    <3>4. k + n + (i - n) = k + i
      OBVIOUS
    <3> QED
      BY <3>2, <3>3, <3>4
  <2>3. i <= n \/ i > n
    OBVIOUS
  <2> QED
    BY <2>1, <2>2, <2>3, Zenon
<1> QED
  BY <1>1, <1>3 DEF Follows

LEMMA FollowsSubSeq ==
  ASSUME NEW n \in Nat, NEW k \in 0..n, NEW s, Follows(s, 0, n)
  PROVE  Follows(SubSeq(s, k + 1, Len(s)), k, n - k)
<1>1. Len(s) = n /\ \A i \in 1..n : s[i] = i
  BY DEF Follows
<1>2. \A i \in (k + 1)..n : s[i] \in Nat
  BY <1>1
<1>3. /\ SubSeq(s, k + 1, n) \in Seq(Nat)
      /\ Len(SubSeq(s, k + 1, n)) = n - k
      /\ \A i \in 1..(n - k) : SubSeq(s, k + 1, n)[i] = s[k + i]
  <2>1. k + 1 \in Int /\ n \in Int
    OBVIOUS
  <2> QED
    BY <1>2, <2>1, SubSeqProperties
<1> QED
  BY <1>1, <1>3 DEF Follows

\* There is one such sequence.
LEMMA FollowsValue ==
  ASSUME NEW k \in Nat, NEW n \in Nat, NEW s, Follows(s, k, n)
  PROVE  s = [i \in 1..n |-> k + i]
<1>1. s = [i \in 1..Len(s) |-> s[i]]
  BY LenProperties DEF Follows
<1> QED
  BY <1>1 DEF Follows

LEMMA ElemsEmpty == Elems(<<>>) = {}
BY DEF Elems

LEMMA ElemsAppend ==
  ASSUME NEW s \in Seq(Nat), NEW e \in Nat
  PROVE  Elems(Append(s, e)) = Elems(s) \cup {e}
<1>1. Append(s, e) \in Seq(Nat)
  BY AppendProperties
<1>2. /\ DOMAIN Append(s, e) = 1..(Len(s) + 1) /\ DOMAIN s = 1..Len(s)
      /\ Len(s) \in Nat
      /\ \A i \in 1..Len(s) : Append(s, e)[i] = s[i]
      /\ Append(s, e)[Len(s) + 1] = e
  BY <1>1, AppendProperties, LenProperties
<1> QED
  BY <1>2 DEF Elems

LEMMA ElemsHead ==
  ASSUME NEW s \in Seq(Nat), s # <<>>
  PROVE  Elems(s) = {Head(s)} \cup Elems(Tail(s))
<1>1. /\ Tail(s) \in Seq(Nat) /\ Len(Tail(s)) = Len(s) - 1
      /\ \A i \in 1..(Len(s) - 1) : Tail(s)[i] = s[i + 1]
  BY HeadTailProperties
<1>2. Len(s) \in Nat \ {0} /\ DOMAIN s = 1..Len(s) /\ DOMAIN Tail(s) = 1..(Len(s) - 1)
  BY <1>1, EmptySeq, LenProperties
<1>3. Head(s) = s[1]
  BY <1>2
<1>4. \A i \in 1..Len(s) : i = 1 \/ (i - 1 \in 1..(Len(s) - 1) /\ s[i] = Tail(s)[i - 1])
  BY <1>1, <1>2
<1>5. \A i \in 1..(Len(s) - 1) : i + 1 \in 1..Len(s) /\ Tail(s)[i] = s[i + 1]
  BY <1>1, <1>2
<1>6. \A i \in 1..Len(s) : s[i] \in {Head(s)} \cup Elems(Tail(s))
  BY <1>2, <1>3, <1>4 DEF Elems
<1>7. Elems(Tail(s)) \subseteq Elems(s)
  BY <1>2, <1>5 DEF Elems
<1>8. Head(s) \in Elems(s)
  BY <1>2, <1>3 DEF Elems
<1>9. Elems(s) \subseteq {Head(s)} \cup Elems(Tail(s))
  BY <1>2, <1>6 DEF Elems
<1> QED
  BY <1>7, <1>8, <1>9

LEMMA ElemsConcat ==
  ASSUME NEW s \in Seq(Nat), NEW t \in Seq(Nat)
  PROVE  Elems(s \o t) = Elems(s) \cup Elems(t)
<1>1. /\ s \o t \in Seq(Nat) /\ Len(s \o t) = Len(s) + Len(t)
      /\ \A i \in 1..(Len(s) + Len(t)) : (s \o t)[i] = IF i <= Len(s) THEN s[i] ELSE t[i - Len(s)]
  BY ConcatProperties
<1>2. /\ Len(s) \in Nat /\ Len(t) \in Nat /\ DOMAIN s = 1..Len(s) /\ DOMAIN t = 1..Len(t)
      /\ DOMAIN (s \o t) = 1..(Len(s) + Len(t))
  BY <1>1, LenProperties
<1>3. \A i \in 1..Len(s) : i \in 1..(Len(s) + Len(t)) /\ (s \o t)[i] = s[i]
  BY <1>1, <1>2
<1>4. \A i \in 1..Len(t) : Len(s) + i \in 1..(Len(s) + Len(t)) /\ (s \o t)[Len(s) + i] = t[i]
  BY <1>1, <1>2
<1>5. \A i \in 1..(Len(s) + Len(t)) :
        i \in 1..Len(s) \/ (i - Len(s) \in 1..Len(t) /\ (s \o t)[i] = t[i - Len(s)])
  BY <1>1, <1>2
<1>6. \A i \in 1..(Len(s) + Len(t)) : (s \o t)[i] \in Elems(s) \cup Elems(t)
  BY <1>2, <1>3, <1>5 DEF Elems
<1>7. Elems(s) \subseteq Elems(s \o t)
  BY <1>2, <1>3 DEF Elems
<1>8. Elems(t) \subseteq Elems(s \o t)
  BY <1>2, <1>4 DEF Elems
<1> QED
  BY <1>2, <1>6, <1>7, <1>8 DEF Elems

\* Its members, as a set.
LEMMA FollowsElems ==
  ASSUME NEW k \in Nat, NEW n \in Nat, NEW s, Follows(s, k, n)
  PROVE  Elems(s) = (k + 1)..(k + n)
<1>1. DOMAIN s = 1..n /\ \A i \in 1..n : s[i] = k + i
  BY LenProperties DEF Follows
<1>2. \A x \in (k + 1)..(k + n) : x - k \in 1..n /\ x = k + (x - k)
  OBVIOUS
<1>3. \A x \in (k + 1)..(k + n) : x \in Elems(s)
  <2> SUFFICES ASSUME NEW x \in (k + 1)..(k + n)
               PROVE  x \in Elems(s)
    OBVIOUS
  <2>1. x - k \in DOMAIN s /\ x = s[x - k]
    BY <1>1, <1>2
  <2> QED
    BY <2>1 DEF Elems
<1>4. \A i \in DOMAIN s : s[i] \in (k + 1)..(k + n)
  BY <1>1
<1>5. \A x \in Elems(s) : x \in (k + 1)..(k + n)
  BY <1>4 DEF Elems
<1> QED
  BY <1>3, <1>5
=============================================================================
