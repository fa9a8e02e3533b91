-------------------------- MODULE HybridTransportProofs --------------------------
(* Proofs about HybridTransport and its uploader, for any limits, writers and *)
(* numbers of messages, and that they implement DeliveryQueue.                *)
EXTENDS HybridTransport, Integers, SequenceTheorems, WellFoundedInduction, TLAPS

-----------------------------------------------------------------------------
(* Induction over the natural numbers, for a set instead of a predicate.      *)
LEMMA NatSetInduction ==
    ASSUME NEW S, 0 \in S, \A n \in Nat : n \in S => n + 1 \in S
    PROVE  Nat \subseteq S
<1> DEFINE T == Nat \ S
           R == OpToRel(<, Nat)
<1> SUFFICES ASSUME T # {} PROVE FALSE
    OBVIOUS
<1>1. IsWellFoundedOn(R, Nat)
    BY NatLessThanWellFounded
<1>2. R = {ss \in Nat \X Nat : ss[1] < ss[2]}
    BY DEF OpToRel
<1>3. T \subseteq Nat
    OBVIOUS
<1> HIDE DEF T, R
<1>4. PICK x \in T : \A y \in T : ~ (<<y, x>> \in R)
    BY <1>1, <1>3, WFMin
<1> USE DEF T
<1>5. x # 0 /\ x - 1 \in Nat
    BY <1>4
<1>6. <<x - 1, x>> \in R
    BY <1>2, <1>5
<1> QED
    BY <1>4, <1>5, <1>6

(* The function that defines Without.                                         *)
Keep(s, seen, f, n) ==
    IF n = 0 THEN <<>>
    ELSE IF s[n] \in seen THEN f[n - 1] ELSE Append(f[n - 1], s[n])

Kept(s, seen) == CHOOSE f : f = [n \in 0..Len(s) |-> Keep(s, seen, f, n)]

LEMMA KeptIsWithout ==
    ASSUME NEW s, NEW seen
    PROVE  Without(s, seen) = Kept(s, seen)[Len(s)]
BY DEF Without, Kept, Keep

LEMMA KeptExists ==
    ASSUME NEW s \in Seq(Nat), NEW seen
    PROVE  \E f : f = [n \in 0..Len(s) |-> Keep(s, seen, f, n)]
<1> DEFINE Upto(m) == \E f : f = [n \in 0..m |-> Keep(s, seen, f, n)]
           S == {m \in Nat : Upto(m)}
<1>1. 0 \in S
    <2> DEFINE f == [n \in {0} |-> <<>>]
    <2>1. f = [n \in 0..0 |-> Keep(s, seen, f, n)]
        BY DEF Keep
    <2> QED BY <2>1
<1>2. ASSUME NEW m \in Nat, m \in S PROVE m + 1 \in S
    <2>1. PICK f : f = [n \in 0..m |-> Keep(s, seen, f, n)]
        BY <1>2
    <2> DEFINE g == [n \in 0..(m + 1) |-> IF n <= m THEN f[n] ELSE Keep(s, seen, f, m + 1)]
    <2>2. ASSUME NEW n \in 0..(m + 1) PROVE g[n] = Keep(s, seen, g, n)
        <3>1. CASE n = m + 1
            <4>1. g[n] = Keep(s, seen, f, n) /\ n # 0 /\ g[n - 1] = f[n - 1]
                BY <3>1
            <4> HIDE DEF g
            <4> QED BY <4>1 DEF Keep
        <3>2. CASE n = 0
            <4>1. g[0] = f[0]
                OBVIOUS
            <4>2. f[0] = Keep(s, seen, f, 0)
                <5>1. 0 \in 0..m
                    BY <1>2
                <5> QED BY <2>1, <5>1
            <4> HIDE DEF g
            <4> QED BY <4>1, <4>2, <3>2 DEF Keep
        <3>3. CASE n # 0 /\ n # m + 1
            <4>1. g[n] = f[n] /\ g[n - 1] = f[n - 1]
                BY <3>3
            <4>2. f[n] = Keep(s, seen, f, n)
                BY <3>3, <2>1
            <4> HIDE DEF g
            <4> QED BY <4>1, <4>2, <3>3 DEF Keep
        <3> QED BY <3>1, <3>2, <3>3
    <2>3. g = [n \in 0..(m + 1) |-> Keep(s, seen, g, n)]
        <3>1. g = [n \in 0..(m + 1) |-> g[n]]
            OBVIOUS
        <3> HIDE DEF g
        <3> QED BY <3>1, <2>2
    <2> HIDE DEF g
    <2> QED BY <2>3
<1>3. Nat \subseteq S
    <2> HIDE DEF S
    <2> QED BY <1>1, <1>2, NatSetInduction
<1> QED
    BY <1>3

LEMMA KeptDef ==
    ASSUME NEW s \in Seq(Nat), NEW seen, NEW n \in 0..Len(s)
    PROVE  Kept(s, seen)[n] = Keep(s, seen, Kept(s, seen), n)
<1> DEFINE F == Kept(s, seen)
<1>1. F = [k \in 0..Len(s) |-> Keep(s, seen, F, k)]
    BY KeptExists DEF Kept
<1> HIDE DEF F
<1> QED BY <1>1

-----------------------------------------------------------------------------
(* Increasing sequences: the order of the messages.                           *)
Increasing(s) == \A i, j \in 1..Len(s) : i < j => s[i] < s[j]

LEMMA SetOfSeq ==
    ASSUME NEW s \in Seq(Nat)
    PROVE  /\ \A x : x \in ToSet(s) <=> \E i \in 1..Len(s) : x = s[i]
           /\ ToSet(s) \subseteq Nat
           /\ DOMAIN s = 1..Len(s)
           /\ Len(s) \in Nat
           /\ \A i \in 1..Len(s) : s[i] \in Nat
BY LenProperties DEF ToSet

LEMMA ConcatSet ==
    ASSUME NEW s \in Seq(Nat), NEW t \in Seq(Nat)
    PROVE  s \o t \in Seq(Nat) /\ ToSet(s \o t) = ToSet(s) \cup ToSet(t)
<1> DEFINE u == s \o t
<1>0. /\ u \in Seq(Nat) /\ Len(u) = Len(s) + Len(t)
      /\ \A i \in 1..(Len(s) + Len(t)) : u[i] = IF i <= Len(s) THEN s[i] ELSE t[i - Len(s)]
      /\ Len(s) \in Nat /\ Len(t) \in Nat
    BY ConcatProperties, LenProperties
<1> HIDE DEF u
<1>1. ASSUME NEW x \in ToSet(u) PROVE x \in ToSet(s) \cup ToSet(t)
    <2>1. PICK i \in 1..Len(u) : x = u[i]
        BY <1>0, SetOfSeq
    <2>2. CASE i <= Len(s)
        BY <1>0, <2>1, <2>2, SetOfSeq
    <2>3. CASE i > Len(s)
        <3>1. i - Len(s) \in 1..Len(t) /\ x = t[i - Len(s)]
            BY <1>0, <2>1, <2>3
        <3> QED BY <3>1, SetOfSeq
    <2> QED BY <1>0, <2>2, <2>3
<1>2. ASSUME NEW x \in ToSet(s) PROVE x \in ToSet(u)
    <2>1. PICK i \in 1..Len(s) : x = s[i]
        BY SetOfSeq
    <2>2. i \in 1..Len(u) /\ u[i] = x
        BY <2>1, <1>0
    <2> QED BY <2>2, <1>0, SetOfSeq
<1>3. ASSUME NEW x \in ToSet(t) PROVE x \in ToSet(u)
    <2>1. PICK i \in 1..Len(t) : x = t[i]
        BY SetOfSeq
    <2>2. (i + Len(s)) - Len(s) = i /\ ~(i + Len(s) <= Len(s)) /\ i + Len(s) \in 1..Len(u)
        BY <1>0
    <2>3. u[i + Len(s)] = x
        BY <1>0, <2>1, <2>2
    <2> QED BY <2>2, <2>3, <1>0, SetOfSeq
<1>4. u \in Seq(Nat) /\ ToSet(u) = ToSet(s) \cup ToSet(t)
    BY <1>0, <1>1, <1>2, <1>3
<1> QED BY <1>4 DEF u

LEMMA ConcatIncreasing ==
    ASSUME NEW s \in Seq(Nat), NEW t \in Seq(Nat)
    PROVE  Increasing(s \o t) <=>
               /\ Increasing(s) /\ Increasing(t)
               /\ \A x \in ToSet(s), y \in ToSet(t) : x < y
<1> DEFINE u == s \o t
<1>0. /\ u \in Seq(Nat) /\ Len(u) = Len(s) + Len(t)
      /\ \A i \in 1..(Len(s) + Len(t)) : u[i] = IF i <= Len(s) THEN s[i] ELSE t[i - Len(s)]
      /\ Len(s) \in Nat /\ Len(t) \in Nat
    BY ConcatProperties, LenProperties
<1> HIDE DEF u
<1>a. \A i \in 1..Len(s) : i \in 1..Len(u) /\ u[i] = s[i]
    BY <1>0
<1>b. ASSUME NEW i \in 1..Len(t)
      PROVE  Len(s) + i \in 1..Len(u) /\ u[Len(s) + i] = t[i]
    <2>1. (Len(s) + i) - Len(s) = i /\ ~(Len(s) + i <= Len(s)) /\ Len(s) + i \in 1..Len(u)
        BY <1>0
    <2> QED BY <1>0, <2>1
<1>1. ASSUME Increasing(u) PROVE Increasing(s)
    BY <1>a, <1>1 DEF Increasing
<1>2. ASSUME Increasing(u) PROVE Increasing(t)
    <2> SUFFICES ASSUME NEW i \in 1..Len(t), NEW j \in 1..Len(t), i < j
                 PROVE  t[i] < t[j]
        BY DEF Increasing
    <2>1. Len(s) + i < Len(s) + j
        BY <1>0
    <2> QED BY <2>1, <1>b, <1>2 DEF Increasing
<1>3. ASSUME Increasing(u), NEW x \in ToSet(s), NEW y \in ToSet(t) PROVE x < y
    <2>1. PICK i \in 1..Len(s), j \in 1..Len(t) : x = s[i] /\ y = t[j]
        BY SetOfSeq
    <2>2. i < Len(s) + j
        BY <1>0
    <2> QED BY <1>a, <1>b, <1>3, <2>1, <2>2 DEF Increasing
<1>4. ASSUME Increasing(s), Increasing(t), \A x \in ToSet(s), y \in ToSet(t) : x < y
      PROVE  Increasing(u)
    <2> SUFFICES ASSUME NEW i \in 1..Len(u), NEW j \in 1..Len(u), i < j
                 PROVE  u[i] < u[j]
        BY DEF Increasing
    <2>1. CASE j <= Len(s)
        <3>1. i \in 1..Len(s) /\ j \in 1..Len(s)
            BY <1>0, <2>1
        <3> QED BY <1>a, <1>4, <3>1 DEF Increasing
    <2>2. CASE i > Len(s)
        <3>1. i - Len(s) \in 1..Len(t) /\ j - Len(s) \in 1..Len(t) /\ i - Len(s) < j - Len(s)
            BY <1>0, <2>2
        <3>2. Len(s) + (i - Len(s)) = i /\ Len(s) + (j - Len(s)) = j
            BY <1>0
        <3>3. u[i] = t[i - Len(s)] /\ u[j] = t[j - Len(s)]
            BY <1>b, <3>1, <3>2
        <3> QED BY <1>4, <3>1, <3>3 DEF Increasing
    <2>3. CASE i <= Len(s) /\ j > Len(s)
        <3>1. i \in 1..Len(s) /\ j - Len(s) \in 1..Len(t)
            BY <1>0, <2>3
        <3>2. u[i] = s[i] /\ u[j] = t[j - Len(s)]
            BY <1>0, <2>3
        <3>3. s[i] \in ToSet(s) /\ t[j - Len(s)] \in ToSet(t)
            BY <3>1, SetOfSeq
        <3> QED BY <1>4, <3>2, <3>3
    <2> QED BY <1>0, <2>1, <2>2, <2>3
<1>5. Increasing(u) <=> /\ Increasing(s) /\ Increasing(t)
                        /\ \A x \in ToSet(s), y \in ToSet(t) : x < y
    BY <1>1, <1>2, <1>3, <1>4
<1> QED BY <1>5 DEF u

LEMMA Split ==
    ASSUME NEW q \in Seq(Nat), NEW n \in 0..Len(q)
    PROVE  /\ SubSeq(q, 1, n) \in Seq(Nat) /\ Len(SubSeq(q, 1, n)) = n
           /\ SubSeq(q, n + 1, Len(q)) \in Seq(Nat)
           /\ Len(SubSeq(q, n + 1, Len(q))) = Len(q) - n
           /\ q = SubSeq(q, 1, n) \o SubSeq(q, n + 1, Len(q))
<1>1. Len(q) \in Nat /\ \A i \in 1..Len(q) : q[i] \in Nat
    BY LenProperties, ElementOfSeq
<1>2. SubSeq(q, 1, n) \in Seq(Nat) /\ Len(SubSeq(q, 1, n)) = n
    BY <1>1, SubSeqProperties
<1>3. \A i \in n + 1 .. Len(q) : q[i] \in Nat
    BY <1>1
<1>4. /\ SubSeq(q, n + 1, Len(q)) \in Seq(Nat)
      /\ Len(SubSeq(q, n + 1, Len(q))) = IF n + 1 <= Len(q) THEN Len(q) - (n + 1) + 1 ELSE 0
    BY <1>1, <1>3, SubSeqProperties
<1>l. Len(SubSeq(q, n + 1, Len(q))) = Len(q) - n
    BY <1>1, <1>4
<1>5. CASE Len(q) = 0
    <2>1. q = <<>> /\ n = 0
        BY <1>5, EmptySeq
    <2>2. SubSeq(q, 1, n) = <<>> /\ SubSeq(q, n + 1, Len(q)) = <<>>
        BY <1>5, <2>1, SubSeqEmpty
    <2>3. q = SubSeq(q, 1, n) \o SubSeq(q, n + 1, Len(q))
        BY <2>1, <2>2
    <2> QED BY <1>2, <1>4, <1>l, <2>1, <2>3
<1>6. CASE Len(q) # 0
    <2>1. 1 \in 1..(Len(q) + 1) /\ n \in (1 - 1)..Len(q) /\ Len(q) \in n..Len(q)
        BY <1>1, <1>6
    <2>2. SubSeq(q, 1, n) \o SubSeq(q, n + 1, Len(q)) = SubSeq(q, 1, Len(q))
        BY <2>1, ConcatAdjacentSubSeq
    <2>3. q = SubSeq(q, 1, n) \o SubSeq(q, n + 1, Len(q))
        BY <2>2, SubSeqFull
    <2> QED BY <1>2, <1>4, <1>l, <2>3
<1> QED BY <1>5, <1>6

(* A concatenation is taken apart again where it was put together.            *)
LEMMA Unsplit ==
    ASSUME NEW s \in Seq(Nat), NEW t \in Seq(Nat)
    PROVE  /\ SubSeq(s \o t, 1, Len(s)) = s
           /\ SubSeq(s \o t, Len(s) + 1, Len(s \o t)) = t
<1> DEFINE u == s \o t
<1>0. /\ u \in Seq(Nat) /\ Len(u) = Len(s) + Len(t)
      /\ \A i \in 1..(Len(s) + Len(t)) : u[i] = IF i <= Len(s) THEN s[i] ELSE t[i - Len(s)]
      /\ Len(s) \in Nat /\ Len(t) \in Nat
      /\ \A i \in 1..Len(u) : u[i] \in Nat
    BY ConcatProperties, LenProperties, ElementOfSeq
<1> HIDE DEF u
<1>1. SubSeq(u, 1, Len(s)) = s
    <2> DEFINE v == SubSeq(u, 1, Len(s))
    <2>1. \A i \in 1..Len(s) : u[i] \in Nat
        BY <1>0
    <2>2. v \in Seq(Nat) /\ Len(v) = Len(s) /\ \A i \in 1..(Len(s) - 1 + 1) : v[i] = u[1 + i - 1]
        BY <1>0, <2>1, SubSeqProperties
    <2> HIDE DEF v
    <2>3. \A i \in 1..Len(v) : v[i] = s[i]
        BY <1>0, <2>2
    <2>4. v = s
        BY <2>2, <2>3, SeqEqual
    <2> QED BY <2>4 DEF v
<1>2. SubSeq(u, Len(s) + 1, Len(u)) = t
    <2> DEFINE v == SubSeq(u, Len(s) + 1, Len(u))
    <2>1. \A i \in Len(s) + 1 .. Len(u) : u[i] \in Nat
        BY <1>0
    <2>2. /\ v \in Seq(Nat)
          /\ Len(v) = IF Len(s) + 1 <= Len(u) THEN Len(u) - (Len(s) + 1) + 1 ELSE 0
          /\ \A i \in 1..(Len(u) - (Len(s) + 1) + 1) : v[i] = u[Len(s) + 1 + i - 1]
        BY <1>0, <2>1, SubSeqProperties
    <2> HIDE DEF v
    <2>3. Len(v) = Len(t)
        BY <1>0, <2>2
    <2>4. ASSUME NEW i \in 1..Len(v) PROVE v[i] = t[i]
        <3>1. /\ i \in 1..(Len(u) - (Len(s) + 1) + 1)
              /\ Len(s) + 1 + i - 1 = Len(s) + i
              /\ (Len(s) + i) - Len(s) = i
              /\ Len(s) + i \in 1..(Len(s) + Len(t)) /\ ~(Len(s) + i <= Len(s))
            BY <1>0, <2>3
        <3>2. u[Len(s) + i] = t[i]
            BY <1>0, <3>1
        <3> QED BY <2>2, <3>1, <3>2
    <2>5. v = t
        BY <2>2, <2>3, <2>4, SeqEqual
    <2> QED BY <2>5 DEF v
<1> QED BY <1>1, <1>2 DEF u

(* An increasing sequence is given by its elements.                           *)
LEMMA SameIncreasing ==
    ASSUME NEW s \in Seq(Nat), NEW t \in Seq(Nat),
           Increasing(s), Increasing(t), ToSet(s) = ToSet(t)
    PROVE  s = t
<1> DEFINE Agree(n) == \A i \in 1..n : /\ (i <= Len(s) <=> i <= Len(t))
                                       /\ i <= Len(s) => s[i] = t[i]
           S == {n \in Nat : Agree(n)}
<1>0. /\ Len(s) \in Nat /\ \A i \in 1..Len(s) : s[i] \in Nat
      /\ Len(t) \in Nat /\ \A i \in 1..Len(t) : t[i] \in Nat
    BY SetOfSeq
<1>1. 0 \in S
    OBVIOUS
<1>2. ASSUME NEW n \in Nat, n \in S PROVE n + 1 \in S
    <2>0. Agree(n)
        BY <1>2
    <2>1. ASSUME n + 1 <= Len(s)
          PROVE  n + 1 <= Len(t) /\ t[n + 1] <= s[n + 1]
        <3>1. s[n + 1] \in ToSet(t)
            BY <1>0, <2>1, SetOfSeq
        <3>2. PICK j \in 1..Len(t) : t[j] = s[n + 1]
            BY <3>1, SetOfSeq
        <3>3. j > n
            <4> SUFFICES ASSUME j <= n PROVE FALSE
                BY <1>0
            <4>1. j \in 1..Len(s) /\ s[j] = t[j]
                BY <1>0, <2>0
            <4>2. n + 1 \in 1..Len(s) /\ j < n + 1
                BY <1>0, <2>1
            <4>3. s[j] < s[n + 1]
                BY <4>1, <4>2 DEF Increasing
            <4> QED BY <1>0, <3>2, <4>1, <4>2, <4>3
        <3> QED BY <1>0, <3>2, <3>3 DEF Increasing
    <2>2. ASSUME n + 1 <= Len(t)
          PROVE  n + 1 <= Len(s) /\ s[n + 1] <= t[n + 1]
        <3>1. t[n + 1] \in ToSet(s)
            BY <1>0, <2>2, SetOfSeq
        <3>2. PICK j \in 1..Len(s) : s[j] = t[n + 1]
            BY <3>1, SetOfSeq
        <3>3. j > n
            <4> SUFFICES ASSUME j <= n PROVE FALSE
                BY <1>0
            <4>1. j \in 1..Len(t) /\ s[j] = t[j]
                BY <1>0, <2>0
            <4>2. n + 1 \in 1..Len(t) /\ j < n + 1
                BY <1>0, <2>2
            <4>3. t[j] < t[n + 1]
                BY <4>1, <4>2 DEF Increasing
            <4> QED BY <1>0, <3>2, <4>1, <4>2, <4>3
        <3> QED BY <1>0, <3>2, <3>3 DEF Increasing
    <2>3. n + 1 <= Len(s) => s[n + 1] = t[n + 1]
        BY <1>0, <2>1, <2>2
    <2>4. Agree(n + 1)
        BY <1>0, <2>0, <2>1, <2>2, <2>3
    <2> QED BY <2>4
<1>3. Nat \subseteq S
    <2> HIDE DEF S
    <2> QED BY <1>1, <1>2, NatSetInduction
<1>4. Agree(Len(s)) /\ Agree(Len(t))
    BY <1>0, <1>3
<1>5. Len(s) = Len(t) /\ \A i \in 1..Len(s) : s[i] = t[i]
    BY <1>0, <1>4
<1> QED BY <1>5, SeqEqual

(* What Without returns for an increasing sequence.                           *)
LEMMA WithoutProperties ==
    ASSUME NEW s \in Seq(Nat), Increasing(s), NEW seen
    PROVE  /\ Without(s, seen) \in Seq(Nat)
           /\ ToSet(Without(s, seen)) = ToSet(s) \ seen
           /\ Increasing(Without(s, seen))
<1> DEFINE F == Kept(s, seen)
           Below(n) == {s[i] : i \in 1..n}
           Good(n) == /\ F[n] \in Seq(Nat)
                      /\ ToSet(F[n]) = Below(n) \ seen
                      /\ Increasing(F[n])
           S == {n \in Nat : n <= Len(s) => Good(n)}
<1>0. Len(s) \in Nat /\ \A i \in 1..Len(s) : s[i] \in Nat
    BY SetOfSeq
<1>a. \A n \in 0..Len(s) : F[n] = Keep(s, seen, F, n)
    BY KeptDef
<1> HIDE DEF F
<1>1. 0 \in S
    <2>1. F[0] = <<>>
        BY <1>0, <1>a DEF Keep
    <2>2. F[0] \in Seq(Nat) /\ ToSet(F[0]) = {} /\ Increasing(F[0])
        BY <2>1 DEF ToSet, Increasing
    <2>3. Below(0) = {}
        OBVIOUS
    <2> HIDE DEF Below
    <2> QED BY <2>2, <2>3
<1>2. ASSUME NEW n \in Nat, n \in S PROVE n + 1 \in S
    <2> SUFFICES ASSUME n + 1 <= Len(s) PROVE Good(n + 1)
        OBVIOUS
    <2>0. n <= Len(s) /\ s[n + 1] \in Nat
        BY <1>0
    <2>g. F[n] \in Seq(Nat) /\ ToSet(F[n]) = Below(n) \ seen /\ Increasing(F[n])
        BY <1>2, <2>0
    <2>1. F[n + 1] = IF s[n + 1] \in seen THEN F[n] ELSE Append(F[n], s[n + 1])
        <3>1. F[n + 1] = Keep(s, seen, F, n + 1)
            BY <1>0, <1>a
        <3> QED BY <3>1 DEF Keep
    <2>2. Below(n + 1) = Below(n) \cup {s[n + 1]}
        <3>1. 1..(n + 1) = 1..n \cup {n + 1}
            OBVIOUS
        <3> QED BY <3>1
    <2>b. \A x \in Below(n) : x < s[n + 1]
        BY <1>0 DEF Increasing
    <2> HIDE DEF Below
    <2>3. CASE s[n + 1] \in seen
        BY <2>g, <2>1, <2>2, <2>3
    <2>4. CASE s[n + 1] \notin seen
        <3> DEFINE one == <<s[n + 1]>>
        <3>1. F[n + 1] = F[n] \o one
            BY <2>0, <2>g, <2>1, <2>4, AppendIsConcat
        <3>2. one \in Seq(Nat) /\ ToSet(one) = {s[n + 1]} /\ Increasing(one)
            BY <2>0 DEF ToSet, Increasing
        <3>3. \A x \in ToSet(F[n]), y \in ToSet(one) : x < y
            BY <2>g, <3>2, <2>b
        <3> HIDE DEF one
        <3>4. F[n + 1] \in Seq(Nat) /\ ToSet(F[n + 1]) = ToSet(F[n]) \cup {s[n + 1]}
            BY <2>g, <3>1, <3>2, ConcatSet
        <3>5. Increasing(F[n + 1])
            BY <2>g, <3>1, <3>2, <3>3, ConcatIncreasing
        <3> QED BY <2>g, <2>2, <2>4, <3>4, <3>5
    <2> QED BY <2>3, <2>4
<1>3. Nat \subseteq S
    <2> HIDE DEF S
    <2> QED BY <1>1, <1>2, NatSetInduction
<1>4. Good(Len(s))
    <2> HIDE DEF Good
    <2> QED BY <1>0, <1>3
<1>5. Below(Len(s)) = ToSet(s)
    BY SetOfSeq DEF ToSet
<1> HIDE DEF Below
<1> QED BY <1>4, <1>5, KeptIsWithout DEF F

(* What is already delivered can be removed before or after joining.          *)
LEMMA WithoutConcat ==
    ASSUME NEW s \in Seq(Nat), NEW t \in Seq(Nat), Increasing(s \o t), NEW seen
    PROVE  Without(s \o t, seen) = Without(s, seen) \o Without(t, seen)
<1>1. Increasing(s) /\ Increasing(t) /\ \A x \in ToSet(s), y \in ToSet(t) : x < y
    BY ConcatIncreasing
<1> DEFINE a == Without(s, seen)
           b == Without(t, seen)
           c == Without(s \o t, seen)
<1>2. a \in Seq(Nat) /\ ToSet(a) = ToSet(s) \ seen /\ Increasing(a)
    BY <1>1, WithoutProperties
<1>3. b \in Seq(Nat) /\ ToSet(b) = ToSet(t) \ seen /\ Increasing(b)
    BY <1>1, WithoutProperties
<1>4. s \o t \in Seq(Nat) /\ ToSet(s \o t) = ToSet(s) \cup ToSet(t)
    BY ConcatSet
<1>5. c \in Seq(Nat) /\ ToSet(c) = ToSet(s \o t) \ seen /\ Increasing(c)
    BY <1>4, WithoutProperties
<1> HIDE DEF a, b, c
<1>6. a \o b \in Seq(Nat) /\ ToSet(a \o b) = ToSet(c)
    BY <1>2, <1>3, <1>4, <1>5, ConcatSet
<1>7. Increasing(a \o b)
    BY <1>1, <1>2, <1>3, ConcatIncreasing
<1>8. c = a \o b
    BY <1>5, <1>6, <1>7, SameIncreasing
<1> QED BY <1>8 DEF a, b, c

LEMMA WithoutSame ==
    ASSUME NEW s \in Seq(Nat), Increasing(s), NEW seen, NEW more,
           ToSet(s) \ seen = ToSet(s) \ more
    PROVE  Without(s, seen) = Without(s, more)
<1>1. /\ Without(s, seen) \in Seq(Nat) /\ Increasing(Without(s, seen))
      /\ ToSet(Without(s, seen)) = ToSet(s) \ seen
    BY WithoutProperties
<1>2. /\ Without(s, more) \in Seq(Nat) /\ Increasing(Without(s, more))
      /\ ToSet(Without(s, more)) = ToSet(s) \ more
    BY WithoutProperties
<1> QED BY <1>1, <1>2, SameIncreasing

-----------------------------------------------------------------------------
(* What the order of the messages says of a sequence of live ones and of what *)
(* the server has: both are increasing, and what the server does not have yet *)
(* comes after all it has.                                                    *)
OrderOK(live, r) ==
    /\ live \in Seq(Nat) /\ r \in Seq(Nat)
    /\ Increasing(live) /\ Increasing(r)
    /\ \A x \in ToSet(live) \ ToSet(r), y \in ToSet(r) : y < x

LEMMA OrderParts ==
    ASSUME NEW s \in Seq(Nat), NEW t \in Seq(Nat), NEW r, OrderOK(s \o t, r)
    PROVE  OrderOK(s, r) /\ OrderOK(t, r)
BY ConcatSet, ConcatIncreasing DEF OrderOK

LEMMA OrderMiddle ==
    ASSUME NEW s \in Seq(Nat), NEW t \in Seq(Nat), NEW u \in Seq(Nat), NEW r,
           OrderOK((s \o t) \o u, r)
    PROVE  OrderOK(s \o u, r) /\ OrderOK(t \o u, r)
<1>1. s \o t \in Seq(Nat) /\ ToSet(s \o t) = ToSet(s) \cup ToSet(t)
    BY ConcatSet
<1>2. /\ Increasing(s \o t) /\ Increasing(u)
      /\ \A x \in ToSet(s \o t), y \in ToSet(u) : x < y
      /\ ToSet((s \o t) \o u) = ToSet(s \o t) \cup ToSet(u)
    BY <1>1, ConcatIncreasing, ConcatSet DEF OrderOK
<1>3. Increasing(s) /\ Increasing(t)
    BY <1>2, ConcatIncreasing
<1>4. Increasing(s \o u) /\ Increasing(t \o u)
    BY <1>1, <1>2, <1>3, ConcatIncreasing
<1>5. /\ s \o u \in Seq(Nat) /\ ToSet(s \o u) = ToSet(s) \cup ToSet(u)
      /\ t \o u \in Seq(Nat) /\ ToSet(t \o u) = ToSet(t) \cup ToSet(u)
    BY ConcatSet
<1> QED BY <1>1, <1>2, <1>4, <1>5 DEF OrderOK

LEMMA OrderMore ==
    ASSUME NEW s \in Seq(Nat), NEW t \in Seq(Nat), NEW r, OrderOK(s, r), Increasing(t),
           \A x \in ToSet(s) \cup ToSet(r), y \in ToSet(t) : x < y
    PROVE  OrderOK(s \o t, r)
BY ConcatSet, ConcatIncreasing DEF OrderOK

(* The server takes the first part of the live messages.                      *)
LEMMA OrderReceived ==
    ASSUME NEW s \in Seq(Nat), NEW t \in Seq(Nat), NEW r, OrderOK(s \o t, r)
    PROVE  /\ OrderOK(s \o t, r \o Without(s, ToSet(r)))
           /\ ToSet(r \o Without(s, ToSet(r))) = ToSet(r) \cup ToSet(s)
<1> DEFINE w == Without(s, ToSet(r))
           n == r \o w
<1>1. /\ ToSet(s \o t) = ToSet(s) \cup ToSet(t)
      /\ Increasing(s) /\ Increasing(t) /\ \A x \in ToSet(s), y \in ToSet(t) : x < y
    BY ConcatSet, ConcatIncreasing DEF OrderOK
<1>2. r \in Seq(Nat) /\ Increasing(r)
    BY DEF OrderOK
<1>3. w \in Seq(Nat) /\ ToSet(w) = ToSet(s) \ ToSet(r) /\ Increasing(w)
    BY <1>1, WithoutProperties
<1> HIDE DEF w
<1>4. n \in Seq(Nat) /\ ToSet(n) = ToSet(r) \cup ToSet(s)
    BY <1>2, <1>3, ConcatSet
<1>5. \A x \in ToSet(r), y \in ToSet(w) : x < y
    BY <1>1, <1>3 DEF OrderOK
<1>6. Increasing(n)
    BY <1>2, <1>3, <1>5, ConcatIncreasing
<1>7. ASSUME NEW x \in ToSet(s \o t) \ ToSet(n), NEW y \in ToSet(n) PROVE y < x
    <2>1. x \in ToSet(t) /\ x \notin ToSet(r)
        BY <1>1, <1>4
    <2>2. CASE y \in ToSet(s)
        BY <1>1, <2>1, <2>2
    <2>3. CASE y \in ToSet(r)
        BY <1>1, <2>1, <2>3 DEF OrderOK
    <2> QED BY <1>4, <2>2, <2>3
<1>8. OrderOK(s \o t, n)
    BY <1>4, <1>6, <1>7 DEF OrderOK
<1> QED BY <1>4, <1>8 DEF w

-----------------------------------------------------------------------------
(* The inductive invariant.  Live messages are those in flight, queued or     *)
(* buffered.  QueueBound needs to know how long a batch can be, and that a    *)
(* closed uploader holds at most the one batch it was sending.                *)
LiveInOrder == OrderOK((batch \o pending) \o buffer, received)

BatchBound ==
    /\ Len(batch) <= MaxBatch
    /\ uploaderClosed => Len(pending) <= MaxBatch
    /\ uploaderClosed /\ drain = "sending" => pending = <<>>

HybridInv ==
    /\ HybridTypeOK
    /\ LiveInOrder
    /\ NothingLost
    /\ BatchBound
    /\ QueueBound

(* Concatenation of three sequences.                                          *)
LEMMA Assoc ==
    ASSUME NEW s \in Seq(Nat), NEW t \in Seq(Nat), NEW u \in Seq(Nat)
    PROVE  (s \o t) \o u = s \o (t \o u) /\ s \o t \in Seq(Nat) /\ t \o u \in Seq(Nat)
<1>1. s \o t \in Seq(Nat) /\ t \o u \in Seq(Nat)
    BY ConcatProperties
<1>2. (s \o t) \o u = s \o (t \o u)
    BY ConcatAssociative, SMTT(30)
<1> QED BY <1>1, <1>2

(* Where a message can be.                                                    *)
Places == ToSet(received) \cup settled \cup stranded \cup ToSet(batch)
              \cup ToSet(pending) \cup ToSet(buffer)

LEMMA LostPlaces == NothingLost <=> 1..offered = Places
<1>1. UNION {ToSet(received), settled, stranded, ToSet(batch), ToSet(pending), ToSet(buffer)}
          = Places
    BY DEF Places
<1> QED BY <1>1 DEF NothingLost

LEMMA LostPlacesNext == NothingLost' <=> 1..offered' = Places'
<1>1. UNION {ToSet(received'), settled', stranded', ToSet(batch'), ToSet(pending'), ToSet(buffer')}
          = Places'
    BY DEF Places
<1> QED BY <1>1 DEF NothingLost

(* One turn of the loop of _drain.                                            *)
LEMMA TakeFacts ==
    ASSUME pending \in Seq(Nat), uploaderClosed \in BOOLEAN, TakeOrEnd(pending)
    PROVE  /\ batch' \in Seq(Nat) /\ pending' \in Seq(Nat)
           /\ pending = batch' \o pending'
           /\ drain' \in {"idle", "sending"}
           /\ (batch' # <<>>) <=> (drain' = "sending")
           /\ flushing' \subseteq flushing
           /\ Len(batch') <= MaxBatch
           /\ Len(pending') <= Len(pending)
           /\ uploaderClosed => pending' = pending /\ drain' = "idle"
           /\ (~uploaderClosed /\ Len(pending) <= MaxQueue + MaxBatch)
                  => Len(pending') <= MaxQueue
<1> USE UploaderAssumption
<1>0. Len(pending) \in Nat /\ (pending = <<>> <=> Len(pending) = 0)
    BY LenProperties, EmptySeq
<1>1. CASE pending # <<>> /\ ~uploaderClosed
    <2> DEFINE n == IF Len(pending) < MaxBatch THEN Len(pending) ELSE MaxBatch
    <2>1. n \in 1..Len(pending) /\ n <= MaxBatch
        BY <1>0, <1>1
    <2>2. /\ drain' = "sending" /\ batch' = SubSeq(pending, 1, n)
          /\ pending' = SubSeq(pending, n + 1, Len(pending)) /\ flushing' = flushing
        BY <1>1 DEF TakeOrEnd
    <2>3. Len(pending) <= MaxQueue + MaxBatch => Len(pending) - n <= MaxQueue
        BY <1>0
    <2> HIDE DEF n
    <2>4. /\ batch' \in Seq(Nat) /\ Len(batch') = n
          /\ pending' \in Seq(Nat) /\ Len(pending') = Len(pending) - n
          /\ pending = batch' \o pending'
        BY <2>1, <2>2, Split
    <2>5. batch' # <<>>
        BY <2>1, <2>4, EmptySeq
    <2>6. Len(pending') <= Len(pending)
        BY <1>0, <2>1, <2>4
    <2>7. Len(pending) <= MaxQueue + MaxBatch => Len(pending') <= MaxQueue
        BY <2>3, <2>4
    <2>8. flushing' \subseteq flushing /\ drain' \in {"idle", "sending"} /\ Len(batch') <= MaxBatch
        BY <2>1, <2>2, <2>4
    <2> QED BY <1>1, <2>2, <2>4, <2>5, <2>6, <2>7, <2>8
<1>2. CASE ~(pending # <<>> /\ ~uploaderClosed)
    <2>1. drain' = "idle" /\ batch' = <<>> /\ pending' = pending
        BY <1>2 DEF TakeOrEnd
    <2>2. flushing' \subseteq flushing
        BY <1>2 DEF TakeOrEnd
    <2>3. pending = batch' \o pending' /\ batch' \in Seq(Nat) /\ Len(batch') = 0
        BY <2>1, ConcatEmptySeq, EmptySeq
    <2>4. ~uploaderClosed => Len(pending') = 0
        BY <1>0, <1>2, <2>1
    <2> QED BY <1>0, <2>1, <2>2, <2>3, <2>4
<1> QED BY <1>1, <1>2

(* enqueue(): the items go to the queue, or nowhere the model forgets.        *)
LEMMA EnqueueFacts ==
    ASSUME pending \in Seq(Nat), NEW items \in Seq(Nat), EnqueueEffect(items)
    PROVE  /\ pending' \in Seq(Nat)
           /\ pending' \in {pending, pending \o items}
           /\ settled' \cup stranded' \cup ToSet(pending')
                  = settled \cup stranded \cup ToSet(pending) \cup ToSet(items)
           /\ uploaderClosed => pending' = pending
           /\ pending' = pending \/ Len(pending') <= MaxQueue
<1>1. pending \o items \in Seq(Nat)
    BY ConcatProperties
<1>2. ToSet(pending \o items) = ToSet(pending) \cup ToSet(items)
    BY ConcatSet
<1>3. CASE uploaderClosed
    BY <1>3 DEF EnqueueEffect
<1>4. CASE ~uploaderClosed /\ HasRoom(items)
    <2>1. pending' = pending \o items /\ settled' = settled /\ stranded' = stranded
        BY <1>4 DEF EnqueueEffect
    <2>2. items = <<>> => pending' = pending
        BY <2>1, ConcatEmptySeq
    <2>3. items # <<>> => Len(pending') <= MaxQueue
        BY <1>4, <2>1, ConcatProperties DEF HasRoom
    <2> QED BY <1>1, <1>2, <1>4, <2>1, <2>2, <2>3
<1>5. CASE ~uploaderClosed /\ ~HasRoom(items)
    BY <1>5 DEF EnqueueEffect
<1> QED BY <1>3, <1>4, <1>5

(* A POST that ended: what the server has by then.                            *)
LEMMA AfterPost ==
    ASSUME HybridInv, MaybeReceived
    PROVE  /\ OrderOK((batch \o pending) \o buffer, received')
           /\ OrderOK(pending \o buffer, received')
           /\ ToSet(received') \in {ToSet(received), ToSet(received) \cup ToSet(batch)}
           /\ received' = received \o FirstReceipt(batch)
                  => ToSet(received') = ToSet(received) \cup ToSet(batch)
<1>0. batch \in Seq(Nat) /\ pending \in Seq(Nat) /\ buffer \in Seq(Nat)
    BY DEF HybridInv, HybridTypeOK, UploaderTypeOK
<1>1. (batch \o pending) \o buffer = batch \o (pending \o buffer) /\ pending \o buffer \in Seq(Nat)
    BY <1>0, Assoc
<1>2. OrderOK(batch \o (pending \o buffer), received)
    BY <1>1 DEF HybridInv, LiveInOrder
<1>3. /\ OrderOK(batch \o (pending \o buffer), received')
      /\ ToSet(received') \in {ToSet(received), ToSet(received) \cup ToSet(batch)}
    <2>1. CASE received' = received
        BY <2>1, <1>2
    <2>2. CASE received' = received \o Without(batch, ToSet(received))
        BY <2>2, <1>0, <1>1, <1>2, OrderReceived
    <2>3. received' = received \/ received' = received \o Without(batch, ToSet(received))
        BY DEF MaybeReceived, FirstReceipt
    <2> QED BY <2>1, <2>2, <2>3
<1>4. OrderOK(pending \o buffer, received')
    BY <1>0, <1>1, <1>3, OrderParts
<1>5. ASSUME received' = received \o FirstReceipt(batch)
      PROVE  ToSet(received') = ToSet(received) \cup ToSet(batch)
    <2>1. ToSet(received \o Without(batch, ToSet(received))) = ToSet(received) \cup ToSet(batch)
        BY <1>0, <1>1, <1>2, OrderReceived
    <2> QED BY <1>5, <2>1 DEF FirstReceipt
<1> QED BY <1>1, <1>3, <1>4, <1>5

LEMMA FreshFacts ==
    ASSUME offered \in Nat, NEW n \in Nat
    PROVE  LET new == [k \in 1..n |-> offered + k] IN
           /\ new \in Seq(Nat)
           /\ Increasing(new)
           /\ ToSet(new) = (offered + 1)..(offered + n)
<1> DEFINE new == [k \in 1..n |-> offered + k]
<1>1. new \in Seq(Nat) /\ Len(new) = n /\ DOMAIN new = 1..n
    OBVIOUS
<1>2. Increasing(new)
    BY <1>1 DEF Increasing
<1>3. ToSet(new) = (offered + 1)..(offered + n)
    <2>1. ASSUME NEW x \in (offered + 1)..(offered + n) PROVE x \in ToSet(new)
        <3>1. x - offered \in 1..n /\ new[x - offered] = x
            OBVIOUS
        <3> QED BY <3>1, <1>1 DEF ToSet
    <2>2. ASSUME NEW x \in ToSet(new) PROVE x \in (offered + 1)..(offered + n)
        BY <2>2, <1>1 DEF ToSet
    <2> QED BY <2>1, <2>2
<1> QED BY <1>1, <1>2, <1>3

(* enqueue(buffered + new) while nothing else happens to the queue.           *)
LEMMA EnqueueKeeps ==
    ASSUME HybridInv, NEW new \in Seq(Nat), Increasing(new),
           offered' \in Nat, ToSet(new) = (offered + 1)..offered', offered <= offered',
           EnqueueEffect(buffer \o new), buffer' = <<>>,
           UNCHANGED <<uploaderClosed, drain, batch, received>>
    PROVE  /\ pending' \in Seq(Nat)
           /\ LiveInOrder' /\ NothingLost' /\ BatchBound' /\ QueueBound'
<1>0. /\ batch \in Seq(Nat) /\ pending \in Seq(Nat) /\ buffer \in Seq(Nat)
      /\ received \in Seq(Nat) /\ offered \in Nat
    BY HybridAssumption DEF HybridInv, HybridTypeOK, UploaderTypeOK
<1>1. buffer \o new \in Seq(Nat) /\ ToSet(buffer \o new) = ToSet(buffer) \cup ToSet(new)
    BY <1>0, ConcatSet
<1>2. /\ pending' \in Seq(Nat)
      /\ pending' \in {pending, pending \o (buffer \o new)}
      /\ settled' \cup stranded' \cup ToSet(pending')
             = settled \cup stranded \cup ToSet(pending) \cup ToSet(buffer) \cup ToSet(new)
      /\ uploaderClosed => pending' = pending
      /\ pending' = pending \/ Len(pending') <= MaxQueue
    BY <1>0, <1>1, EnqueueFacts
<1>3. 1..offered = Places
    BY LostPlaces DEF HybridInv
<1>4. LiveInOrder'
    <2>1. batch \o pending \in Seq(Nat) /\ batch \o pending' \in Seq(Nat)
        BY <1>0, <1>2, ConcatProperties
    <2>2. OrderOK((batch \o pending) \o buffer, received)
        BY DEF HybridInv, LiveInOrder
    <2>3. (batch' \o pending') \o buffer' = batch \o pending'
        BY <2>1, ConcatEmptySeq
    <2>4. CASE pending' = pending
        <3>1. OrderOK(batch \o pending, received)
            BY <1>0, <2>1, <2>2, OrderParts
        <3> QED BY <2>3, <2>4, <3>1 DEF LiveInOrder
    <2>5. CASE pending' = pending \o (buffer \o new)
        <3>1. (batch \o pending) \o buffer \in Seq(Nat)
            BY <1>0, <2>1, ConcatProperties
        <3>2. (batch \o pending) \o (buffer \o new) = batch \o (pending \o (buffer \o new))
            <4> DEFINE bn == buffer \o new
            <4>1. bn \in Seq(Nat)
                BY <1>1
            <4> HIDE DEF bn
            <4>2. batch \in Seq(Nat) /\ pending \in Seq(Nat)
                BY <1>0
            <4>3. (batch \o pending) \o bn = batch \o (pending \o bn)
                BY <4>1, <4>2, Assoc, SMTT(30)
            <4> QED BY <4>3 DEF bn
        <3>3. ((batch \o pending) \o buffer) \o new = (batch \o pending) \o (buffer \o new)
            <4> DEFINE bp == batch \o pending
            <4>1. bp \in Seq(Nat)
                BY <2>1
            <4> HIDE DEF bp
            <4>2. buffer \in Seq(Nat) /\ new \in Seq(Nat)
                BY <1>0
            <4>3. (bp \o buffer) \o new = bp \o (buffer \o new)
                BY <4>1, <4>2, Assoc, SMTT(30)
            <4> QED BY <4>3 DEF bp
        <3>4. ToSet((batch \o pending) \o buffer) = ToSet(batch) \cup ToSet(pending) \cup ToSet(buffer)
            <4>1. ToSet(batch \o pending) = ToSet(batch) \cup ToSet(pending)
                BY <1>0, ConcatSet
            <4>2. ToSet((batch \o pending) \o buffer) = ToSet(batch \o pending) \cup ToSet(buffer)
                BY <1>0, <2>1, ConcatSet
            <4> QED BY <4>1, <4>2
        <3>5. \A x \in ToSet((batch \o pending) \o buffer) \cup ToSet(received) : x \in 1..offered
            BY <1>3, <3>4 DEF Places
        <3>6. \A x \in ToSet((batch \o pending) \o buffer) \cup ToSet(received), y \in ToSet(new) : x < y
            BY <1>0, <3>5
        <3>7. OrderOK(((batch \o pending) \o buffer) \o new, received)
            BY <2>2, <3>1, <3>6, OrderMore
        <3>8. (batch' \o pending') \o buffer' = ((batch \o pending) \o buffer) \o new
            BY <2>3, <2>5, <3>2, <3>3
        <3> QED BY <3>7, <3>8 DEF LiveInOrder
    <2> QED BY <1>2, <2>4, <2>5
<1>5. NothingLost'
    <2>1. ToSet(buffer') = {}
        BY EmptySeq DEF ToSet
    <2>2. Places' = Places \cup ToSet(new)
        BY <1>2, <2>1 DEF Places
    <2>3. 1..offered' = 1..offered \cup ((offered + 1)..offered')
        BY <1>0
    <2> QED BY <1>3, <2>2, <2>3, LostPlacesNext
<1>6. BatchBound'
    BY <1>2 DEF HybridInv, BatchBound
<1>7. QueueBound'
    <2>1. Len(pending) \in Nat /\ Len(pending') \in Nat
        BY <1>0, <1>2, LenProperties
    <2> QED BY <1>2, <2>1, UploaderAssumption DEF HybridInv, QueueBound
<1> QED BY <1>2, <1>4, <1>5, <1>6, <1>7

(* One turn of the loop of _drain after a POST or a pause.                    *)
LEMMA TakeKeeps ==
    ASSUME HybridInv, TakeOrEnd(pending), received' \in Seq(Nat),
           UNCHANGED <<uploaderClosed, buffer, offered>>,
           OrderOK(pending \o buffer, received'),
           ToSet(received') \cup settled' \cup stranded'
               = ToSet(received) \cup settled \cup stranded \cup ToSet(batch)
    PROVE  /\ batch' \in Seq(Nat) /\ pending' \in Seq(Nat)
           /\ drain' \in {"idle", "sending"} /\ ((batch' # <<>>) <=> (drain' = "sending"))
           /\ flushing' \subseteq Flushers
           /\ LiveInOrder' /\ NothingLost' /\ BatchBound' /\ QueueBound'
<1>0. /\ pending \in Seq(Nat) /\ uploaderClosed \in BOOLEAN /\ flushing \subseteq Flushers
    BY DEF HybridInv, HybridTypeOK, UploaderTypeOK
<1>1. /\ batch' \in Seq(Nat) /\ pending' \in Seq(Nat)
      /\ pending = batch' \o pending'
      /\ drain' \in {"idle", "sending"}
      /\ (batch' # <<>>) <=> (drain' = "sending")
      /\ flushing' \subseteq flushing
      /\ Len(batch') <= MaxBatch
      /\ uploaderClosed => pending' = pending /\ drain' = "idle"
      /\ (~uploaderClosed /\ Len(pending) <= MaxQueue + MaxBatch)
             => Len(pending') <= MaxQueue
    BY <1>0, TakeFacts
<1>2. Len(pending) \in Nat /\ Len(pending') \in Nat
    BY <1>0, <1>1, LenProperties
<1>3. LiveInOrder'
    <2>1. (batch' \o pending') \o buffer' = pending \o buffer
        BY <1>1
    <2> QED BY <2>1 DEF LiveInOrder
<1>4. NothingLost'
    <2>1. ToSet(pending) = ToSet(batch') \cup ToSet(pending')
        BY <1>1, ConcatSet
    <2>2. Places' = Places
        BY <2>1 DEF Places
    <2> QED BY <2>2, LostPlaces, LostPlacesNext DEF HybridInv
<1>5. BatchBound'
    BY <1>1 DEF HybridInv, BatchBound
<1>6. Len(pending) <= MaxQueue + MaxBatch
    BY <1>2, UploaderAssumption DEF HybridInv, QueueBound
<1>7. uploaderClosed => Len(pending) <= MaxQueue
    BY <1>2, UploaderAssumption, HybridAssumption DEF HybridInv, BatchBound
<1>8. QueueBound'
    BY <1>1, <1>2, <1>6, <1>7 DEF QueueBound
<1> QED BY <1>0, <1>1, <1>3, <1>4, <1>5, <1>8

(* close() of the uploader.                                                   *)
LEMMA CloseKeeps ==
    ASSUME HybridInv, CloseUploader, UNCHANGED <<buffer, offered>>
    PROVE  /\ pending' \in Seq(Nat) /\ flushing' \subseteq Flushers
           /\ LiveInOrder' /\ NothingLost' /\ BatchBound' /\ QueueBound'
<1>0. /\ batch \in Seq(Nat) /\ pending \in Seq(Nat) /\ buffer \in Seq(Nat)
      /\ flushing \subseteq Flushers
    BY DEF HybridInv, HybridTypeOK, UploaderTypeOK
<1>1. CASE uploaderClosed
    <2>1. UNCHANGED <<batch, pending, received, settled, stranded, drain, flushing,
                      uploaderClosed, buffer, offered>>
        BY <1>1 DEF CloseUploader
    <2>2. Places' = Places
        BY <2>1 DEF Places
    <2>3. NothingLost'
        BY <2>1, <2>2, LostPlaces, LostPlacesNext DEF HybridInv
    <2>4. LiveInOrder' /\ BatchBound' /\ QueueBound'
        BY <2>1 DEF HybridInv, LiveInOrder, BatchBound, QueueBound
    <2> QED BY <1>0, <2>1, <2>3, <2>4
<1>2. CASE ~uploaderClosed
    <2>1. /\ pending' = <<>> /\ flushing' = {} /\ settled' = settled \cup ToSet(pending)
          /\ UNCHANGED <<batch, received, stranded, drain, buffer, offered>>
        BY <1>2 DEF CloseUploader
    <2>2. pending' \in Seq(Nat) /\ Len(pending') = 0 /\ ToSet(pending') = {}
        BY <2>1, EmptySeq DEF ToSet
    <2>3. LiveInOrder'
        <3>1. OrderOK(batch \o buffer, received)
            BY <1>0, OrderMiddle DEF HybridInv, LiveInOrder
        <3>2. (batch' \o pending') \o buffer' = batch \o buffer
            BY <1>0, <2>1, ConcatEmptySeq
        <3> QED BY <2>1, <3>1, <3>2 DEF LiveInOrder
    <2>4. Places' = Places
        BY <2>1, <2>2 DEF Places
    <2>5. NothingLost'
        BY <2>1, <2>4, LostPlaces, LostPlacesNext DEF HybridInv
    <2>6. BatchBound' /\ QueueBound'
        BY <2>1, <2>2, UploaderAssumption DEF HybridInv, BatchBound, QueueBound
    <2> QED BY <2>1, <2>2, <2>3, <2>5, <2>6
<1> QED BY <1>1, <1>2

LEMMA OfferKeeps ==
    ASSUME HybridInv, NEW w \in Writers, NEW new \in Seq(Nat), Increasing(new),
           offered' \in offered..MaxItems, ToSet(new) = (offered + 1)..offered',
           Offer(w, buffer \o new)
    PROVE  HybridInv'
<1>0. offered \in Nat /\ offered' \in 0..MaxItems /\ offered' \in Nat /\ offered <= offered'
    BY HybridAssumption DEF HybridInv, HybridTypeOK
<1>1. /\ EnqueueEffect(buffer \o new) /\ buffer' = <<>> /\ timer' = FALSE
      /\ UNCHANGED <<uploaderClosed, drain, batch, failures, received, grace>>
    BY DEF Offer
<1>2. /\ pending' \in Seq(Nat)
      /\ LiveInOrder' /\ NothingLost' /\ BatchBound' /\ QueueBound'
    BY <1>0, <1>1, EnqueueKeeps
<1>3. UploaderTypeOK /\ kicked \in BOOLEAN /\ flushing \subseteq Flushers /\ blocked \subseteq Writers
    BY DEF HybridInv, HybridTypeOK, UploaderTypeOK
<1>4. /\ blocked' \subseteq Writers /\ flushing' \subseteq Flushers /\ kicked' \in BOOLEAN
    <2>1. CASE MayWait(buffer \o new)
        BY <1>3, <2>1 DEF Offer
    <2>2. CASE ~MayWait(buffer \o new)
        BY <1>3, <2>2, HybridAssumption DEF Offer
    <2> QED BY <2>1, <2>2
<1>5. UploaderTypeOK'
    BY <1>1, <1>2, <1>3, <1>4 DEF UploaderTypeOK
<1>6. buffer' \in Seq(Nat)
    BY <1>1, EmptySeq
<1>7. HybridTypeOK'
    BY <1>0, <1>1, <1>4, <1>5, <1>6 DEF HybridInv, HybridTypeOK
<1> QED BY <1>2, <1>7 DEF HybridInv

-----------------------------------------------------------------------------
LEMMA HybridStart == HybridInit => HybridInv
<1> SUFFICES ASSUME HybridInit PROVE HybridInv
    OBVIOUS
<1>0. /\ <<>> \in Seq(Nat) /\ Len(<<>>) = 0 /\ ToSet(<<>>) = {}
      /\ (<<>> \o <<>>) \o <<>> = <<>>
    BY EmptySeq, ConcatEmptySeq DEF ToSet
<1>1. HybridTypeOK
    <2>1. {uploaderClosed, kicked} \subseteq BOOLEAN /\ flushing \subseteq Flushers
        BY DEF HybridInit, UploaderInit
    <2>2. UploaderTypeOK
        BY <1>0, <2>1 DEF HybridInit, UploaderInit, UploaderTypeOK
    <2>3. offered \in 0..MaxItems
        BY HybridAssumption DEF HybridInit
    <2> QED BY <1>0, <2>2, <2>3 DEF HybridInit, HybridTypeOK
<1>2. LiveInOrder
    <2>1. Increasing(<<>>)
        BY <1>0 DEF Increasing
    <2>2. OrderOK(<<>>, <<>>)
        BY <1>0, <2>1 DEF OrderOK
    <2> QED BY <1>0, <2>2 DEF HybridInit, UploaderInit, LiveInOrder
<1>3. NothingLost
    BY <1>0 DEF HybridInit, UploaderInit, NothingLost
<1>4. BatchBound /\ QueueBound
    BY <1>0, UploaderAssumption DEF HybridInit, UploaderInit, BatchBound, QueueBound
<1> QED BY <1>1, <1>2, <1>3, <1>4 DEF HybridInv

LEMMA WriteStreamEventKeeps ==
    ASSUME HybridInv, NEW w \in Writers, WriteStreamEvent(w)
    PROVE  HybridInv'
<1> DEFINE new == <<offered + 1>>
<1>0. /\ batch \in Seq(Nat) /\ pending \in Seq(Nat) /\ buffer \in Seq(Nat)
      /\ received \in Seq(Nat) /\ offered \in Nat /\ MaxItems \in Nat
    BY HybridAssumption DEF HybridInv, HybridTypeOK, UploaderTypeOK
<1>1. /\ offered' = offered + 1 /\ offered < MaxItems
      /\ timer' = TRUE /\ buffer' = Append(buffer, offered + 1)
      /\ UNCHANGED <<uploaderVars, grace, blocked>>
    BY DEF WriteStreamEvent
<1>2. /\ new \in Seq(Nat) /\ Len(new) = 1 /\ new[1] = offered + 1
      /\ buffer' = buffer \o new /\ buffer' \in Seq(Nat)
    BY <1>0, <1>1, AppendIsConcat
<1>3. Increasing(new) /\ ToSet(new) = {offered + 1}
    BY <1>0, <1>2 DEF Increasing, ToSet
<1> HIDE DEF new
<1>4. ToSet(buffer') = ToSet(buffer) \cup {offered + 1}
    BY <1>0, <1>2, <1>3, ConcatSet
<1>5. 1..offered = Places
    BY LostPlaces DEF HybridInv
<1>6. HybridTypeOK'
    BY <1>0, <1>1, <1>2 DEF HybridInv, HybridTypeOK, UploaderTypeOK, uploaderVars
<1>7. NothingLost'
    <2>1. Places' = Places \cup {offered + 1}
        BY <1>1, <1>4 DEF Places, uploaderVars
    <2>2. 1..offered' = 1..offered \cup {offered + 1}
        BY <1>0, <1>1
    <2> QED BY <1>5, <2>1, <2>2, LostPlacesNext
<1>8. LiveInOrder'
    <2> DEFINE bp == batch \o pending
    <2>1. bp \in Seq(Nat) /\ ToSet(bp) = ToSet(batch) \cup ToSet(pending)
        BY <1>0, ConcatSet
    <2>2. OrderOK(bp \o buffer, received)
        BY DEF HybridInv, LiveInOrder
    <2>3. (batch' \o pending') \o buffer' = bp \o buffer'
        BY <1>1 DEF uploaderVars
    <2> HIDE DEF bp
    <2>4. bp \o buffer' = (bp \o buffer) \o new
        <3>1. buffer \in Seq(Nat)
            BY <1>0
        <3>2. (bp \o buffer) \o new = bp \o (buffer \o new)
            BY <1>2, <2>1, <3>1, Assoc, SMTT(30)
        <3> QED BY <1>2, <3>2
    <2>5. bp \o buffer \in Seq(Nat) /\ ToSet(bp \o buffer) = ToSet(bp) \cup ToSet(buffer)
        BY <1>0, <2>1, ConcatSet
    <2>6. \A x \in ToSet(bp \o buffer) \cup ToSet(received), y \in ToSet(new) : x < y
        BY <1>0, <1>3, <1>5, <2>1, <2>5 DEF Places
    <2>7. OrderOK((bp \o buffer) \o new, received)
        BY <1>2, <1>3, <2>2, <2>5, <2>6, OrderMore
    <2> QED BY <1>1, <2>3, <2>4, <2>7 DEF LiveInOrder, uploaderVars
<1>9. BatchBound' /\ QueueBound'
    BY <1>1 DEF HybridInv, BatchBound, QueueBound, uploaderVars
<1> QED BY <1>6, <1>7, <1>8, <1>9 DEF HybridInv

LEMMA WriteMessagesKeeps ==
    ASSUME HybridInv, NEW w \in Writers, NEW n \in Nat, WriteMessages(w, n)
    PROVE  HybridInv'
<1> DEFINE new == [k \in 1..n |-> offered + k]
<1>0. offered \in Nat /\ MaxItems \in Nat
    BY HybridAssumption DEF HybridInv, HybridTypeOK
<1>1. offered' = offered + n /\ offered + n <= MaxItems /\ Offer(w, buffer \o new)
    BY DEF WriteMessages
<1>2. new \in Seq(Nat) /\ Increasing(new) /\ ToSet(new) = (offered + 1)..(offered + n)
    BY <1>0, FreshFacts
<1>3. offered' \in offered..MaxItems
    BY <1>0, <1>1
<1> HIDE DEF new
<1> QED BY <1>1, <1>2, <1>3, OfferKeeps

LEMMA FlushTransportKeeps ==
    ASSUME HybridInv, NEW w \in Writers, FlushTransport(w)
    PROVE  HybridInv'
<1>0. offered \in 0..MaxItems /\ MaxItems \in Nat /\ buffer \in Seq(Nat)
    BY HybridAssumption DEF HybridInv, HybridTypeOK
<1>1. offered' = offered /\ Offer(w, buffer)
    BY DEF FlushTransport
<1>2. /\ <<>> \in Seq(Nat) /\ Increasing(<<>>) /\ ToSet(<<>>) = {}
      /\ buffer \o <<>> = buffer
    BY <1>0, EmptySeq, ConcatEmptySeq DEF ToSet, Increasing
<1>3. Offer(w, buffer \o <<>>)
    BY <1>1, <1>2
<1>4. offered' \in offered..MaxItems /\ (offered + 1)..offered' = {}
    BY <1>0, <1>1
<1> QED BY <1>2, <1>3, <1>4, OfferKeeps

LEMMA TimerFiresKeeps ==
    ASSUME HybridInv, TimerFires
    PROVE  HybridInv'
<1>0. offered \in 0..MaxItems /\ MaxItems \in Nat /\ buffer \in Seq(Nat)
    BY HybridAssumption DEF HybridInv, HybridTypeOK
<1>1. /\ timer' = FALSE /\ buffer' = <<>> /\ EnqueueEffect(buffer)
      /\ kicked' = (kicked \/ (~uploaderClosed /\ HasRoom(buffer)))
      /\ UNCHANGED <<uploaderClosed, drain, batch, failures, flushing, received,
                     grace, blocked, offered>>
    BY DEF TimerFires
<1>2. /\ <<>> \in Seq(Nat) /\ Increasing(<<>>) /\ ToSet(<<>>) = {}
      /\ buffer \o <<>> = buffer
    BY <1>0, EmptySeq, ConcatEmptySeq DEF ToSet, Increasing
<1>3. EnqueueEffect(buffer \o <<>>)
    BY <1>1, <1>2
<1>4. offered' \in Nat /\ offered <= offered' /\ (offered + 1)..offered' = {}
    BY <1>0, <1>1
<1>5. /\ pending' \in Seq(Nat)
      /\ LiveInOrder' /\ NothingLost' /\ BatchBound' /\ QueueBound'
    BY <1>1, <1>2, <1>3, <1>4, EnqueueKeeps
<1>6. UploaderTypeOK /\ timer \in BOOLEAN /\ grace \in {"none", "scheduled", "waiting", "over"}
      /\ blocked \subseteq Writers
    BY DEF HybridInv, HybridTypeOK
<1>7. kicked' \in BOOLEAN
    BY <1>1, <1>6 DEF UploaderTypeOK
<1>8. UploaderTypeOK'
    BY <1>1, <1>5, <1>6, <1>7 DEF UploaderTypeOK
<1>9. HybridTypeOK'
    BY <1>0, <1>1, <1>2, <1>6, <1>8 DEF HybridTypeOK
<1> QED BY <1>5, <1>9 DEF HybridInv

LEMMA CloseTransportKeeps ==
    ASSUME HybridInv, CloseTransport
    PROVE  HybridInv'
<1>0. /\ batch \in Seq(Nat) /\ pending \in Seq(Nat) /\ buffer \in Seq(Nat)
    BY DEF HybridInv, HybridTypeOK, UploaderTypeOK
<1>1. /\ grace' = "scheduled" /\ buffer' = <<>> /\ timer' = FALSE
      /\ settled' = settled \cup ToSet(buffer)
      /\ UNCHANGED <<pending, uploaderClosed, drain, kicked, batch, failures,
                     flushing, stranded, received, blocked, offered>>
    BY DEF CloseTransport
<1>2. buffer' \in Seq(Nat) /\ ToSet(buffer') = {}
    BY <1>1, EmptySeq DEF ToSet
<1>3. HybridTypeOK'
    BY <1>1, <1>2 DEF HybridInv, HybridTypeOK, UploaderTypeOK
<1>4. NothingLost'
    <2>1. Places' = Places
        BY <1>1, <1>2 DEF Places
    <2> QED BY <1>1, <2>1, LostPlaces, LostPlacesNext DEF HybridInv
<1>5. LiveInOrder'
    <2>1. batch \o pending \in Seq(Nat)
        BY <1>0, ConcatProperties
    <2>2. OrderOK(batch \o pending, received)
        BY <1>0, <2>1, OrderParts DEF HybridInv, LiveInOrder
    <2>3. (batch' \o pending') \o buffer' = batch \o pending
        BY <1>1, <2>1, ConcatEmptySeq
    <2> QED BY <1>1, <2>2, <2>3 DEF LiveInOrder
<1>6. BatchBound' /\ QueueBound'
    BY <1>1 DEF HybridInv, BatchBound, QueueBound
<1> QED BY <1>3, <1>4, <1>5, <1>6 DEF HybridInv

LEMMA GraceStartsKeeps ==
    ASSUME HybridInv, GraceStarts
    PROVE  HybridInv'
<1>0. HybridTypeOK /\ UploaderTypeOK
    BY DEF HybridInv, HybridTypeOK
<1>1. UNCHANGED <<buffer, timer, blocked, offered>>
    BY DEF GraceStarts
<1>2. CASE grace' = "waiting" /\ Flush(Grace)
    <2>1. UNCHANGED <<pending, uploaderClosed, drain, batch, failures,
                      failureLimit, stranded, received, settled>>
        BY <1>2 DEF Flush
    <2>2. flushing' \subseteq Flushers /\ kicked' \in BOOLEAN
        BY <1>0, <1>2, HybridAssumption DEF Flush, UploaderTypeOK, FlushWaits
    <2>3. HybridTypeOK'
        BY <1>0, <1>1, <1>2, <2>1, <2>2 DEF HybridTypeOK, UploaderTypeOK
    <2>4. NothingLost'
        <3>1. Places' = Places
            BY <1>1, <2>1 DEF Places
        <3> QED BY <1>1, <3>1, LostPlaces, LostPlacesNext DEF HybridInv
    <2>5. LiveInOrder' /\ BatchBound' /\ QueueBound'
        BY <1>1, <2>1 DEF HybridInv, LiveInOrder, BatchBound, QueueBound
    <2> QED BY <2>3, <2>4, <2>5 DEF HybridInv
<1>3. CASE grace' = "over" /\ CloseUploader
    <2>1. /\ pending' \in Seq(Nat) /\ flushing' \subseteq Flushers
          /\ LiveInOrder' /\ NothingLost' /\ BatchBound' /\ QueueBound'
        BY <1>1, <1>3, CloseKeeps
    <2>2. HybridTypeOK'
        BY <1>0, <1>1, <1>3, <2>1 DEF CloseUploader, HybridTypeOK, UploaderTypeOK
    <2> QED BY <2>1, <2>2 DEF HybridInv
<1> QED BY <1>2, <1>3 DEF GraceStarts

LEMMA GraceEndsKeeps ==
    ASSUME HybridInv, GraceEnds
    PROVE  HybridInv'
<1>0. HybridTypeOK /\ UploaderTypeOK
    BY DEF HybridInv, HybridTypeOK
<1>1. grace' = "over" /\ CloseUploader /\ UNCHANGED <<buffer, timer, blocked, offered>>
    BY DEF GraceEnds
<1>2. /\ pending' \in Seq(Nat) /\ flushing' \subseteq Flushers
      /\ LiveInOrder' /\ NothingLost' /\ BatchBound' /\ QueueBound'
    BY <1>1, CloseKeeps
<1>3. HybridTypeOK'
    BY <1>0, <1>1, <1>2 DEF CloseUploader, HybridTypeOK, UploaderTypeOK
<1> QED BY <1>2, <1>3 DEF HybridInv

-----------------------------------------------------------------------------
(* The steps of the _drain task.                                              *)
LEMMA TypeAfterTake ==
    ASSUME HybridTypeOK,
           batch' \in Seq(Nat), pending' \in Seq(Nat), received' \in Seq(Nat),
           drain' \in {"idle", "sending"}, (batch' # <<>>) <=> (drain' = "sending"),
           flushing' \subseteq Flushers, failures' \in Nat, kicked' \in BOOLEAN,
           UNCHANGED <<uploaderClosed, hybridVars>>
    PROVE  HybridTypeOK'
<1>1. UploaderTypeOK'
    BY DEF HybridTypeOK, UploaderTypeOK
<1> QED BY <1>1 DEF HybridTypeOK, hybridVars

LEMMA StartDrainKeeps ==
    ASSUME HybridInv, StartDrain, UNCHANGED hybridVars
    PROVE  HybridInv'
<1>0. HybridTypeOK /\ UploaderTypeOK /\ kicked' = FALSE
    BY DEF HybridInv, HybridTypeOK, StartDrain
<1>1. /\ UNCHANGED <<uploaderClosed, stranded, received, settled>>
      /\ UNCHANGED <<buffer, offered, timer, grace, blocked>>
    BY DEF StartDrain, hybridVars
<1>2. CASE UNCHANGED <<drain, batch, pending, flushing, failures>>
    <2>1. HybridTypeOK'
        BY <1>0, <1>1, <1>2 DEF HybridTypeOK, UploaderTypeOK
    <2>2. NothingLost'
        <3>1. Places' = Places
            BY <1>1, <1>2 DEF Places
        <3> QED BY <1>1, <3>1, LostPlaces, LostPlacesNext DEF HybridInv
    <2>3. LiveInOrder' /\ BatchBound' /\ QueueBound'
        BY <1>1, <1>2 DEF HybridInv, LiveInOrder, BatchBound, QueueBound
    <2> QED BY <2>1, <2>2, <2>3 DEF HybridInv
<1>3. CASE drain = "idle" /\ TakeOrEnd(pending) /\ failures' = 0
    <2>0. batch = <<>> /\ ToSet(batch) = {}
        BY <1>0, <1>3, EmptySeq DEF UploaderTypeOK, ToSet
    <2>1. OrderOK(pending \o buffer, received')
        BY <1>0, <1>1, OrderMiddle DEF HybridInv, LiveInOrder, UploaderTypeOK, HybridTypeOK
    <2>2. ToSet(received') \cup settled' \cup stranded'
              = ToSet(received) \cup settled \cup stranded \cup ToSet(batch)
        BY <1>1, <2>0
    <2>3. received' \in Seq(Nat)
        BY <1>0, <1>1 DEF UploaderTypeOK
    <2>4. /\ batch' \in Seq(Nat) /\ pending' \in Seq(Nat)
          /\ drain' \in {"idle", "sending"} /\ ((batch' # <<>>) <=> (drain' = "sending"))
          /\ flushing' \subseteq Flushers
          /\ LiveInOrder' /\ NothingLost' /\ BatchBound' /\ QueueBound'
        BY <1>1, <1>3, <2>1, <2>2, <2>3, TakeKeeps
    <2>5. HybridTypeOK'
        BY <1>0, <1>1, <1>3, <2>3, <2>4, TypeAfterTake
    <2> QED BY <2>4, <2>5 DEF HybridInv
<1> QED BY <1>2, <1>3 DEF StartDrain

LEMMA WakeKeeps ==
    ASSUME HybridInv, Wake, UNCHANGED hybridVars
    PROVE  HybridInv'
<1>0. HybridTypeOK /\ UploaderTypeOK
    BY DEF HybridInv, HybridTypeOK
<1>1. /\ drain = "sleeping" /\ TakeOrEnd(pending)
      /\ UNCHANGED <<kicked, uploaderClosed, failures, stranded, received, settled>>
      /\ UNCHANGED <<buffer, offered>>
    BY DEF Wake, hybridVars
<1>2. batch = <<>> /\ ToSet(batch) = {}
    BY <1>0, <1>1, EmptySeq DEF UploaderTypeOK, ToSet
<1>3. OrderOK(pending \o buffer, received')
    BY <1>0, <1>1, OrderMiddle DEF HybridInv, LiveInOrder, UploaderTypeOK, HybridTypeOK
<1>4. ToSet(received') \cup settled' \cup stranded'
          = ToSet(received) \cup settled \cup stranded \cup ToSet(batch)
    BY <1>1, <1>2
<1>5. received' \in Seq(Nat) /\ failures' \in Nat /\ kicked' \in BOOLEAN
    BY <1>0, <1>1 DEF UploaderTypeOK
<1>6. /\ batch' \in Seq(Nat) /\ pending' \in Seq(Nat)
      /\ drain' \in {"idle", "sending"} /\ ((batch' # <<>>) <=> (drain' = "sending"))
      /\ flushing' \subseteq Flushers
      /\ LiveInOrder' /\ NothingLost' /\ BatchBound' /\ QueueBound'
    BY <1>1, <1>3, <1>4, <1>5, TakeKeeps
<1>7. HybridTypeOK'
    BY <1>0, <1>1, <1>5, <1>6, TypeAfterTake
<1> QED BY <1>6, <1>7 DEF HybridInv

(* A POST whose batch does not come back: the server has it, it is settled,   *)
(* or both.                                                                   *)
LEMMA BatchDoneKeeps ==
    ASSUME HybridInv, TakeOrEnd(pending), MaybeReceived, failures' = 0,
           \/ settled' = settled \cup ToSet(batch)
           \/ settled' = settled /\ received' = received \o FirstReceipt(batch),
           UNCHANGED <<kicked, uploaderClosed, stranded, hybridVars>>
    PROVE  HybridInv'
<1>0. HybridTypeOK /\ UploaderTypeOK
    BY DEF HybridInv, HybridTypeOK
<1>1. UNCHANGED <<buffer, offered>>
    BY DEF hybridVars
<1>2. /\ OrderOK((batch \o pending) \o buffer, received')
      /\ OrderOK(pending \o buffer, received')
      /\ ToSet(received') \in {ToSet(received), ToSet(received) \cup ToSet(batch)}
      /\ received' = received \o FirstReceipt(batch)
             => ToSet(received') = ToSet(received) \cup ToSet(batch)
    BY AfterPost
<1>3. received' \in Seq(Nat)
    BY <1>2 DEF OrderOK
<1>4. ToSet(received') \cup settled' \cup stranded'
          = ToSet(received) \cup settled \cup stranded \cup ToSet(batch)
    BY <1>2
<1>5. /\ batch' \in Seq(Nat) /\ pending' \in Seq(Nat)
      /\ drain' \in {"idle", "sending"} /\ ((batch' # <<>>) <=> (drain' = "sending"))
      /\ flushing' \subseteq Flushers
      /\ LiveInOrder' /\ NothingLost' /\ BatchBound' /\ QueueBound'
    BY <1>1, <1>2, <1>3, <1>4, TakeKeeps
<1>6. failures' \in Nat /\ kicked' \in BOOLEAN
    BY <1>0 DEF UploaderTypeOK
<1>7. HybridTypeOK'
    BY <1>0, <1>3, <1>5, <1>6, TypeAfterTake
<1> QED BY <1>5, <1>7 DEF HybridInv

LEMMA PostFailsKeeps ==
    ASSUME HybridInv, PostFails, UNCHANGED hybridVars
    PROVE  HybridInv'
<1>0. /\ HybridTypeOK /\ UploaderTypeOK
      /\ batch \in Seq(Nat) /\ pending \in Seq(Nat) /\ buffer \in Seq(Nat)
    BY DEF HybridInv, HybridTypeOK, UploaderTypeOK
<1>1. /\ drain = "sending" /\ MaybeReceived
      /\ failures' = (IF failureLimit = 0 THEN 0 ELSE failures + 1)
      /\ pending' = batch \o pending /\ batch' = <<>> /\ drain' = "sleeping"
      /\ UNCHANGED <<kicked, uploaderClosed, flushing, stranded, settled>>
      /\ UNCHANGED <<buffer, offered>>
    BY DEF PostFails, Requeue, hybridVars
<1>2. /\ OrderOK((batch \o pending) \o buffer, received')
      /\ ToSet(received') \in {ToSet(received), ToSet(received) \cup ToSet(batch)}
    BY <1>1, AfterPost
<1>3. received' \in Seq(Nat)
    BY <1>2 DEF OrderOK
<1>4. /\ pending' \in Seq(Nat) /\ Len(pending') = Len(batch) + Len(pending)
      /\ Len(batch) \in Nat /\ Len(pending) \in Nat
    BY <1>0, <1>1, ConcatProperties, LenProperties
<1>5. ToSet(pending') = ToSet(batch) \cup ToSet(pending)
    BY <1>0, <1>1, ConcatSet
<1>6. batch' \in Seq(Nat) /\ ToSet(batch') = {} /\ Len(batch') = 0
    BY <1>1, EmptySeq DEF ToSet
<1>7. HybridTypeOK'
    <2>1. UploaderTypeOK'
        BY <1>0, <1>1, <1>3, <1>4, <1>6 DEF UploaderTypeOK
    <2> QED BY <1>0, <2>1 DEF HybridTypeOK, hybridVars
<1>8. LiveInOrder'
    <2>1. (batch' \o pending') \o buffer' = (batch \o pending) \o buffer
        BY <1>1, <1>4, ConcatEmptySeq
    <2> QED BY <1>2, <2>1 DEF LiveInOrder
<1>9. NothingLost'
    <2>1. Places' = Places
        BY <1>1, <1>2, <1>5, <1>6 DEF Places
    <2> QED BY <1>1, <2>1, LostPlaces, LostPlacesNext DEF HybridInv
<1>10. BatchBound'
    <2>1. uploaderClosed => pending = <<>> /\ Len(pending) = 0
        BY <1>1, EmptySeq DEF HybridInv, BatchBound
    <2> QED BY <1>1, <1>4, <1>6, <2>1, UploaderAssumption DEF HybridInv, BatchBound
<1>11. QueueBound'
    BY <1>1, <1>4, UploaderAssumption DEF HybridInv, BatchBound, QueueBound
<1> QED BY <1>7, <1>8, <1>9, <1>10, <1>11 DEF HybridInv

LEMMA UploaderMovesKeeps ==
    ASSUME HybridInv, UploaderMoves
    PROVE  HybridInv'
<1>0. UNCHANGED hybridVars /\ UploaderStep
    BY DEF UploaderMoves
<1>1. CASE StartDrain
    BY <1>0, <1>1, StartDrainKeeps
<1>2. CASE PostSucceeds
    <2>1. MaybeReceived
        BY <1>2 DEF PostSucceeds, MaybeReceived
    <2> QED BY <1>0, <1>2, <2>1, BatchDoneKeeps DEF PostSucceeds
<1>3. CASE PostRefused
    <2>1. MaybeReceived
        BY <1>3 DEF PostRefused, MaybeReceived
    <2> QED BY <1>0, <1>3, <2>1, BatchDoneKeeps DEF PostRefused
<1>4. CASE PostFailsForGood
    BY <1>0, <1>4, BatchDoneKeeps DEF PostFailsForGood
<1>5. CASE PostFails
    BY <1>0, <1>5, PostFailsKeeps
<1>6. CASE Wake
    BY <1>0, <1>6, WakeKeeps
<1> QED BY <1>0, <1>1, <1>2, <1>3, <1>4, <1>5, <1>6 DEF UploaderStep, PostEnds

LEMMA HybridStep == HybridInv /\ [HybridNext]_transportVars => HybridInv'
<1> SUFFICES ASSUME HybridInv, [HybridNext]_transportVars PROVE HybridInv'
    OBVIOUS
<1>1. ASSUME NEW w \in Writers, WriteStreamEvent(w) PROVE HybridInv'
    BY <1>1, WriteStreamEventKeeps
<1>2. ASSUME NEW w \in Writers, NEW n \in 1..2, WriteMessages(w, n) PROVE HybridInv'
    BY <1>2, WriteMessagesKeeps
<1>3. ASSUME NEW w \in Writers, FlushTransport(w) PROVE HybridInv'
    BY <1>3, FlushTransportKeeps
<1>4. CASE TimerFires
    BY <1>4, TimerFiresKeeps
<1>5. CASE CloseTransport
    BY <1>5, CloseTransportKeeps
<1>6. CASE GraceStarts
    BY <1>6, GraceStartsKeeps
<1>7. CASE GraceEnds
    BY <1>7, GraceEndsKeeps
<1>8. CASE UploaderMoves
    BY <1>8, UploaderMovesKeeps
<1>9. CASE UNCHANGED transportVars
    <2>1. UNCHANGED <<uploaderVars, hybridVars>>
        BY <1>9 DEF transportVars
    <2>2. Places' = Places
        BY <2>1 DEF Places, uploaderVars, hybridVars
    <2>3. NothingLost'
        BY <2>1, <2>2, LostPlaces, LostPlacesNext DEF HybridInv, hybridVars
    <2>4. HybridTypeOK' /\ LiveInOrder' /\ BatchBound' /\ QueueBound'
        BY <2>1 DEF HybridInv, HybridTypeOK, UploaderTypeOK, LiveInOrder, BatchBound,
                    QueueBound, uploaderVars, hybridVars
    <2> QED BY <2>3, <2>4 DEF HybridInv
<1> QED BY <1>1, <1>2, <1>3, <1>4, <1>5, <1>6, <1>7, <1>8, <1>9 DEF HybridNext

(* Everything live is in the order of the writes and comes after all that was *)
(* received; every message is in one of its places; batch and queue keep to   *)
(* their limits, before and after close().                                    *)
THEOREM HybridInvariant == HybridSpec => []HybridInv
<1> QED BY HybridStart, HybridStep, PTL DEF HybridSpec

(* Messages never overtake each other on their way to the server.             *)
THEOREM NoOvertaking == HybridSpec => []ReceivedInOrder
<1>1. HybridInv => ReceivedInOrder
    BY SetOfSeq DEF HybridInv, LiveInOrder, OrderOK, Increasing, ReceivedInOrder
<1> QED BY <1>1, HybridInvariant, PTL

(* No hand-over between the buffer, the queue and the batch drops a message.  *)
THEOREM EveryMessageIsSomewhere == HybridSpec => []NothingLost
<1>1. HybridInv => NothingLost
    BY DEF HybridInv
<1> QED BY <1>1, HybridInvariant, PTL

(* The queue keeps to max_queue_size but for one batch that comes back.       *)
THEOREM QueueKeepsItsLimit == HybridSpec => []QueueBound
<1>1. HybridInv => QueueBound
    BY DEF HybridInv
<1> QED BY <1>1, HybridInvariant, PTL

-----------------------------------------------------------------------------
(* The refinement.  What the abstract queue holds is the batch in flight and  *)
(* the pending items, without what the server got from earlier attempts.      *)
AbstractStep == [Promise!DeliveryNext]_(Promise!deliveryVars)

LEMMA UndeliveredParts ==
    ASSUME HybridInv
    PROVE  /\ Undelivered = Without(batch, ToSet(received)) \o Without(pending, ToSet(received))
           /\ Without(batch, ToSet(received)) \in Seq(Nat)
           /\ Without(pending, ToSet(received)) \in Seq(Nat)
           /\ Increasing(batch) /\ Increasing(pending) /\ Increasing(batch \o pending)
           /\ ToSet(batch) \cap ToSet(pending) = {}
<1>0. batch \in Seq(Nat) /\ pending \in Seq(Nat) /\ buffer \in Seq(Nat)
    BY DEF HybridInv, HybridTypeOK, UploaderTypeOK
<1>1. batch \o pending \in Seq(Nat)
    BY <1>0, ConcatProperties
<1>2. Increasing(batch \o pending)
    BY <1>0, <1>1, OrderParts DEF HybridInv, LiveInOrder, OrderOK
<1>3. /\ Increasing(batch) /\ Increasing(pending)
      /\ \A x \in ToSet(batch), y \in ToSet(pending) : x < y
    BY <1>0, <1>2, ConcatIncreasing
<1>4. ToSet(batch) \subseteq Nat
    BY <1>0, SetOfSeq
<1>5. ToSet(batch) \cap ToSet(pending) = {}
    BY <1>3, <1>4
<1>6. Undelivered = Without(batch, ToSet(received)) \o Without(pending, ToSet(received))
    BY <1>0, <1>2, WithoutConcat DEF Undelivered
<1>7. Without(batch, ToSet(received)) \in Seq(Nat) /\ Without(pending, ToSet(received)) \in Seq(Nat)
    BY <1>0, <1>3, WithoutProperties
<1> QED BY <1>2, <1>3, <1>5, <1>6, <1>7

LEMMA PrefixOfConcat ==
    ASSUME NEW s \in Seq(Nat), NEW t \in Seq(Nat)
    PROVE  IsPrefix(s, s \o t)
<1>1. SubSeq(s, 1, Len(s)) = s /\ SubSeq(s \o t, 1, Len(s)) = s
    BY Unsplit, SubSeqFull
<1>2. Len(s) <= Len(s \o t)
    BY ConcatProperties, LenProperties
<1> QED BY <1>1, <1>2 DEF IsPrefix

(* The front of the queue goes: to the server, or given up.                   *)
LEMMA FrontGoes ==
    ASSUME NEW a \in Seq(Nat), NEW c \in Seq(Nat),
           Undelivered = a \o c, Undelivered' = c, received \in Seq(Nat),
           received' = received \/ received' = received \o a
    PROVE  AbstractStep
<1>0. Len(a) \in Nat /\ Len(c) \in Nat /\ Len(a \o c) = Len(a) + Len(c)
    BY LenProperties, ConcatProperties
<1>1. CASE a = <<>>
    <2>1. Undelivered' = Undelivered /\ received' = received
        BY <1>1, ConcatEmptySeq
    <2> QED BY <2>1 DEF AbstractStep, Promise!deliveryVars
<1>2. CASE a # <<>>
    <2>1. Len(a) \in 1..Len(Undelivered)
        BY <1>0, <1>2, EmptySeq
    <2>2. /\ SubSeq(Undelivered, 1, Len(a)) = a
          /\ SubSeq(Undelivered, Len(a) + 1, Len(Undelivered)) = c
        BY Unsplit
    <2>3. Undelivered' = Promise!DropFront(Len(a))
        BY <2>2 DEF Promise!DropFront
    <2>4. CASE received' = received
        BY <2>1, <2>3, <2>4 DEF AbstractStep, Promise!DeliveryNext, Promise!GiveUpFront
    <2>5. CASE received' = received \o a
        BY <2>1, <2>2, <2>3, <2>5 DEF AbstractStep, Promise!DeliveryNext, Promise!Deliver
    <2> QED BY <2>4, <2>5
<1> QED BY <1>1, <1>2

LEMMA EnqueuePuts ==
    ASSUME HybridInv, HybridInv', NEW items \in Seq(Nat), EnqueueEffect(items),
           UNCHANGED <<batch, received>>
    PROVE  AbstractStep
<1>0. /\ batch \in Seq(Nat) /\ pending \in Seq(Nat)
      /\ batch' \in Seq(Nat) /\ pending' \in Seq(Nat) /\ buffer' \in Seq(Nat)
      /\ Increasing((batch' \o pending') \o buffer')
    BY DEF HybridInv, HybridTypeOK, UploaderTypeOK, LiveInOrder, OrderOK
<1>4. Increasing(batch' \o pending')
    <2> DEFINE bp == batch' \o pending'
    <2>1. bp \in Seq(Nat) /\ Increasing(bp \o buffer')
        BY <1>0, ConcatProperties
    <2> HIDE DEF bp
    <2>2. Increasing(bp)
        BY <1>0, <2>1, ConcatIncreasing
    <2> QED BY <2>2 DEF bp
<1>1. pending' = pending \/ pending' = pending \o items
    BY DEF EnqueueEffect
<1>2. CASE pending' = pending
    BY <1>2 DEF AbstractStep, Promise!deliveryVars, Undelivered
<1>3. CASE pending' = pending \o items
    <2> DEFINE bp == batch \o pending
               seen == ToSet(received)
    <2>1. bp \in Seq(Nat)
        BY <1>0, ConcatProperties
    <2>2. batch' \o pending' = bp \o items
        <3>1. batch \in Seq(Nat) /\ pending \in Seq(Nat)
            BY <1>0
        <3>2. (batch \o pending) \o items = batch \o (pending \o items)
            BY <3>1, Assoc
        <3> QED BY <1>3, <3>2
    <2>3. Undelivered = Without(bp, seen)
        BY DEF Undelivered
    <2>4. Undelivered' = Without(bp \o items, seen)
        BY <2>2 DEF Undelivered
    <2>5. Increasing(bp \o items)
        BY <1>4, <2>2
    <2> HIDE DEF bp, seen
    <2>6. Increasing(bp) /\ Increasing(items)
        BY <2>1, <2>5, ConcatIncreasing
    <2>7. Without(bp, seen) \in Seq(Nat) /\ Without(items, seen) \in Seq(Nat)
        BY <2>1, <2>6, WithoutProperties
    <2>8. Without(bp \o items, seen) = Without(bp, seen) \o Without(items, seen)
        BY <2>1, <2>5, WithoutConcat
    <2>9. IsPrefix(Undelivered, Undelivered')
        BY <2>3, <2>4, <2>7, <2>8, PrefixOfConcat
    <2> QED BY <2>9 DEF AbstractStep, Promise!DeliveryNext, Promise!Put, Promise!IsPrefix, IsPrefix
<1> QED BY <1>1, <1>2, <1>3

LEMMA ClosePutsOff ==
    ASSUME HybridInv, CloseUploader
    PROVE  AbstractStep
<1>0. batch \in Seq(Nat) /\ UNCHANGED <<batch, received>>
    BY DEF HybridInv, HybridTypeOK, UploaderTypeOK, CloseUploader
<1>1. CASE uploaderClosed
    BY <1>0, <1>1 DEF CloseUploader, AbstractStep, Promise!deliveryVars, Undelivered
<1>2. CASE ~uploaderClosed
    <2>1. batch' \o pending' = batch
        BY <1>0, <1>2, ConcatEmptySeq DEF CloseUploader
    <2>2. Undelivered' = Without(batch, ToSet(received))
        BY <1>0, <2>1 DEF Undelivered
    <2>3. IsPrefix(Undelivered', Undelivered)
        BY <2>2, UndeliveredParts, PrefixOfConcat
    <2> QED BY <1>0, <2>3 DEF AbstractStep, Promise!DeliveryNext, Promise!ShutDown, Promise!IsPrefix, IsPrefix
<1> QED BY <1>1, <1>2

(* A turn of the loop of _drain when no batch is in flight.                   *)
LEMMA TakeStutters ==
    ASSUME HybridInv, batch = <<>>, TakeOrEnd(pending), received' = received
    PROVE  AbstractStep
<1>0. pending \in Seq(Nat) /\ uploaderClosed \in BOOLEAN
    BY DEF HybridInv, HybridTypeOK, UploaderTypeOK
<1>1. batch' \o pending' = pending /\ batch \o pending = pending
    BY <1>0, TakeFacts, ConcatEmptySeq
<1>2. Undelivered' = Undelivered
    BY <1>1 DEF Undelivered
<1> QED BY <1>2 DEF AbstractStep, Promise!deliveryVars

(* A POST that ended: its batch is gone from the front of the queue, or is    *)
(* back there without what the server has.                                    *)
LEMMA PostEnded ==
    ASSUME HybridInv, MaybeReceived,
           \/ batch' \o pending' = pending
           \/ batch' \o pending' = batch \o pending
    PROVE  AbstractStep
<1> DEFINE seen == ToSet(received)
           a == Without(batch, seen)
           c == Without(pending, seen)
<1>0. batch \in Seq(Nat) /\ pending \in Seq(Nat) /\ received \in Seq(Nat)
    BY DEF HybridInv, HybridTypeOK, UploaderTypeOK
<1>1. /\ Undelivered = a \o c /\ a \in Seq(Nat) /\ c \in Seq(Nat)
      /\ Increasing(batch) /\ Increasing(pending) /\ Increasing(batch \o pending)
      /\ ToSet(batch) \cap ToSet(pending) = {}
    BY UndeliveredParts
<1>2. received' = received \/ received' = received \o a
    BY DEF MaybeReceived, FirstReceipt
<1>3. CASE received' = received /\ batch' \o pending' = batch \o pending
    BY <1>3 DEF AbstractStep, Promise!deliveryVars, Undelivered
<1>4. CASE received' = received /\ batch' \o pending' = pending
    <2>1. Undelivered' = c
        BY <1>4 DEF Undelivered
    <2> HIDE DEF a, c
    <2> QED BY <1>0, <1>1, <1>4, <2>1, FrontGoes
<1>5. CASE received' = received \o a
    <2>0. ToSet(a) = ToSet(batch) \ seen
        BY <1>0, <1>1, WithoutProperties
    <2>1. ToSet(received') = seen \cup ToSet(batch)
        <3> HIDE DEF a
        <3>1. ToSet(received \o a) = seen \cup ToSet(a)
            BY <1>0, <1>1, ConcatSet
        <3> QED BY <1>5, <2>0, <3>1
    <2>2. Without(pending, ToSet(received')) = c
        <3>1. ToSet(pending) \ ToSet(received') = ToSet(pending) \ seen
            BY <1>1, <2>1
        <3> QED BY <1>0, <1>1, <3>1, WithoutSame
    <2>3. Undelivered' = c
        <3>1. CASE batch' \o pending' = pending
            BY <2>2, <3>1 DEF Undelivered
        <3>2. CASE batch' \o pending' = batch \o pending
            <4> DEFINE more == ToSet(received')
            <4>1. Undelivered' = Without(batch \o pending, more)
                BY <3>2 DEF Undelivered
            <4>2. ToSet(batch) \ more = {}
                BY <2>1
            <4> HIDE DEF more
            <4>3. Undelivered' = Without(batch, more) \o Without(pending, more)
                <5>1. batch \in Seq(Nat) /\ pending \in Seq(Nat)
                    BY <1>0
                <5>2. Without(batch \o pending, more) = Without(batch, more) \o Without(pending, more)
                    BY <1>1, <5>1, WithoutConcat
                <5> QED BY <4>1, <5>2
            <4>4. Without(batch, more) \in Seq(Nat) /\ ToSet(Without(batch, more)) = {}
                BY <1>0, <1>1, <4>2, WithoutProperties
            <4>5. Without(batch, more) = <<>>
                <5> DEFINE w == Without(batch, more)
                <5>1. w \in Seq(Nat) /\ ToSet(w) = {}
                    BY <4>4
                <5> HIDE DEF w
                <5>2. Len(w) \in Nat /\ 1..Len(w) = {}
                    BY <5>1, SetOfSeq
                <5>3. w = <<>>
                    BY <5>1, <5>2, EmptySeq
                <5> QED BY <5>3 DEF w
            <4>6. Without(pending, more) = c
                BY <2>2 DEF more
            <4> QED BY <1>1, <4>3, <4>5, <4>6, ConcatEmptySeq
        <3> QED BY <3>1, <3>2
    <2> HIDE DEF a, c
    <2> QED BY <1>0, <1>1, <1>5, <2>3, FrontGoes
<1> QED BY <1>2, <1>3, <1>4, <1>5

LEMMA RefinementStart == HybridInit => Promise!DeliveryInit
<1> SUFFICES ASSUME HybridInit PROVE Promise!DeliveryInit
    OBVIOUS
<1>1. batch \o pending = <<>> /\ received = <<>>
    BY ConcatEmptySeq DEF HybridInit, UploaderInit
<1>2. <<>> \in Seq(Nat) /\ Increasing(<<>>)
    BY EmptySeq DEF Increasing
<1> DEFINE w == Without(<<>>, ToSet(received))
<1>3. w \in Seq(Nat) /\ ToSet(w) = {}
    <2>1. ToSet(<<>>) = {}
        BY EmptySeq DEF ToSet
    <2>2. ToSet(w) = ToSet(<<>>) \ ToSet(received) /\ w \in Seq(Nat)
        BY <1>2, WithoutProperties
    <2> QED BY <2>1, <2>2
<1>4. Undelivered = w
    BY <1>1 DEF Undelivered
<1> HIDE DEF w
<1>5. Len(w) \in Nat /\ 1..Len(w) = {}
    BY <1>3, SetOfSeq
<1>6. w = <<>>
    BY <1>3, <1>5, EmptySeq
<1>7. Undelivered = <<>> /\ received = <<>>
    BY <1>1, <1>4, <1>6
<1> QED BY <1>7 DEF Promise!DeliveryInit

LEMMA UploaderRefines ==
    ASSUME HybridInv, UploaderStep
    PROVE  AbstractStep
<1>0. /\ batch \in Seq(Nat) /\ pending \in Seq(Nat) /\ uploaderClosed \in BOOLEAN
      /\ (batch # <<>>) <=> (drain = "sending")
    BY DEF HybridInv, HybridTypeOK, UploaderTypeOK
<1>1. CASE StartDrain
    <2>1. CASE drain # "idle" \/ uploaderClosed
        BY <1>1, <2>1 DEF StartDrain, AbstractStep, Promise!deliveryVars, Undelivered
    <2>2. CASE ~(drain # "idle" \/ uploaderClosed)
        BY <1>0, <1>1, <2>2, TakeStutters DEF StartDrain
    <2> QED BY <2>1, <2>2
<1>2. CASE Wake
    BY <1>0, <1>2, TakeStutters DEF Wake
<1>3. CASE PostFails
    <2>1. batch \o pending \in Seq(Nat)
        BY <1>0, ConcatProperties
    <2>2. batch' \o pending' = batch \o pending /\ MaybeReceived
        BY <1>3, <2>1, ConcatEmptySeq DEF PostFails, Requeue
    <2> QED BY <2>2, PostEnded
<1>4. CASE PostSucceeds \/ PostRefused \/ PostFailsForGood
    <2>1. TakeOrEnd(pending) /\ MaybeReceived
        BY <1>4 DEF PostSucceeds, PostRefused, PostFailsForGood, MaybeReceived
    <2>2. batch' \o pending' = pending
        BY <1>0, <2>1, TakeFacts
    <2> QED BY <2>1, <2>2, PostEnded
<1> QED BY <1>1, <1>2, <1>3, <1>4 DEF UploaderStep, PostEnds

LEMMA RefinementStep ==
    HybridInv /\ HybridInv' /\ [HybridNext]_transportVars => AbstractStep
<1> SUFFICES ASSUME HybridInv, HybridInv', [HybridNext]_transportVars PROVE AbstractStep
    OBVIOUS
<1>0. buffer \in Seq(Nat) /\ offered \in Nat
    BY HybridAssumption DEF HybridInv, HybridTypeOK
<1>1. ASSUME NEW w \in Writers, NEW items \in Seq(Nat), Offer(w, items) PROVE AbstractStep
    BY <1>1, EnqueuePuts DEF Offer
<1>2. ASSUME NEW w \in Writers, NEW n \in 1..2, WriteMessages(w, n) PROVE AbstractStep
    <2> DEFINE new == [k \in 1..n |-> offered + k]
    <2>1. new \in Seq(Nat)
        BY <1>0, FreshFacts
    <2>2. Offer(w, buffer \o new)
        BY <1>2 DEF WriteMessages
    <2> HIDE DEF new
    <2>3. buffer \o new \in Seq(Nat)
        BY <1>0, <2>1, ConcatProperties
    <2> QED BY <1>1, <2>2, <2>3
<1>3. ASSUME NEW w \in Writers, FlushTransport(w) PROVE AbstractStep
    BY <1>0, <1>1, <1>3 DEF FlushTransport
<1>4. CASE TimerFires
    BY <1>0, <1>4, EnqueuePuts DEF TimerFires
<1>5. CASE GraceStarts
    BY <1>5, ClosePutsOff
       DEF GraceStarts, Flush, AbstractStep, Promise!deliveryVars, Undelivered
<1>6. CASE GraceEnds
    BY <1>6, ClosePutsOff DEF GraceEnds
<1>7. CASE UploaderMoves
    BY <1>7, UploaderRefines DEF UploaderMoves
<1>8. CASE UNCHANGED <<batch, pending, received>>
    BY <1>8 DEF AbstractStep, Promise!deliveryVars, Undelivered
<1>9. ASSUME NEW w \in Writers, WriteStreamEvent(w) PROVE AbstractStep
    BY <1>8, <1>9 DEF WriteStreamEvent, uploaderVars
<1>10. CASE CloseTransport
    BY <1>8, <1>10 DEF CloseTransport
<1>11. CASE UNCHANGED transportVars
    BY <1>8, <1>11 DEF transportVars, uploaderVars
<1> QED BY <1>2, <1>3, <1>4, <1>5, <1>6, <1>7, <1>9, <1>10, <1>11 DEF HybridNext

(* The uploader and its transport implement the delivery queue: what the      *)
(* server gets, it gets once and in order, whatever the POSTs do.             *)
THEOREM ImplementsDelivery == HybridSpec => DeliveredInOrder
<1>1. HybridInv /\ HybridInv' /\ [HybridNext]_transportVars
          => [Promise!DeliveryNext]_(Promise!deliveryVars)
    BY RefinementStep DEF AbstractStep
<1> QED BY <1>1, RefinementStart, HybridInvariant, PTL
        DEF HybridSpec, DeliveredInOrder, Promise!DeliverySpec
=============================================================================
