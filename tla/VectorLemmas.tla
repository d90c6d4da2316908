---------------------------- MODULE VectorLemmas ----------------------------
(***************************************************************************)
(* Facts about sequences that model std::vector, and induction.            *)
(***************************************************************************)
EXTENDS Integers, Sequences, SequencesExt, SequenceTheorems, WellFoundedInduction, TLAPS

-----------------------------------------------------------------------------
(* Induction, as facts about sets of numbers. *)

LEMMA LeastOf ==
    ASSUME NEW T, T \subseteq Nat, T # {}
    PROVE  \E n \in T : \A m \in T : n <= m
<1>1. \E n \in T : \A m \in T : <<m, n>> \notin OpToRel(<, Nat)
  BY WFMin, NatLessThanWellFounded, Zenon
<1>2. \E n \in T : \A m \in T : ~(m < n)
  BY <1>1, Zenon DEF OpToRel
<1> QED
  BY <1>2

LEMMA GreatestOf ==
    ASSUME NEW n \in Nat, NEW T, T \subseteq 1..n, T # {}
    PROVE  \E k \in T : \A j \in T : j <= k
<1> DEFINE D == {n - k : k \in T}
<1>1. D \subseteq Nat /\ D # {}
  <2>1. \A k \in T : k \in 1..n
    OBVIOUS
  <2>2. \A k \in 1..n : n - k \in Nat
    OBVIOUS
  <2> QED
    BY <2>1, <2>2
<1>2. PICK d \in D : \A e \in D : d <= e
  BY <1>1, LeastOf
<1>3. PICK k \in T : d = n - k
  BY <1>2
<1>4. \A j \in T : n - k <= n - j
  BY <1>2, <1>3
<1> QED
  BY <1>3, <1>4

\* A set of numbers that holds 0 and each one's successor holds them all.
LEMMA SetInduction ==
    ASSUME NEW S, 0 \in S, \A n \in Nat : n \in S => n + 1 \in S
    PROVE  \A n \in Nat : n \in S
<1> SUFFICES ASSUME Nat \ S # {} PROVE FALSE
  OBVIOUS
<1>1. PICK n \in Nat \ S : \A m \in Nat \ S : n <= m
  BY LeastOf
<1>2. n # 0 /\ n - 1 \in Nat
  BY <1>1
<1>3. n - 1 \in S
  BY <1>1, <1>2
<1> QED
  BY <1>1, <1>2, <1>3

\* The values that a loop of n steps goes through.
IsIteration(f, S, start, n, step) ==
    /\ f \in [0..n -> S]
    /\ f[0] = start
    /\ \A i \in 1..n : f[i] = step[i][f[i - 1]]

\* A loop whose steps stay in a set has such values.
LEMMA IterationExists ==
    ASSUME NEW S, NEW start \in S, NEW n \in Nat, NEW step \in [1..n -> [S -> S]]
    PROVE  \E f : IsIteration(f, S, start, n, step)
<1> DEFINE Done(m) == \E f : IsIteration(f, S, start, m, step)
           T == {m \in Nat : m <= n => Done(m)}
<1>1. Done(0)
  <2> DEFINE g == [i \in 0..0 |-> start]
  <2>1. g \in [0..0 -> S] /\ g[0] = start
    OBVIOUS
  <2> HIDE DEF g
  <2>2. IsIteration(g, S, start, 0, step)
    BY <2>1 DEF IsIteration
  <2> QED
    BY <2>2
<1>2. ASSUME NEW m \in Nat, m + 1 <= n, Done(m) PROVE Done(m + 1)
  <2>1. PICK f : IsIteration(f, S, start, m, step)
    BY <1>2
  <2> USE DEF IsIteration
  <2> DEFINE g == [i \in 0..(m + 1) |-> IF i = m + 1 THEN step[i][f[m]] ELSE f[i]]
  <2>2. g \in [0..(m + 1) -> S]
    <3>1. step[m + 1] \in [S -> S] /\ f[m] \in S
      BY <1>2, <2>1
    <3>2. \A i \in 0..(m + 1) : i # m + 1 => f[i] \in S
      BY <2>1
    <3> QED
      BY <3>1, <3>2
  <2>3. g[0] = start
    BY <2>1
  <2>4. ASSUME NEW i \in 1..(m + 1) PROVE g[i] = step[i][g[i - 1]]
    <3>1. CASE i = m + 1
      BY <3>1
    <3>2. CASE i # m + 1
      <4>1. i \in 1..m /\ i - 1 \in 0..m /\ g[i] = f[i] /\ g[i - 1] = f[i - 1]
        BY <3>2
      <4> QED
        BY <2>1, <4>1
    <3> QED
      BY <3>1, <3>2
  <2> HIDE DEF g
  <2>5. IsIteration(g, S, start, m + 1, step)
    BY <2>2, <2>3, <2>4
  <2> HIDE DEF IsIteration
  <2> QED
    BY <2>5
<1> HIDE DEF Done
<1>3. 0 \in T /\ \A m \in Nat : m \in T => m + 1 \in T
  <2>1. ASSUME NEW m \in Nat, m \in T, m + 1 <= n PROVE Done(m + 1)
    BY <1>2, <2>1
  <2> QED
    BY <1>1, <2>1
<1> HIDE DEF T
<1>4. n \in T
  BY <1>3, SetInduction
<1>5. Done(n)
  BY <1>4 DEF T
<1> QED
  BY <1>5 DEF Done

-----------------------------------------------------------------------------
(* Vectors *)

\* Erasing one position of a vector shifts what follows and nothing else.
LEMMA RemoveAtProperties ==
    ASSUME NEW S, NEW s \in Seq(S), NEW k \in 1..Len(s)
    PROVE  /\ RemoveAt(s, k) \in Seq(S)
           /\ Len(RemoveAt(s, k)) = Len(s) - 1
           /\ \A j \in 1..(Len(s) - 1) :
                RemoveAt(s, k)[j] = IF j < k THEN s[j] ELSE s[j+1]
<1> DEFINE front == SubSeq(s, 1, k-1)
           back  == SubSeq(s, k+1, Len(s))
<1>1. /\ front \in Seq(S) /\ Len(front) = k - 1
      /\ \A j \in 1..(k-1) : front[j] = s[j]
  BY SubSeqProperties
<1>2. /\ back \in Seq(S) /\ Len(back) = Len(s) - k
      /\ \A j \in 1..(Len(s) - k) : back[j] = s[k+j]
  BY SubSeqProperties
<1>3. RemoveAt(s, k) = front \o back
  BY DEF RemoveAt
<1> HIDE DEF front, back
<1>4. /\ front \o back \in Seq(S)
      /\ Len(front \o back) = Len(front) + Len(back)
      /\ \A j \in 1..(Len(front) + Len(back)) :
            (front \o back)[j] = IF j <= Len(front) THEN front[j]
                                                  ELSE back[j - Len(front)]
  BY <1>1, <1>2, ConcatProperties, Zenon
<1>5. Len(s) \in Nat /\ Len(front) + Len(back) = Len(s) - 1
  BY <1>1, <1>2
<1>6. ASSUME NEW j \in 1..(Len(s) - 1)
      PROVE  (front \o back)[j] = IF j < k THEN s[j] ELSE s[j+1]
  <2>1. CASE j < k
    BY <2>1, <1>1, <1>4, <1>5
  <2>2. CASE j >= k
    <3>1. j - (k - 1) \in 1..(Len(s) - k) /\ k + (j - (k - 1)) = j + 1
      BY <2>2, <1>5
    <3>2. (front \o back)[j] = back[j - (k - 1)]
      BY <2>2, <1>1, <1>4, <1>5
    <3>3. back[j - (k - 1)] = s[k + (j - (k - 1))]
      BY <3>1, <1>2
    <3> QED
      BY <2>2, <3>1, <3>2, <3>3
  <2> QED
    BY <2>1, <2>2, <1>5
<1> QED
  BY <1>3, <1>4, <1>5, <1>6
\* What a loop has ahead of it when it is behind the first k elements of s.
LEMMA RestOf ==
    ASSUME NEW S, NEW s \in Seq(S), NEW k \in 0..Len(s), NEW t, t = SubSeq(s, k + 1, Len(s))
    PROVE  /\ t \in Seq(S)
           /\ t = <<>> <=> k = Len(s)
           /\ t # <<>> => /\ k + 1 \in 1..Len(s)
                          /\ Head(t) = s[k + 1] /\ s[k + 1] \in S
                          /\ Tail(t) = SubSeq(s, (k + 1) + 1, Len(s))
<1>1. t \in Seq(S) /\ Len(t) = Len(s) - k
  BY SubSeqProperties
<1>2. t = <<>> <=> k = Len(s)
  <2>1. t = <<>> <=> Len(t) = 0
    BY <1>1, EmptySeq
  <2> QED
    BY <1>1, <2>1
<1>3. ASSUME t # <<>> PROVE k + 1 \in 1..Len(s) /\ Len(s) \in (k + 1)..Len(s)
  BY <1>2, <1>3
<1> QED
  BY <1>1, <1>2, <1>3, HeadTailOfSubSeq, ElementOfSeq

-----------------------------------------------------------------------------
(* Flattening *)

\* g[k] is the first k parts of s, one after the other.
Joins(g, s) ==
    /\ g[0] = <<>>
    /\ \A k \in 1..Len(s) : g[k] = g[k - 1] \o s[k]

\* What FlattenSeq defines by recursion, for the first n parts of s.
IsJoinOf(f, s, n) == f = [i \in 1..n |-> IF i = 1 THEN s[i] ELSE f[i - 1] \o s[i]]

\* That function exists: it is built part by part.
LEMMA JoinGrows ==
    ASSUME NEW M, NEW s \in Seq(Seq(M)), NEW n \in Nat, n + 1 <= Len(s),
           NEW f, IsJoinOf(f, s, n), \A i \in 1..n : f[i] \in Seq(M)
    PROVE  \E h : IsJoinOf(h, s, n + 1) /\ \A i \in 1..(n + 1) : h[i] \in Seq(M)
<1> DEFINE part == IF n + 1 = 1 THEN s[n + 1] ELSE f[n] \o s[n + 1]
           h == [i \in 1..(n + 1) |-> IF i = n + 1 THEN part ELSE f[i]]
           Of(i) == IF i = 1 THEN s[i] ELSE h[i - 1] \o s[i]
<1>1. part \in Seq(M)
  <2>1. s[n + 1] \in Seq(M)
    BY ElementOfSeq
  <2>2. n # 0 => f[n] \in Seq(M)
    OBVIOUS
  <2> QED
    BY <2>1, <2>2, ConcatProperties
<1>2. ASSUME NEW i \in 1..(n + 1) PROVE h[i] = Of(i)
  <2>1. CASE i = n + 1
    BY <2>1
  <2>2. CASE i # n + 1
    <3>1. i \in 1..n /\ (i # 1 => i - 1 \in 1..n)
      BY <2>2
    <3>2. f[i] = IF i = 1 THEN s[i] ELSE f[i - 1] \o s[i]
      BY <3>1 DEF IsJoinOf
    <3> QED
      BY <3>1, <3>2
  <2> QED
    BY <2>1, <2>2
<1>3. \A i \in 1..(n + 1) : h[i] \in Seq(M)
  <2> HIDE DEF part
  <2> QED
    BY <1>1
<1>4. h = [i \in 1..(n + 1) |-> h[i]]
  OBVIOUS
<1> HIDE DEF h
<1>5. IsJoinOf(h, s, n + 1)
  <2> HIDE DEF Of
  <2>1. h = [i \in 1..(n + 1) |-> Of(i)]
    BY <1>2, <1>4
  <2> QED
    BY <2>1 DEF IsJoinOf, Of
<1> QED
  BY <1>3, <1>5

LEMMA JoinExists ==
    ASSUME NEW M, NEW s \in Seq(Seq(M))
    PROVE  \E f : IsJoinOf(f, s, Len(s)) /\ \A i \in 1..Len(s) : f[i] \in Seq(M)
<1> DEFINE Built(n) == \E f : IsJoinOf(f, s, n) /\ \A i \in 1..n : f[i] \in Seq(M)
           S == {n \in Nat : n <= Len(s) => Built(n)}
<1>1. Built(0)
  <2>1. IsJoinOf([i \in 1..0 |-> <<>>], s, 0)
    BY DEF IsJoinOf
  <2> QED
    BY <2>1
<1>2. ASSUME NEW n \in Nat, n + 1 <= Len(s), Built(n) PROVE Built(n + 1)
  BY <1>2, JoinGrows
<1> HIDE DEF Built
<1>3. \A n \in Nat : n \in S => n + 1 \in S
  <2> SUFFICES ASSUME NEW n \in Nat, n \in S, n + 1 <= Len(s) PROVE Built(n + 1)
    OBVIOUS
  <2> QED
    BY <1>2
<1>4. 0 \in S
  BY <1>1
<1> HIDE DEF S
<1>5. \A n \in Nat : n \in S
  BY <1>3, <1>4, SetInduction
<1>6. Len(s) \in S /\ Len(s) \in Nat
  BY <1>5
<1>7. Built(Len(s))
  BY <1>6 DEF S
<1> QED
  BY <1>7 DEF Built

LEMMA FlattenIsJoin ==
    ASSUME NEW M, NEW s \in Seq(Seq(M)), Len(s) # 0
    PROVE  \E f : IsJoinOf(f, s, Len(s)) /\ FlattenSeq(s) = f[Len(s)]
<1> DEFINE f == CHOOSE f : IsJoinOf(f, s, Len(s))
<1>1. IsJoinOf(f, s, Len(s))
  BY JoinExists, Zenon
<1>2. FlattenSeq(s) = f[Len(s)]
  BY Zenon DEF FlattenSeq, IsJoinOf
<1> QED
  BY <1>1, <1>2

\* FlattenSeq joins the parts of a sequence, one after the other.
LEMMA FlattenJoins ==
    ASSUME NEW M, NEW s \in Seq(Seq(M))
    PROVE  \E g \in [0..Len(s) -> Seq(M)] : Joins(g, s) /\ FlattenSeq(s) = g[Len(s)]
<1>1. CASE Len(s) = 0
  <2>1. FlattenSeq(s) = <<>>
    BY <1>1, EmptySeq DEF FlattenSeq
  <2> DEFINE g == [k \in 0..Len(s) |-> <<>>]
  <2>2. g \in [0..Len(s) -> Seq(M)] /\ g[0] = <<>> /\ g[Len(s)] = <<>>
    BY <1>1
  <2> HIDE DEF g
  <2>3. Joins(g, s)
    BY <1>1, <2>2 DEF Joins
  <2> QED
    BY <2>1, <2>2, <2>3
<1>2. CASE Len(s) # 0
  <2>1. PICK f : IsJoinOf(f, s, Len(s)) /\ FlattenSeq(s) = f[Len(s)]
    BY <1>2, FlattenIsJoin
  <2> DEFINE g == [k \in 0..Len(s) |-> IF k = 0 THEN <<>> ELSE f[k]]
             S == {k \in Nat : k <= Len(s) => g[k] \in Seq(M)}
  <2>2. ASSUME NEW k \in 1..Len(s) PROVE g[k] = g[k - 1] \o s[k]
    <3>1. f[k] = IF k = 1 THEN s[k] ELSE f[k - 1] \o s[k]
      BY <2>1 DEF IsJoinOf
    <3>2. g[k] = f[k] /\ k - 1 \in 0..Len(s) /\ g[k - 1] = IF k = 1 THEN <<>> ELSE f[k - 1]
      OBVIOUS
    <3>3. s[k] \in Seq(M) /\ <<>> \o s[k] = s[k]
      BY ElementOfSeq, ConcatEmptySeq
    <3> QED
      BY <3>1, <3>2, <3>3
  <2>3. g[0] = <<>> /\ FlattenSeq(s) = g[Len(s)] /\ g = [k \in 0..Len(s) |-> g[k]]
    BY <1>2, <2>1
  <2> HIDE DEF g
  <2>4. 0 \in S
    BY <2>3
  <2>5. ASSUME NEW k \in Nat, k \in S PROVE k + 1 \in S
    <3> SUFFICES ASSUME k + 1 <= Len(s) PROVE g[k + 1] \in Seq(M)
      OBVIOUS
    <3>1. k + 1 \in 1..Len(s) /\ (k + 1) - 1 = k /\ g[k] \in Seq(M)
      BY <2>5
    <3>2. s[k + 1] \in Seq(M) /\ g[k + 1] = g[k] \o s[k + 1]
      BY <2>2, <3>1, ElementOfSeq
    <3> QED
      BY <3>1, <3>2, ConcatProperties
  <2> HIDE DEF S
  <2>6. \A k \in Nat : k \in S
    BY <2>4, <2>5, SetInduction
  <2>7. g \in [0..Len(s) -> Seq(M)]
    BY <2>3, <2>6 DEF S
  <2> QED
    BY <2>2, <2>3, <2>7 DEF Joins
<1> QED
  BY <1>1, <1>2

\* Where a place of a part is in parts of the same length.
LEMMA PlaceOfPart ==
    ASSUME NEW w \in Nat, NEW k \in Nat, NEW c \in 1..k, NEW j \in 1..w
    PROVE  w * (c - 1) + j \in 1..(w * k)
<1>1. PICK e \in Nat : k = (c - 1) + 1 + e
  <2>1. k - c \in Nat /\ k = (c - 1) + 1 + (k - c)
    OBVIOUS
  <2> QED
    BY <2>1
<1> DEFINE b == c - 1
<1>2. b \in Nat /\ k = b + 1 + e
  BY <1>1
<1> HIDE DEF b
<1>3. w * k = w * b + w + w * e /\ w * e \in Nat /\ w * b \in Nat
  BY <1>2
<1>4. w * b + j \in 1..(w * k)
  BY <1>3
<1> QED
  BY <1>4 DEF b

\* Parts of the same length are found where they are expected.
LEMMA FlattenParts ==
    ASSUME NEW S, NEW s \in Seq(Seq(S)), NEW w \in Nat, \A c \in 1..Len(s) : Len(s[c]) = w
    PROVE  /\ FlattenSeq(s) \in Seq(S) /\ Len(FlattenSeq(s)) = w * Len(s)
           /\ \A c \in 1..Len(s), j \in 1..w : FlattenSeq(s)[w * (c - 1) + j] = s[c][j]
<1> DEFINE q == Len(s)
<1>1. PICK g \in [0..q -> Seq(S)] : Joins(g, s) /\ FlattenSeq(s) = g[q]
  BY FlattenJoins
<1> DEFINE Placed(k) == \A c \in 1..k, j \in 1..w : g[k][w * (c - 1) + j] = s[c][j]
           T == {k \in Nat : k <= q => Len(g[k]) = w * k /\ Placed(k)}
<1>2. q \in Nat
  OBVIOUS
<1>3. 0 \in T
  BY <1>1, EmptySeq DEF Joins
<1>4. ASSUME NEW k \in Nat, k \in T PROVE k + 1 \in T
  <2> SUFFICES ASSUME k + 1 <= q PROVE Len(g[k + 1]) = w * (k + 1) /\ Placed(k + 1)
    OBVIOUS
  <2> DEFINE front == g[k]
             part == s[k + 1]
             both == g[k + 1]
  <2>1. k + 1 \in 1..q /\ k \in 0..q /\ (k + 1) - 1 = k /\ Len(front) = w * k /\ Placed(k)
    BY <1>4
  <2>2. front \in Seq(S) /\ part \in Seq(S)
    BY <2>1, ElementOfSeq
  <2>3. both = front \o part /\ Len(part) = w
    BY <1>1, <2>1 DEF Joins
  <2>4. w * k \in Nat /\ w * (k + 1) = w * k + w
    OBVIOUS
  <2> HIDE DEF front, part, both, q
  <2>5. /\ Len(front \o part) = Len(front) + Len(part)
        /\ \A i \in 1..(Len(front) + Len(part)) :
              (front \o part)[i] = IF i <= Len(front) THEN front[i] ELSE part[i - Len(front)]
    BY <2>2, ConcatProperties
  <2>6. Len(both) = w * (k + 1)
    BY <2>1, <2>3, <2>4, <2>5
  <2>7. ASSUME NEW i \in 1..(w * k + w)
        PROVE  both[i] = IF i <= w * k THEN front[i] ELSE part[i - w * k]
    <3>1. i \in 1..(Len(front) + Len(part))
      BY <2>1, <2>3, <2>4
    <3> QED
      BY <2>1, <2>3, <2>5, <3>1, Zenon
  <2>8. ASSUME NEW c \in 1..(k + 1), NEW j \in 1..w PROVE both[w * (c - 1) + j] = s[c][j]
    <3>1. CASE c = k + 1
      <4> DEFINE m == w * k
      <4>1. m \in Nat
        BY <2>4
      <4> HIDE DEF m
      <4>2. m + j \in 1..(m + w) /\ ~(m + j <= m) /\ (m + j) - m = j
        BY <4>1
      <4>3. both[m + j] = IF m + j <= m THEN front[m + j] ELSE part[(m + j) - m]
        BY <2>7, <4>2, Zenon DEF m
      <4>4. both[m + j] = part[j]
        BY <4>2, <4>3, Zenon
      <4> QED
        BY <2>1, <3>1, <4>4, Zenon DEF part, m
    <3>2. CASE c # k + 1
      <4> DEFINE i == w * (c - 1) + j
      <4>1. c \in 1..k
        BY <3>2
      <4>2. i \in 1..(w * k)
        BY <4>1, PlaceOfPart
      <4>3. front[i] = s[c][j]
        BY <2>1, <4>1 DEF front
      <4> HIDE DEF i
      <4>4. i \in 1..(w * k + w) /\ i <= w * k
        BY <2>4, <4>2
      <4>5. both[i] = s[c][j]
        BY <2>7, <4>3, <4>4
      <4> QED
        BY <4>5 DEF i
    <3> QED
      BY <3>1, <3>2
  <2> QED
    BY <2>6, <2>8 DEF both
<1> HIDE DEF T
<1>5. q \in T
  BY <1>2, <1>3, <1>4, SetInduction
<1>6. g[q] \in Seq(S) /\ Len(g[q]) = w * q /\ Placed(q)
  BY <1>2, <1>5 DEF T
<1> QED
  BY <1>1, <1>6

\* Induction over sequences: what holds of the empty sequence, and of a
\* sequence with one more element if it does without, holds of all.
LEMMA AppendInduction ==
    ASSUME NEW S, NEW T, <<>> \in T, \A s \in Seq(S), x \in S : s \in T => Append(s, x) \in T
    PROVE  \A s \in Seq(S) : s \in T
<1> DEFINE N == {n \in Nat : \A s \in Seq(S) : Len(s) = n => s \in T}
<1>1. 0 \in N
  BY EmptySeq
<1>2. ASSUME NEW n \in Nat, n \in N PROVE n + 1 \in N
  <2> SUFFICES ASSUME NEW s \in Seq(S), Len(s) = n + 1 PROVE s \in T
    OBVIOUS
  <2>1. s # <<>>
    BY EmptySeq
  <2>2. PICK t \in Seq(S) : \E x \in S : s = Append(t, x)
    BY <2>1, SequenceEmptyOrAppend
  <2>3. PICK x \in S : s = Append(t, x)
    BY <2>2
  <2>4. Len(t) = n
    BY <2>3, AppendProperties
  <2>5. t \in T
    BY <1>2, <2>4
  <2> QED
    BY <2>3, <2>5
<1> HIDE DEF N
<1>3. \A n \in Nat : n \in N
  BY <1>1, <1>2, SetInduction
<1> QED
  BY <1>3 DEF N

\* Flattening one part more appends the part.
LEMMA FlattenAppend ==
    ASSUME NEW M, NEW s \in Seq(Seq(M)), NEW x \in Seq(M)
    PROVE  FlattenSeq(Append(s, x)) = FlattenSeq(s) \o x
<1> DEFINE n == Len(s)
           t == Append(s, x)
<1>1. t \in Seq(Seq(M)) /\ Len(t) = n + 1 /\ t[n + 1] = x /\ \A k \in 1..n : t[k] = s[k]
  BY AppendProperties
<1> HIDE DEF t
<1>2. n \in Nat
  OBVIOUS
<1> HIDE DEF n
<1>3. PICK g \in [0..Len(s) -> Seq(M)] : Joins(g, s) /\ FlattenSeq(s) = g[Len(s)]
  BY FlattenJoins
<1>4. PICK h \in [0..Len(t) -> Seq(M)] : Joins(h, t) /\ FlattenSeq(t) = h[Len(t)]
  BY <1>1, FlattenJoins
<1>5. g[0] = <<>> /\ \A k \in 1..n : g[k] = g[k - 1] \o s[k]
  BY <1>3 DEF Joins, n
<1>6. h[0] = <<>> /\ \A k \in 1..(n + 1) : h[k] = h[k - 1] \o t[k]
  BY <1>1, <1>4 DEF Joins
<1> DEFINE T == {k \in Nat : k <= n => h[k] = g[k]}
<1>7. 0 \in T
  BY <1>5, <1>6
<1>8. ASSUME NEW k \in Nat, k \in T PROVE k + 1 \in T
  <2> SUFFICES ASSUME k + 1 <= n PROVE h[k + 1] = g[k + 1]
    OBVIOUS
  <2>1. k + 1 \in 1..n /\ k + 1 \in 1..(n + 1) /\ (k + 1) - 1 = k /\ h[k] = g[k]
    BY <1>2, <1>8
  <2>2. h[k + 1] = h[k] \o t[k + 1] /\ g[k + 1] = g[k] \o s[k + 1]
    BY <1>5, <1>6, <2>1
  <2>3. t[k + 1] = s[k + 1]
    BY <1>1, <2>1
  <2> QED
    BY <2>1, <2>2, <2>3, Zenon
<1> HIDE DEF T
<1>9. \A k \in Nat : k \in T
  BY <1>7, <1>8, SetInduction
<1>10. h[n] = g[n]
  BY <1>2, <1>9 DEF T
<1>11. h[n + 1] = h[n] \o x
  <2>1. n + 1 \in 1..(n + 1) /\ (n + 1) - 1 = n
    BY <1>2
  <2> QED
    BY <1>1, <1>6, <2>1
<1>12. FlattenSeq(t) = h[n + 1] /\ FlattenSeq(s) = g[n]
  BY <1>1, <1>3, <1>4 DEF n
<1> QED
  BY <1>10, <1>11, <1>12, Zenon DEF t

\* Two loops that start alike and make the same of the same are alike.
LEMMA LoopsAgree ==
    ASSUME NEW n \in Nat, NEW f, NEW g, f[0] = g[0],
           \A i \in 1..n : f[i - 1] = g[i - 1] => f[i] = g[i]
    PROVE  f[n] = g[n]
<1> DEFINE T == {i \in Nat : i <= n => f[i] = g[i]}
<1>1. 0 \in T
  OBVIOUS
<1>2. ASSUME NEW i \in Nat, i \in T PROVE i + 1 \in T
  <2> SUFFICES ASSUME i + 1 <= n PROVE f[i + 1] = g[i + 1]
    OBVIOUS
  <2>1. i + 1 \in 1..n /\ (i + 1) - 1 = i /\ f[i] = g[i]
    BY <1>2
  <2> QED
    BY <2>1
<1> HIDE DEF T
<1>3. \A i \in Nat : i \in T
  BY <1>1, <1>2, SetInduction
<1> QED
  BY <1>3 DEF T
=============================================================================
