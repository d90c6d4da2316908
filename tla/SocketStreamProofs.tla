-------------------------- MODULE SocketStreamProofs --------------------------
(***************************************************************************)
(* Proofs of the safety properties of SocketStream, for any size of its    *)
(* buffers and any bytes.                                                  *)
(***************************************************************************)
EXTENDS SocketStream, SequenceTheorems, TLAPS

-----------------------------------------------------------------------------
(* Sequences *)

\* A sequence is any of its prefixes followed by the rest.
LEMMA Split ==
    ASSUME NEW S, NEW s \in Seq(S), NEW n \in 0..Len(s)
    PROVE  /\ SubSeq(s, 1, n) \in Seq(S) /\ Len(SubSeq(s, 1, n)) = n
           /\ SubSeq(s, n + 1, Len(s)) \in Seq(S)
           /\ Len(SubSeq(s, n + 1, Len(s))) = Len(s) - n
           /\ SubSeq(s, 1, n) \o SubSeq(s, n + 1, Len(s)) = s
<1>1. n \in Int /\ n + 1 \in Int /\ Len(s) \in Nat /\ n <= Len(s)
  OBVIOUS
<1>2. \A i \in 1..Len(s) : s[i] \in S
  BY ElementOfSeq
<1>3. /\ SubSeq(s, 1, n) \in Seq(S) /\ Len(SubSeq(s, 1, n)) = n
      /\ \A i \in 1..n : SubSeq(s, 1, n)[i] = s[i]
  <2>1. \A i \in 1..n : s[i] \in S
    BY <1>1, <1>2
  <2> QED
    BY <1>1, <2>1, SubSeqProperties
<1>4. /\ SubSeq(s, n + 1, Len(s)) \in Seq(S)
      /\ Len(SubSeq(s, n + 1, Len(s))) = Len(s) - n
      /\ \A i \in 1..(Len(s) - n) : SubSeq(s, n + 1, Len(s))[i] = s[n + i]
  <2>1. \A i \in (n + 1)..Len(s) : s[i] \in S
    BY <1>1, <1>2
  <2> QED
    BY <1>1, <2>1, SubSeqProperties
<1> DEFINE p == SubSeq(s, 1, n)
           q == SubSeq(s, n + 1, Len(s))
<1>5. /\ p \in Seq(S) /\ q \in Seq(S) /\ Len(p) = n /\ Len(q) = Len(s) - n
      /\ \A i \in 1..n : p[i] = s[i]
      /\ \A i \in 1..(Len(s) - n) : q[i] = s[n + i]
  BY <1>3, <1>4
<1>6. p \o q = s
  <2> HIDE DEF p, q
  <2>1. /\ p \o q \in Seq(S) /\ Len(p \o q) = Len(p) + Len(q)
        /\ \A i \in 1..(Len(p) + Len(q)) :
              (p \o q)[i] = IF i <= Len(p) THEN p[i] ELSE q[i - Len(p)]
    BY <1>5, ConcatProperties
  <2>2. Len(p) + Len(q) = Len(s)
    BY <1>1, <1>5
  <2>3. ASSUME NEW i \in 1..Len(s) PROVE (p \o q)[i] = s[i]
    <3>1. (p \o q)[i] = IF i <= n THEN p[i] ELSE q[i - n]
      BY <1>5, <2>1, <2>2, <2>3
    <3>2. CASE i <= n
      <4>1. i \in 1..n
        BY <1>1, <3>2
      <4> QED
        BY <1>5, <3>1, <3>2, <4>1
    <3>3. CASE ~(i <= n)
      <4>1. i - n \in 1..(Len(s) - n) /\ n + (i - n) = i
        BY <1>1, <3>3
      <4>2. q[i - n] = s[i]
        BY <1>5, <4>1
      <4> QED
        BY <3>1, <3>3, <4>2
    <3> QED
      BY <3>2, <3>3
  <2> QED
    BY <2>1, <2>2, <2>3, SeqEqual
<1> QED
  BY <1>3, <1>4, <1>6

\* A sequence that is not empty is its head followed by its tail.
LEMMA HeadThenTail ==
    ASSUME NEW S, NEW s \in Seq(S), s # <<>>
    PROVE  /\ Head(s) \in S /\ Tail(s) \in Seq(S)
           /\ s = <<Head(s)>> \o Tail(s)
<1>1. Len(s) \in Nat /\ Len(s) >= 1
  BY EmptySeq
<1>2. s = SubSeq(s, 1, Len(s))
  BY SubSeqFull
<1>3. SubSeq(s, 1, Len(s)) = <<s[1]>> \o SubSeq(s, 1 + 1, Len(s))
  BY <1>1, SubSeqRecursiveFirst
<1>4. Tail(s) = SubSeq(s, 2, Len(s)) /\ Head(s) = s[1]
  BY <1>1, TailIsSubSeq
<1>5. 1 + 1 = 2
  OBVIOUS
<1> QED
  BY <1>2, <1>3, <1>4, <1>5, HeadTailProperties

\* Moving the head of one sequence to the end of another keeps their whole.
LEMMA MoveHead ==
    ASSUME NEW S, NEW r \in Seq(S), NEW s \in Seq(S), s # <<>>
    PROVE  Append(r, Head(s)) \o Tail(s) = r \o s
<1>1. Head(s) \in S /\ Tail(s) \in Seq(S) /\ s = <<Head(s)>> \o Tail(s)
  BY HeadThenTail
<1>2. Append(r, Head(s)) = r \o <<Head(s)>>
  BY <1>1, AppendIsConcat
<1>3. <<Head(s)>> \in Seq(S)
  BY <1>1
<1>4. (r \o <<Head(s)>>) \o Tail(s) = r \o (<<Head(s)>> \o Tail(s))
  BY <1>1, <1>3, ConcatAssociative, SMTT(60)
<1> QED
  BY <1>1, <1>2, <1>4

\* The byte after a prefix.
LEMMA AfterPrefix ==
    ASSUME NEW S, NEW r \in Seq(S), NEW x \in S, NEW t \in Seq(S)
    PROVE  /\ Len(r) < Len(Append(r, x) \o t)
           /\ (Append(r, x) \o t)[Len(r) + 1] = x
<1>1. /\ Append(r, x) \in Seq(S) /\ Len(Append(r, x)) = Len(r) + 1
      /\ Append(r, x)[Len(r) + 1] = x
  BY AppendProperties
<1>2. Len(r) \in Nat /\ Len(t) \in Nat
  OBVIOUS
<1>3. /\ Len(Append(r, x) \o t) = Len(Append(r, x)) + Len(t)
      /\ \A i \in 1..(Len(Append(r, x)) + Len(t)) :
            (Append(r, x) \o t)[i] = IF i <= Len(Append(r, x))
                                     THEN Append(r, x)[i]
                                     ELSE t[i - Len(Append(r, x))]
  BY <1>1, ConcatProperties
<1>4. Len(r) + 1 \in 1..(Len(Append(r, x)) + Len(t))
  BY <1>1, <1>2
<1> QED
  BY <1>1, <1>2, <1>3, <1>4

Increasing(s) == \A i, j \in DOMAIN s : i < j => s[i] < s[j]

\* What leaves the end of an increasing sequence leaves its elements.
LEMMA PrefixOfIncreasing ==
    ASSUME NEW p \in Seq(Nat), NEW q \in Seq(Nat), Increasing(p \o q)
    PROVE  /\ Increasing(p)
           /\ Elements(p) = Elements(p \o q) \ Elements(q)
<1>1. /\ p \o q \in Seq(Nat) /\ Len(p \o q) = Len(p) + Len(q)
      /\ \A i \in 1..(Len(p) + Len(q)) :
            (p \o q)[i] = IF i <= Len(p) THEN p[i] ELSE q[i - Len(p)]
  BY ConcatProperties
<1>2. /\ DOMAIN p = 1..Len(p) /\ DOMAIN q = 1..Len(q) /\ Len(p) \in Nat /\ Len(q) \in Nat
      /\ DOMAIN (p \o q) = 1..(Len(p) + Len(q))
  BY <1>1, LenProperties
<1>3. /\ \A i \in 1..Len(p) : i \in DOMAIN (p \o q) /\ (p \o q)[i] = p[i]
      /\ \A i \in 1..Len(q) : /\ Len(p) + i \in DOMAIN (p \o q)
                              /\ (p \o q)[Len(p) + i] = q[i]
  <2>1. \A i \in 1..Len(p) : i \in 1..(Len(p) + Len(q)) /\ i <= Len(p)
    BY <1>2
  <2>2. \A i \in 1..Len(q) : /\ Len(p) + i \in 1..(Len(p) + Len(q))
                             /\ ~(Len(p) + i <= Len(p))
                             /\ Len(p) + i - Len(p) = i
    BY <1>2
  <2> QED
    BY <1>1, <1>2, <2>1, <2>2
<1>4. Increasing(p)
  BY <1>2, <1>3 DEF Increasing
<1>5. \A k \in DOMAIN (p \o q) : k \in DOMAIN p \/ k - Len(p) \in DOMAIN q
  BY <1>2
<1>6. Elements(p) \subseteq Elements(p \o q)
  BY <1>2, <1>3 DEF Elements
<1>7. ASSUME NEW i \in DOMAIN p, NEW j \in DOMAIN q PROVE p[i] # q[j]
  <2>1. i < Len(p) + j
    BY <1>2, <1>7
  <2>2. (p \o q)[i] < (p \o q)[Len(p) + j]
    BY <1>2, <1>3, <2>1 DEF Increasing
  <2>3. p[i] < q[j] /\ p[i] \in Nat /\ q[j] \in Nat
    BY <1>2, <1>3, <2>2, ElementOfSeq
  <2> QED
    BY <2>3
<1>8. Elements(p \o q) \subseteq Elements(p) \union Elements(q)
  BY <1>1, <1>2, <1>5 DEF Elements
<1>9. Elements(p) \intersect Elements(q) = {}
  BY <1>7 DEF Elements
<1> QED
  BY <1>4, <1>6, <1>8, <1>9
-----------------------------------------------------------------------------
(* Output *)

OutputInv ==
    /\ put \in Seq(Nat) /\ Len(put) <= Size - 1
    /\ outgoing \in Seq(Nat)
    /\ written \in Nat /\ lost \subseteq 1..written
    /\ AccountedFor

LEMMA OutputInit == Init => OutputInv
<1> SUFFICES ASSUME Init PROVE OutputInv
  OBVIOUS
<1>1. /\ put \in Seq(Nat) /\ outgoing \in Seq(Nat) /\ Len(put) = 0
      /\ written = 0 /\ lost = {}
  BY DEF Init
<1>2. Flow = <<>>
  BY DEF Init, Flow
<1>3. AccountedFor
  <2>1. Elements(<<>>) = {}
    BY DEF Elements
  <2> QED
    BY <1>1, <1>2, <2>1 DEF AccountedFor
<1>4. 0 <= Size - 1
  BY SizeAssumption
<1> QED
  BY <1>1, <1>3, <1>4 DEF OutputInv

\* What _M_write_base sends is a prefix of the put area; what it loses is the
\* rest of it and the byte that overflow got.
LEMMA WriteBaseSplits ==
    ASSUME put \in Seq(Nat), NEW overflowing, WriteBase(overflowing)
    PROVE  /\ put' = <<>> /\ rdstate' = rdstate
           /\ \E p, q \in Seq(Nat) :
                /\ put = p \o q
                /\ outgoing' = outgoing \o p
                /\ lost' = lost \union Elements(q) \union overflowing
<1>1. PICK n \in IF PartialSends /\ put # <<>> THEN 1..Len(put) ELSE {Len(put)} :
        /\ outgoing' = outgoing \o SubSeq(put, 1, n)
        /\ lost' = lost \union Elements(SubSeq(put, n + 1, Len(put)))
                        \union overflowing
  BY DEF WriteBase
<1>2. n \in 0..Len(put)
  <2>1. Len(put) \in Nat
    OBVIOUS
  <2> QED
    BY <1>1, <2>1
<1>3. /\ SubSeq(put, 1, n) \in Seq(Nat)
      /\ SubSeq(put, n + 1, Len(put)) \in Seq(Nat)
      /\ SubSeq(put, 1, n) \o SubSeq(put, n + 1, Len(put)) = put
  BY <1>2, Split
<1>4. put' = <<>> /\ rdstate' = rdstate
  BY DEF WriteBase, AfterSend
<1> QED
  BY <1>1, <1>3, <1>4

\* Emptying the put area, with a prefix of it sent and the rest of it lost,
\* and perhaps accepting a byte that is lost too.
LEMMA EmptyingKeepsOutputInv ==
    ASSUME OutputInv, NEW p \in Seq(Nat), NEW q \in Seq(Nat), put = p \o q,
           put' = <<>>, outgoing' = outgoing \o p,
           written' \in Nat, written' >= written,
           lost' = lost \union Elements(q) \union ((written + 1)..written')
    PROVE  OutputInv'
<1>1. outgoing \in Seq(Nat) /\ outgoing \o p \in Seq(Nat)
  BY ConcatProperties DEF OutputInv
<1>2. Flow = (outgoing \o p) \o q
  <2>1. (outgoing \o p) \o q = outgoing \o (p \o q)
    BY <1>1, ConcatAssociative, SMTT(60)
  <2>2. Flow = outgoing \o put
    BY DEF Flow
  <2> QED
    BY <2>1, <2>2
<1>3. Increasing((outgoing \o p) \o q)
  BY <1>2 DEF OutputInv, AccountedFor, Increasing
<1>4. /\ Increasing(outgoing \o p)
      /\ Elements(outgoing \o p) = Elements(Flow) \ Elements(q)
  BY <1>1, <1>2, <1>3, PrefixOfIncreasing
<1>5. Flow' = outgoing \o p
  <2>1. (outgoing \o p) \o <<>> = outgoing \o p
    BY <1>1, ConcatEmptySeq
  <2> QED
    BY <2>1 DEF Flow
<1>6. Elements(q) \subseteq Elements(Flow)
  <2>1. /\ Len((outgoing \o p) \o q) = Len(outgoing \o p) + Len(q)
        /\ \A i \in 1..(Len(outgoing \o p) + Len(q)) :
             ((outgoing \o p) \o q)[i] =
                IF i <= Len(outgoing \o p) THEN (outgoing \o p)[i]
                                           ELSE q[i - Len(outgoing \o p)]
    BY <1>1, ConcatProperties
  <2>2. Len(outgoing \o p) \in Nat /\ Len(q) \in Nat /\ DOMAIN q = 1..Len(q)
    BY <1>1
  <2>3. DOMAIN Flow = 1..(Len(outgoing \o p) + Len(q))
    <3>1. Flow \in Seq(Nat)
      BY <1>1, <1>2, ConcatProperties
    <3> QED
      BY <1>2, <2>1, <3>1, LenProperties
  <2>4. ASSUME NEW i \in DOMAIN q
        PROVE  /\ Len(outgoing \o p) + i \in DOMAIN Flow
               /\ Flow[Len(outgoing \o p) + i] = q[i]
    <3> DEFINE l == Len(outgoing \o p)
    <3>1. l + i \in 1..(l + Len(q)) /\ ~(l + i <= l) /\ (l + i) - l = i
      BY <2>2, <2>4
    <3>2. Flow[l + i] = q[(l + i) - l]
      BY <1>2, <2>1, <3>1
    <3> QED
      BY <2>3, <3>1, <3>2
  <2> QED
    BY <2>4 DEF Elements
<1>7. Elements(Flow) = (1..written) \ lost /\ lost \subseteq 1..written /\ written \in Nat
  BY DEF OutputInv, AccountedFor
<1>8. lost' \subseteq 1..written' /\ Elements(outgoing \o p) = (1..written') \ lost'
  <2> DEFINE new == (written + 1)..written'
             rest == Elements(q)
  <2>1. 1..written' = (1..written) \union new /\ (1..written) \intersect new = {}
    BY <1>7
  <2>2. /\ rest \subseteq Elements(Flow) /\ lost' = (lost \union rest) \union new
        /\ Elements(outgoing \o p) = Elements(Flow) \ rest
    BY <1>4, <1>6
  <2> HIDE DEF new, rest
  <2> QED
    BY <1>7, <2>1, <2>2, Zenon
<1>9. AccountedFor'
  <2>1. Elements(Flow)' = Elements(outgoing \o p)
    BY <1>5 DEF Elements
  <2>2. (\A i, j \in DOMAIN Flow : i < j => Flow[i] < Flow[j])'
    BY <1>4, <1>5 DEF Increasing
  <2> QED
    BY <1>8, <2>1, <2>2 DEF AccountedFor
<1>10. (put \in Seq(Nat) /\ Len(put) <= Size - 1)'
  <2>1. put' \in Seq(Nat) /\ Len(put') = 0
    OBVIOUS
  <2> QED
    BY <2>1, SizeAssumption
<1> QED
  BY <1>1, <1>8, <1>9, <1>10 DEF OutputInv

\* A byte that finds room is the last and the greatest of the flow.
LEMMA BufferKeepsOutputInv == OutputInv /\ Buffer => OutputInv'
<1> SUFFICES ASSUME OutputInv, Buffer PROVE OutputInv'
  OBVIOUS
<1>1. /\ put \in Seq(Nat) /\ outgoing \in Seq(Nat) /\ written \in Nat
      /\ lost \subseteq 1..written
      /\ Elements(Flow) = (1..written) \ lost
      /\ \A i, j \in DOMAIN Flow : i < j => Flow[i] < Flow[j]
  BY DEF OutputInv, AccountedFor
<1>2. /\ put' = Append(put, written + 1) /\ written' = written + 1
      /\ outgoing' = outgoing /\ lost' = lost /\ Len(put) < Size - 1
  BY DEF Buffer
<1>3. written + 1 \in Nat /\ Flow \in Seq(Nat)
  BY <1>1, ConcatProperties DEF Flow
<1>4. Flow' = Append(Flow, written + 1)
  <2>1. <<written + 1>> \in Seq(Nat)
    BY <1>3
  <2>2. put' = put \o <<written + 1>>
    BY <1>1, <1>2, <1>3, AppendIsConcat
  <2>3. (outgoing \o put) \o <<written + 1>> = outgoing \o (put \o <<written + 1>>)
    BY <1>1, <2>1, ConcatAssociative, SMTT(60)
  <2>4. Append(Flow, written + 1) = Flow \o <<written + 1>>
    BY <1>3, AppendIsConcat
  <2> QED
    BY <1>2, <2>2, <2>3, <2>4 DEF Flow
<1>5. /\ DOMAIN Flow' = 1..(Len(Flow) + 1) /\ DOMAIN Flow = 1..Len(Flow)
      /\ Flow'[Len(Flow) + 1] = written + 1
      /\ \A i \in 1..Len(Flow) : Flow'[i] = Flow[i]
      /\ Len(Flow) \in Nat
  <2>1. /\ Append(Flow, written + 1) \in Seq(Nat)
        /\ Len(Append(Flow, written + 1)) = Len(Flow) + 1
        /\ \A i \in 1..Len(Flow) : Append(Flow, written + 1)[i] = Flow[i]
        /\ Append(Flow, written + 1)[Len(Flow) + 1] = written + 1
    BY <1>3, AppendProperties
  <2> QED
    BY <1>3, <1>4, <2>1, LenProperties
<1>6. \A i \in 1..Len(Flow) : Flow[i] < written + 1
  <2>1. \A i \in 1..Len(Flow) : Flow[i] \in 1..written
    BY <1>1, <1>5 DEF Elements
  <2> QED
    BY <1>1, <2>1
<1>7. (\A i, j \in DOMAIN Flow : i < j => Flow[i] < Flow[j])'
  <2> SUFFICES ASSUME NEW i \in 1..(Len(Flow) + 1), NEW j \in 1..(Len(Flow) + 1), i < j
               PROVE  Flow'[i] < Flow'[j]
    BY <1>5
  <2>1. i \in 1..Len(Flow) /\ (j \in 1..Len(Flow) \/ j = Len(Flow) + 1)
    BY <1>5
  <2>2. CASE j \in 1..Len(Flow)
    BY <1>1, <1>5, <2>1, <2>2
  <2>3. CASE j = Len(Flow) + 1
    BY <1>5, <1>6, <2>1, <2>3
  <2> QED
    BY <2>1, <2>2, <2>3
<1>8. Elements(Flow)' = Elements(Flow) \union {written + 1}
  <2>1. \A i \in 1..(Len(Flow) + 1) : i \in 1..Len(Flow) \/ i = Len(Flow) + 1
    BY <1>5
  <2>2. Len(Flow) + 1 \in 1..(Len(Flow) + 1) /\ 1..Len(Flow) \subseteq 1..(Len(Flow) + 1)
    BY <1>5
  <2> QED
    BY <1>5, <2>1, <2>2 DEF Elements
<1>9. /\ lost \subseteq 1..(written + 1)
      /\ Elements(Flow) \union {written + 1} = (1..(written + 1)) \ lost
  BY <1>1
<1>10. AccountedFor'
  BY <1>2, <1>7, <1>8, <1>9 DEF AccountedFor
<1>11. put' \in Seq(Nat) /\ Len(put') <= Size - 1
  <2>1. put' \in Seq(Nat) /\ Len(put') = Len(put) + 1 /\ Len(put) \in Nat
    BY <1>1, <1>2, <1>3, AppendProperties
  <2> QED
    BY <1>2, <2>1, SizeAssumption
<1> QED
  BY <1>1, <1>2, <1>3, <1>9, <1>10, <1>11 DEF OutputInv

LEMMA OutputNext == OutputInv /\ [Next]_vars => OutputInv'
<1> SUFFICES ASSUME OutputInv, [Next]_vars PROVE OutputInv'
  OBVIOUS
<1>1. put \in Seq(Nat) /\ written \in Nat
  BY DEF OutputInv
<1>2. ASSUME UNCHANGED output PROVE OutputInv'
  BY <1>2 DEF OutputInv, AccountedFor, Flow, output
<1>3. CASE Buffer
  BY <1>3, BufferKeepsOutputInv
<1>4. CASE overflow
  <2>1. CASE WriteBase({written + 1}) /\ written' = written + 1
    <3>1. PICK p, q \in Seq(Nat) :
            /\ put = p \o q
            /\ outgoing' = outgoing \o p
            /\ lost' = lost \union Elements(q) \union {written + 1}
      BY <1>1, <2>1, WriteBaseSplits
    <3>2. put' = <<>>
      BY <1>1, <2>1, WriteBaseSplits
    <3>3. {written + 1} = (written + 1)..written' /\ written' \in Nat /\ written' >= written
      BY <1>1, <2>1
    <3> QED
      BY <3>1, <3>2, <3>3, EmptyingKeepsOutputInv
  <2>2. CASE WriteFails /\ UNCHANGED written
    BY <1>2, <2>2 DEF WriteFails, output
  <2> QED
    BY <1>4, <2>1, <2>2 DEF overflow
<1>5. CASE sync
  <2>1. CASE WriteBase({})
    <3>1. PICK p, q \in Seq(Nat) :
            /\ put = p \o q
            /\ outgoing' = outgoing \o p
            /\ lost' = lost \union Elements(q) \union {}
      BY <1>1, <2>1, WriteBaseSplits
    <3>2. put' = <<>>
      BY <1>1, <2>1, WriteBaseSplits
    <3>3. /\ written' = written /\ {} = (written + 1)..written'
          /\ written' \in Nat /\ written' >= written
      BY <1>1, <1>5 DEF sync
    <3> QED
      BY <3>1, <3>2, <3>3, EmptyingKeepsOutputInv
  <2>2. CASE WriteFails
    BY <1>2, <1>5, <2>2 DEF WriteFails, sync, output
  <2> QED
    BY <1>5, <2>1, <2>2 DEF sync
<1>6. CASE Destroy
  <2>1. /\ outgoing \in Seq(Nat) /\ <<>> \in Seq(Nat)
        /\ put = <<>> \o put /\ outgoing = outgoing \o <<>>
    BY <1>1, ConcatEmptySeq DEF OutputInv
  <2>2. /\ written' = written /\ (written + 1)..written' = {}
        /\ written' \in Nat /\ written' >= written
    BY <1>1, <1>6 DEF Destroy
  <2>3. put' = <<>> /\ outgoing' = outgoing /\ lost' = lost \union Elements(put)
    BY <1>6 DEF Destroy
  <2> QED
    BY <1>1, <2>1, <2>2, <2>3, EmptyingKeepsOutputInv
<1>7. CASE Read
  BY <1>2, <1>7 DEF Read, Unbuffer, underflow
<1>8. CASE Underflow
  BY <1>2, <1>8 DEF Underflow, PollReturns, PollEnds, Receive, ReceiveEnds
<1>9. ASSUME NEW milliseconds \in Timeouts, set_timeout(milliseconds) PROVE OutputInv'
  BY <1>2, <1>9 DEF set_timeout
<1>10. CASE clear \/ CloseElsewhere
  BY <1>2, <1>10 DEF clear, CloseElsewhere
<1>11. CASE Peer
  BY <1>2, <1>11 DEF Peer, PeerSends, PeerEnds, PeerGoes
<1>12. CASE UNCHANGED vars
  BY <1>2, <1>12 DEF vars, output
<1> QED
  BY <1>3, <1>4, <1>5, <1>6, <1>7, <1>8, <1>9, <1>10, <1>11, <1>12 DEF Next, Write

\* Every byte accepted is sent, waiting, or lost where AccountedFor says; none
\* goes twice or out of order (_M_write_base, with retries and partial sends).
THEOREM Accounted == Spec => []AccountedFor
<1>1. OutputInv => AccountedFor
  BY DEF OutputInv
<1> QED
  BY <1>1, OutputInit, OutputNext, PTL DEF Spec
-----------------------------------------------------------------------------
(* Input *)

ControlTypes ==
    /\ m_hangup_ \in BOOLEAN /\ m_timeout_ \in Int /\ m_timeout_ >= -1
    /\ rdstate \subseteq {"badbit", "eofbit"}
    /\ pc \in {"idle", "poll", "recv", "destroyed"}
    /\ closed \in BOOLEAN /\ peer \in {"open", "ended", "gone"}

InputTypes ==
    /\ get \in Seq(Bytes) /\ Len(get) <= Size
    /\ incoming \in Seq(Bytes)
    /\ sent \in Seq(Bytes) /\ received \in Seq(Bytes)

\* The connection is read only into an empty get area, and never after a hangup.
EmptyWhenRead ==
    /\ pc \in {"poll", "recv"} => get = <<>> /\ ~m_hangup_
    /\ m_hangup_ => get = <<>>

\* What the peer sent was read, waits in the get area, or is in the kernel.
Ordered == pc # "destroyed" => sent = received \o (get \o incoming)

InputInv == ControlTypes /\ InputTypes /\ EmptyWhenRead /\ Ordered

LEMMA InputInit == Init => InputInv
<1> SUFFICES ASSUME Init PROVE InputInv
  OBVIOUS
<1>1. /\ get = <<>> /\ incoming = <<>> /\ sent = <<>> /\ received = <<>>
  BY DEF Init
<1>2. <<>> \in Seq(Bytes) /\ Len(<<>>) = 0 /\ 0 <= Size
  BY SizeAssumption
<1>3. <<>> \o (<<>> \o <<>>) = <<>>
  BY <1>2, ConcatEmptySeq
<1>4. ControlTypes /\ EmptyWhenRead
  <2>1. m_hangup_ \in BOOLEAN /\ closed \in BOOLEAN /\ ~m_hangup_ /\ pc = "idle"
    BY DEF Init
  <2>2. m_timeout_ \in Int /\ m_timeout_ >= -1 /\ rdstate = {} /\ peer = "open"
    BY DEF Init
  <2>3. "idle" # "poll" /\ "idle" # "recv"
    OBVIOUS
  <2> QED
    BY <2>1, <2>2, <2>3 DEF ControlTypes, EmptyWhenRead
<1> QED
  BY <1>1, <1>2, <1>3, <1>4 DEF InputInv, InputTypes, Ordered

LEMMA WriteKeepsInputInv == InputInv /\ Write => InputInv'
<1> SUFFICES ASSUME InputInv, Write PROVE InputInv'
  OBVIOUS
<1>1. UNCHANGED input
  BY DEF Write, Buffer, overflow, sync
<1>2. UNCHANGED <<m_hangup_, m_timeout_, pc, closed, peer>>
  BY DEF Write, Buffer, overflow, sync
<1>3. rdstate' \subseteq rdstate \union {"badbit"}
  BY DEF Write, Buffer, overflow, sync, WriteBase, WriteFails
<1> QED
  BY <1>1, <1>2, <1>3 DEF InputInv, ControlTypes, InputTypes, EmptyWhenRead,
     Ordered, input

\* Giving the first byte of an area to the program keeps what was sent in order.
LEMMA GiveMoves ==
    ASSUME InputInv, NEW area \in Seq(Bytes), area # <<>>, Give(area),
           NEW rest \in Seq(Bytes), sent = received \o (area \o rest)
    PROVE  /\ received' \in Seq(Bytes) /\ get' \in Seq(Bytes)
           /\ Len(get') = Len(area) - 1
           /\ Head(area) \in Bytes
           /\ sent = received' \o (get' \o rest)
<1>1. received \in Seq(Bytes)
  BY DEF InputInv, InputTypes
<1>2. received' = Append(received, Head(area)) /\ get' = Tail(area)
  BY DEF Give
<1>3. Head(area) \in Bytes /\ get' \in Seq(Bytes) /\ Len(get') = Len(area) - 1
  BY <1>2, HeadTailProperties
<1>4. received' \in Seq(Bytes)
  BY <1>1, <1>2, <1>3, AppendProperties
<1>5. received' \o get' = received \o area
  BY <1>1, <1>2, MoveHead
<1>6. (received' \o get') \o rest = received' \o (get' \o rest)
  BY <1>3, <1>4, ConcatAssociative, SMTT(60)
<1>7. (received \o area) \o rest = received \o (area \o rest)
  BY <1>1, ConcatAssociative, SMTT(60)
<1> QED
  BY <1>3, <1>4, <1>5, <1>6, <1>7

LEMMA UnbufferKeepsInputInv == InputInv /\ Unbuffer => InputInv'
<1> SUFFICES ASSUME InputInv, Unbuffer PROVE InputInv'
  OBVIOUS
<1>1. /\ get \in Seq(Bytes) /\ incoming \in Seq(Bytes) /\ sent \in Seq(Bytes)
      /\ Len(get) <= Size /\ Len(get) \in Nat
  BY DEF InputInv, InputTypes
<1>2. /\ pc = "idle" /\ pc' = "idle" /\ get # <<>> /\ Give(get) /\ rdstate' = rdstate
      /\ UNCHANGED <<m_hangup_, m_timeout_, closed, peer, incoming, sent>>
  BY DEF Unbuffer, Calls, Give
<1>3. sent = received \o (get \o incoming)
  BY <1>2 DEF InputInv, Ordered
<1>4. /\ received' \in Seq(Bytes) /\ get' \in Seq(Bytes)
      /\ Len(get') = Len(get) - 1
      /\ sent = received' \o (get' \o incoming)
  BY <1>1, <1>2, <1>3, GiveMoves
<1>5. ~m_hangup_
  BY <1>2 DEF InputInv, EmptyWhenRead
<1>6. Len(get') <= Size
  BY <1>1, <1>4, SizeAssumption
<1>7. InputTypes'
  BY <1>1, <1>2, <1>4, <1>6 DEF InputTypes
<1>8. ControlTypes' /\ EmptyWhenRead'
  BY <1>2, <1>5 DEF InputInv, ControlTypes, EmptyWhenRead
<1> QED
  BY <1>2, <1>4, <1>7, <1>8 DEF InputInv, Ordered

LEMMA ReceiveKeepsInputInv == InputInv /\ Receive => InputInv'
<1> SUFFICES ASSUME InputInv, Receive PROVE InputInv'
  OBVIOUS
<1>1. /\ incoming \in Seq(Bytes) /\ sent \in Seq(Bytes) /\ received \in Seq(Bytes)
      /\ incoming # <<>> /\ pc = "recv" /\ get = <<>> /\ ~m_hangup_
  BY DEF InputInv, InputTypes, EmptyWhenRead, Receive
<1> DEFINE n == IF Len(incoming) < Size THEN Len(incoming) ELSE Size
           area == SubSeq(incoming, 1, n)
           rest == SubSeq(incoming, n + 1, Len(incoming))
<1>2. Len(incoming) \in Nat /\ Len(incoming) > 0
  BY <1>1, EmptySeq
<1>3. n \in 0..Len(incoming) /\ n > 0 /\ n <= Size
  BY <1>2, SizeAssumption
<1>4. /\ area \in Seq(Bytes) /\ Len(area) = n
      /\ rest \in Seq(Bytes)
      /\ area \o rest = incoming
  <2> HIDE DEF n
  <2> QED
    BY <1>1, <1>3, Split
<1>5. /\ incoming' = rest
      /\ \/ Give(area)
         \/ EndOfFile({}) /\ get' = area
      /\ UNCHANGED <<m_hangup_, m_timeout_, closed, peer, sent>>
  BY DEF Receive, GetArea
<1> HIDE DEF n, area, rest
<1>6. area # <<>>
  BY <1>3, <1>4
<1>7. sent = received \o (area \o rest)
  <2>1. <<>> \o incoming = incoming
    BY <1>1, ConcatEmptySeq
  <2> QED
    BY <1>1, <1>4, <2>1 DEF InputInv, Ordered
<1>8. CASE Give(area)
  <2>1. /\ received' \in Seq(Bytes) /\ get' \in Seq(Bytes) /\ Len(get') = n - 1
        /\ sent = received' \o (get' \o rest)
    BY <1>4, <1>6, <1>7, <1>8, GiveMoves
  <2>2. pc' = "idle" /\ rdstate' = rdstate
    BY <1>8 DEF Give
  <2>3. Len(get') <= Size
    BY <1>3, <2>1, SizeAssumption
  <2>4. InputTypes'
    BY <1>1, <1>4, <1>5, <2>1, <2>3 DEF InputTypes
  <2>5. ControlTypes' /\ EmptyWhenRead'
    BY <1>1, <1>5, <2>2 DEF InputInv, ControlTypes, EmptyWhenRead
  <2> QED
    BY <1>5, <2>1, <2>4, <2>5 DEF InputInv, Ordered
<1>9. CASE EndOfFile({}) /\ get' = area
  <2>1. /\ received' = received /\ pc' = "idle"
        /\ rdstate' = rdstate \union {} \union {"eofbit"}
    BY <1>9 DEF EndOfFile
  <2>2. InputTypes'
    BY <1>1, <1>3, <1>4, <1>5, <1>9, <2>1 DEF InputTypes
  <2>3. ControlTypes' /\ EmptyWhenRead'
    BY <1>1, <1>5, <2>1 DEF InputInv, ControlTypes, EmptyWhenRead
  <2> QED
    BY <1>5, <1>7, <1>9, <2>1, <2>2, <2>3 DEF InputInv, Ordered
<1> QED
  BY <1>5, <1>8, <1>9

LEMMA PeerKeepsInputInv == InputInv /\ Peer => InputInv'
<1> SUFFICES ASSUME InputInv, Peer PROVE InputInv'
  OBVIOUS
<1>1. ASSUME NEW b \in Bytes, PeerSends(b) PROVE InputInv'
  <2>1. /\ get \in Seq(Bytes) /\ incoming \in Seq(Bytes)
        /\ sent \in Seq(Bytes) /\ received \in Seq(Bytes)
    BY DEF InputInv, InputTypes
  <2>2. /\ sent' = Append(sent, b) /\ incoming' = Append(incoming, b)
        /\ UNCHANGED <<m_hangup_, m_timeout_, rdstate, pc, closed, peer, get, received>>
    BY <1>1 DEF PeerSends
  <2>3. sent' \in Seq(Bytes) /\ incoming' \in Seq(Bytes)
    BY <2>1, <2>2, AppendProperties
  <2>4. ASSUME pc # "destroyed" PROVE sent' = received \o (get \o incoming')
    <3>1. <<b>> \in Seq(Bytes) /\ get \o incoming \in Seq(Bytes)
      BY <2>1, ConcatProperties
    <3>2. sent' = sent \o <<b>> /\ incoming' = incoming \o <<b>>
      BY <2>1, <2>2, AppendIsConcat
    <3>3. (get \o incoming) \o <<b>> = get \o (incoming \o <<b>>)
      BY <2>1, <3>1, ConcatAssociative, SMTT(60)
    <3>4. (received \o (get \o incoming)) \o <<b>> = received \o ((get \o incoming) \o <<b>>)
      BY <2>1, <3>1, ConcatAssociative, SMTT(60)
    <3> QED
      BY <2>4, <3>2, <3>3, <3>4 DEF InputInv, Ordered
  <2>5. InputTypes' /\ ControlTypes' /\ EmptyWhenRead'
    BY <2>2, <2>3 DEF InputInv, InputTypes, ControlTypes, EmptyWhenRead
  <2> QED
    BY <2>2, <2>4, <2>5 DEF InputInv, Ordered
<1>2. CASE PeerEnds \/ PeerGoes
  <2>1. /\ peer' \in {"open", "ended", "gone"}
        /\ UNCHANGED <<m_hangup_, m_timeout_, rdstate, pc, closed>>
        /\ UNCHANGED <<get, incoming, sent, received>>
    BY <1>2 DEF PeerEnds, PeerGoes, input
  <2>2. ControlTypes' /\ EmptyWhenRead'
    BY <2>1 DEF InputInv, ControlTypes, EmptyWhenRead
  <2> QED
    BY <2>1, <2>2 DEF InputInv, InputTypes, Ordered
<1> QED
  BY <1>1, <1>2 DEF Peer

LEMMA InputNext == InputInv /\ [Next]_vars => InputInv'
<1> SUFFICES ASSUME InputInv, [Next]_vars PROVE InputInv'
  OBVIOUS
<1>1. CASE Write
  BY <1>1, WriteKeepsInputInv
<1>2. CASE Unbuffer
  BY <1>2, UnbufferKeepsInputInv
<1>3. CASE underflow
  <2>1. /\ pc = "idle" /\ get = <<>> /\ received' = received
        /\ UNCHANGED <<m_hangup_, m_timeout_, closed, peer, get, incoming, sent>>
        /\ \/ pc' = "idle" /\ rdstate' \subseteq rdstate \union {"badbit", "eofbit"}
           \/ pc' = "poll" /\ ~m_hangup_ /\ rdstate' = rdstate
    BY <1>3 DEF underflow, Calls, EndOfFile
  <2> QED
    BY <2>1 DEF InputInv, ControlTypes, InputTypes, EmptyWhenRead, Ordered
<1>4. CASE PollReturns
  <2>1. /\ pc = "poll" /\ get = <<>> /\ ~m_hangup_
        /\ UNCHANGED <<m_timeout_, closed, peer, get, incoming, sent>>
    BY <1>4 DEF PollReturns, InputInv, EmptyWhenRead
  <2>2. /\ received' = received
        /\ \/ /\ m_hangup_' = TRUE /\ pc' = "idle"
              /\ rdstate' \subseteq rdstate \union {"badbit", "eofbit"}
           \/ m_hangup_' = m_hangup_ /\ pc' = "recv" /\ rdstate' = rdstate
    BY <1>4 DEF PollReturns, EndOfFile
  <2>3. ControlTypes'
    BY <2>1, <2>2 DEF InputInv, ControlTypes
  <2>4. EmptyWhenRead'
    <3>1. get' = <<>>
      BY <2>1
    <3>2. pc' \in {"poll", "recv"} => ~m_hangup_'
      BY <2>1, <2>2
    <3> QED
      BY <3>1, <3>2 DEF EmptyWhenRead
  <2>5. InputTypes' /\ Ordered'
    BY <2>1, <2>2 DEF InputInv, InputTypes, Ordered
  <2> QED
    BY <2>3, <2>4, <2>5 DEF InputInv
<1>5. CASE PollEnds \/ ReceiveEnds
  <2>1. /\ pc \in {"poll", "recv"} /\ pc' = "idle" /\ received' = received
        /\ rdstate' \subseteq rdstate \union {"badbit", "eofbit"}
        /\ UNCHANGED <<m_hangup_, m_timeout_, closed, peer, get, incoming, sent>>
    BY <1>5 DEF PollEnds, ReceiveEnds, EndOfFile
  <2> QED
    BY <2>1 DEF InputInv, ControlTypes, InputTypes, EmptyWhenRead, Ordered
<1>6. CASE Receive
  BY <1>6, ReceiveKeepsInputInv
<1>7. ASSUME NEW milliseconds \in Timeouts, set_timeout(milliseconds) PROVE InputInv'
  <2>1. m_timeout_' \in Int /\ m_timeout_' >= -1
    BY <1>7, TimeoutsAssumption DEF set_timeout, Timeout
  <2> QED
    BY <1>7, <2>1 DEF set_timeout, InputInv, ControlTypes, InputTypes,
       EmptyWhenRead, Ordered, input
<1>8. CASE clear
  BY <1>8 DEF clear, InputInv, ControlTypes, InputTypes, EmptyWhenRead,
     Ordered, input
<1>9. CASE Destroy
  <2>1. /\ pc' = "destroyed" /\ get' = <<>> /\ closed' \in BOOLEAN
        /\ UNCHANGED <<m_hangup_, m_timeout_, rdstate, peer, incoming, sent, received>>
    BY <1>9 DEF Destroy, InputInv, ControlTypes
  <2>2. get' \in Seq(Bytes) /\ Len(get') <= Size
    BY <2>1, SizeAssumption
  <2> QED
    BY <2>1, <2>2 DEF InputInv, ControlTypes, InputTypes, EmptyWhenRead, Ordered
<1>10. CASE CloseElsewhere
  BY <1>10 DEF CloseElsewhere, InputInv, ControlTypes, InputTypes,
     EmptyWhenRead, Ordered, input
<1>11. CASE Peer
  BY <1>11, PeerKeepsInputInv
<1>12. CASE UNCHANGED vars
  BY <1>12 DEF vars, InputInv, ControlTypes, InputTypes, EmptyWhenRead, Ordered
<1> QED
  BY <1>1, <1>2, <1>3, <1>4, <1>5, <1>6, <1>7, <1>8, <1>9, <1>10, <1>11, <1>12
     DEF Next, Read, Underflow

\* Every variable keeps its type; no area outgrows its buffer (_M_initialize).
THEOREM TypeCorrect == Spec => []TypeOK
<1>1. OutputInv /\ InputInv => TypeOK
  BY DEF OutputInv, InputInv, ControlTypes, InputTypes, TypeOK
<1> QED
  BY <1>1, OutputInit, OutputNext, InputInit, InputNext, PTL DEF Spec

-----------------------------------------------------------------------------
(* The channel that reading implements *)

\* Giving a byte to the program is a step of the channel.
LEMMA GiveReceives ==
    ASSUME InputInv, ~m_hangup_, UNCHANGED <<m_hangup_, sent>>,
           NEW b \in Bytes, received' = Append(received, b),
           NEW rest \in Seq(Bytes), sent = received' \o rest
    PROVE  Channel!Receive
<1>1. received \in Seq(Bytes)
  BY DEF InputInv, InputTypes
<1>2. Len(received) < Len(sent) /\ sent[Len(received) + 1] = b
  BY <1>1, AfterPrefix
<1> QED
  BY <1>2 DEF Channel!Receive

LEMMA StepsAreChannelSteps ==
    InputInv /\ [Next]_vars => [Channel!Next]_Channel!vars
<1> SUFFICES ASSUME InputInv, [Next]_vars PROVE [Channel!Next]_Channel!vars
  OBVIOUS
<1> USE DEF Channel!vars
<1>1. InputInv'
  BY InputNext
<1>2. CASE Unbuffer
  <2>1. /\ get # <<>> /\ Give(get) /\ pc = "idle" /\ pc' = "idle"
        /\ UNCHANGED <<m_hangup_, sent>>
    BY <1>2 DEF Unbuffer, Calls, Give
  <2>2. /\ received' = Append(received, Head(get)) /\ Head(get) \in Bytes
        /\ ~m_hangup_
    BY <2>1, HeadTailProperties DEF Give, InputInv, InputTypes, EmptyWhenRead
  <2>3. get' \o incoming' \in Seq(Bytes)
    BY <1>1, ConcatProperties DEF InputInv, InputTypes
  <2>4. sent = received' \o (get' \o incoming')
    BY <1>1, <2>1 DEF InputInv, Ordered
  <2>5. Channel!Receive
    BY <2>1, <2>2, <2>3, <2>4, GiveReceives
  <2> QED
    BY <2>5 DEF Channel!Next
<1>3. CASE Receive
  <2>1. /\ pc = "recv" /\ incoming # <<>> /\ ~m_hangup_
        /\ pc' = "idle"
        /\ UNCHANGED <<m_hangup_, sent>>
    BY <1>3 DEF Receive, Give, EndOfFile, InputInv, EmptyWhenRead
  <2>2. CASE received' = received
    BY <2>1, <2>2
  <2>3. ASSUME NEW area, Give(area), area = SubSeq(incoming, 1,
                 IF Len(incoming) < Size THEN Len(incoming) ELSE Size)
        PROVE  Channel!Receive
    <3> DEFINE n == IF Len(incoming) < Size THEN Len(incoming) ELSE Size
    <3>1. incoming \in Seq(Bytes) /\ Len(incoming) \in Nat /\ Len(incoming) > 0
      BY <2>1, EmptySeq DEF InputInv, InputTypes
    <3>2. n \in 0..Len(incoming) /\ n > 0
      BY <3>1, SizeAssumption
    <3>3. area \in Seq(Bytes) /\ Len(area) = n
      <4>1. area = SubSeq(incoming, 1, n)
        BY <2>3
      <4> HIDE DEF n
      <4> QED
        BY <3>1, <3>2, <4>1, Split
    <3>4. area # <<>> /\ Head(area) \in Bytes
      <4>1. area # <<>>
        BY <3>2, <3>3
      <4> QED
        BY <3>3, <4>1, HeadTailProperties
    <3>5. received' = Append(received, Head(area))
      BY <2>3 DEF Give
    <3>6. get' \o incoming' \in Seq(Bytes)
      BY <1>1, ConcatProperties DEF InputInv, InputTypes
    <3>7. sent = received' \o (get' \o incoming')
      BY <1>1, <2>1 DEF InputInv, Ordered
    <3> QED
      BY <2>1, <3>4, <3>5, <3>6, <3>7, GiveReceives
  <2>4. received' = received \/ Channel!Receive
    BY <1>3, <2>3 DEF Receive, EndOfFile, GetArea
  <2> QED
    BY <2>2, <2>4 DEF Channel!Next
<1>4. CASE PollReturns
  <2>1. ~m_hangup_ /\ UNCHANGED <<sent, received>>
    BY <1>4 DEF PollReturns, EndOfFile, InputInv, EmptyWhenRead
  <2>2. m_hangup_' = TRUE \/ m_hangup_' = m_hangup_
    BY <1>4 DEF PollReturns
  <2> QED
    BY <2>1, <2>2 DEF Channel!Next, Channel!HangUp
<1>5. ASSUME NEW b \in Bytes, PeerSends(b) PROVE [Channel!Next]_Channel!vars
  <2>1. Channel!Send(b)
    BY <1>5 DEF PeerSends, Channel!Send, output
  <2> QED
    BY <2>1 DEF Channel!Next
<1>6. CASE Write
  BY <1>6 DEF Write, Buffer, overflow, sync, input
<1>7. CASE underflow \/ PollEnds \/ ReceiveEnds
  BY <1>7 DEF underflow, PollEnds, ReceiveEnds, EndOfFile
<1>8. ASSUME NEW milliseconds \in Timeouts, set_timeout(milliseconds)
      PROVE  [Channel!Next]_Channel!vars
  BY <1>8 DEF set_timeout, input
<1>9. CASE clear \/ Destroy \/ CloseElsewhere \/ PeerEnds \/ PeerGoes
  BY <1>9 DEF clear, Destroy, CloseElsewhere, PeerEnds, PeerGoes, input
<1>10. CASE UNCHANGED vars
  BY <1>10 DEF vars
<1> QED
  BY <1>2, <1>3, <1>4, <1>5, <1>6, <1>7, <1>8, <1>9, <1>10
     DEF Next, Read, Underflow, Peer

\* Reading is a channel: the bytes the peer sent, each once and in order, until
\* the hangup (underflow, with timeouts, short reads and an early EOF).
THEOREM ImplementsChannel == Spec => ReadsChannel
<1>1. Init => Channel!Init
  BY DEF Init, Channel!Init
<1> QED
  BY <1>1, InputInit, InputNext, StepsAreChannelSteps, PTL
     DEF Spec, ReadsChannel, Channel!Spec

=============================================================================
