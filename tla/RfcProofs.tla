------------------------------- MODULE RfcProofs -------------------------------
(***************************************************************************)
(* Proofs about Rfc: of Sha1's messages, for every size and every width of *)
(* an unsigned int that is a multiple of eight, and of the codecs, of the  *)
(* decoder of escapes and of the normalization of paths, for inputs of     *)
(* every length.                                                           *)
(***************************************************************************)
EXTENDS Rfc, Integers, VectorLemmas

------------------------------------------------------------------------------
(* Arithmetic *)

LEMMA WordFacts == Word \in Nat /\ Word >= 8 /\ \A n \in Nat : n % Word \in 0..Word - 1
<1>1. Word \in Nat /\ Word # 0 /\ Word % 8 = 0
  BY WordAssumption
<1>2. Word >= 8
  BY <1>1
<1> QED
  BY <1>1, <1>2

\* A product that is less than eight times a factor has the other below eight.
LEMMA FactorBelow ==
    ASSUME NEW h \in Nat, NEW w \in Nat, h * w < 8 * w
    PROVE  h < 8
<1>1. CASE h >= 8
  <2>1. PICK d \in Nat : h = d + 8
    <3>1. h - 8 \in Nat /\ h = (h - 8) + 8
      BY <1>1
    <3> QED
      BY <3>1
  <2>2. h * w = d * w + 8 * w
    BY <2>1
  <2>3. d * w \in Nat
    OBVIOUS
  <2> QED
    BY <2>2, <2>3
<1> QED
  BY <1>1

\* Division and remainder are unique.
LEMMA DivisionUnique ==
    ASSUME NEW w \in Nat \ {0}, NEW h \in Nat, NEW l \in 0..w - 1
    PROVE  (h * w + l) \div w = h /\ (h * w + l) % w = l
  OBVIOUS

LEMMA SmallRemainder ==
    ASSUME NEW w \in Nat \ {0}, NEW a \in Nat, a < w
    PROVE  a % w = a
  OBVIOUS

------------------------------------------------------------------------------
(* Zeros, words and padding *)

LEMMA ByteFacts == 0 \in Byte /\ 128 \in Byte /\ \A b \in Byte : b \in Nat
  BY ByteAssumption

LEMMA BytesAreNumbers == ASSUME NEW s \in Seq(Byte) PROVE s \in Seq(Nat)
<1>1. Byte \subseteq Nat
  BY ByteFacts
<1> QED
  BY <1>1, SeqMonotonic

\* Sequences of numbers, as ConcatAssociative and ConcatProperties have them.
LEMMA Associative == \A s, t, u \in Seq(Nat) : (s \o t) \o u = s \o (t \o u)
  BY ConcatAssociative, SMTT(30)

LEMMA Closed == \A s, t \in Seq(Nat) : s \o t \in Seq(Nat)
  BY ConcatProperties

LEMMA Lengths == \A s, t \in Seq(Nat) : Len(s \o t) = Len(s) + Len(t)
  BY ConcatProperties

LEMMA ZerosType ==
    ASSUME NEW n \in Nat
    PROVE  /\ Zeros(n) \in Seq(Nat) /\ Len(Zeros(n)) = n
           /\ \A i \in 1..n : Zeros(n)[i] = 0
  BY DEF Zeros

LEMMA ZerosConcat ==
    ASSUME NEW m \in Nat, NEW n \in Nat
    PROVE  Zeros(m) \o Zeros(n) = Zeros(m + n)
<1> DEFINE a == Zeros(m)
           b == Zeros(n)
           c == Zeros(m + n)
<1>1. /\ a \in Seq(Nat) /\ Len(a) = m /\ \A i \in 1..m : a[i] = 0
      /\ b \in Seq(Nat) /\ Len(b) = n /\ \A i \in 1..n : b[i] = 0
      /\ c \in Seq(Nat) /\ Len(c) = m + n /\ \A i \in 1..m + n : c[i] = 0
  BY ZerosType
<1> HIDE DEF a, b, c
<1>2. /\ a \o b \in Seq(Nat) /\ Len(a \o b) = m + n
      /\ \A i \in 1..m + n : (a \o b)[i] = IF i <= m THEN a[i] ELSE b[i - m]
  BY <1>1, ConcatProperties
<1>3. \A i \in 1..m + n : (a \o b)[i] = c[i]
  <2> TAKE i \in 1..m + n
  <2>1. CASE i <= m
    BY <2>1, <1>1, <1>2
  <2>2. CASE ~(i <= m)
    <3>1. i - m \in 1..n
      BY <2>2
    <3> QED
      BY <2>2, <3>1, <1>1, <1>2
  <2> QED
    BY <2>1, <2>2
<1>4. a \o b = c
  BY <1>1, <1>2, <1>3, SeqEqual
<1> QED
  BY <1>4 DEF a, b, c

LEMMA OctetsType == ASSUME NEW n \in Nat PROVE Octets(n) \in Seq(Nat)
<1>1. /\ (n \div 16777216) % 256 \in Nat /\ (n \div 65536) % 256 \in Nat
      /\ (n \div 256) % 256 \in Nat /\ n % 256 \in Nat
  OBVIOUS
<1> QED
  BY <1>1 DEF Octets

\* How many zeros the padding has, by what the last block holds.
LEMMA ZeroCountIs ==
    ASSUME NEW n \in Nat, NEW L \in 0..63, L = n % 64
    PROVE  IF L <= 55 THEN ZeroCount(n) = 56 - (L + 1) ELSE ZeroCount(n) = (64 - (L + 1)) + 56
  BY DEF ZeroCount

\* The padding of a block is 0x80, the zeros that fill it, and the two words.
LEMMA PaddingIs ==
    ASSUME NEW n \in Nat, block \in Seq(Byte), Len(block) = n % 64,
           length_high \in Nat, length_low \in Nat
    PROVE  Padding = block \o (<<128>> \o (Zeros(ZeroCount(n))
                                \o (Octets(length_high) \o Octets(length_low))))
<1> DEFINE words == Octets(length_high) \o Octets(length_low)
           L == Len(block)
           one == <<128>>
<1>0. L \in 0..63 /\ IF L <= 55 THEN ZeroCount(n) = 56 - (L + 1)
                                    ELSE ZeroCount(n) = (64 - (L + 1)) + 56
  <2>1. L \in 0..63 /\ L = n % 64
    OBVIOUS
  <2> HIDE DEF L
  <2> QED
    BY <2>1, ZeroCountIs
<1>1. words \in Seq(Nat) /\ block \in Seq(Nat) /\ one \in Seq(Nat)
  <2>1. Octets(length_high) \in Seq(Nat) /\ Octets(length_low) \in Seq(Nat)
    BY OctetsType
  <2>2. block \in Seq(Nat)
    BY BytesAreNumbers
  <2> QED
    BY <2>1, <2>2, Closed
<1>2. Append(block, 128) = block \o one /\ Len(Append(block, 128)) = L + 1
  <2>1. block \in Seq(Nat) /\ 128 \in Nat
    BY <1>1
  <2>2. Append(block, 128) = block \o <<128>>
    BY <2>1, AppendIsConcat
  <2>3. Len(Append(block, 128)) = Len(block) + 1
    BY <2>1, AppendProperties
  <2> QED
    BY <2>2, <2>3
<1> HIDE DEF words, one
<1>3. ASSUME NEW z \in Seq(Nat)
      PROVE  ((block \o one) \o z) \o words = block \o (one \o (z \o words))
  <2>1. block \o one \in Seq(Nat) /\ z \o words \in Seq(Nat)
    BY <1>1, <1>3, Closed
  <2>2. ((block \o one) \o z) \o words = (block \o one) \o (z \o words)
    <3> DEFINE x == block \o one
    <3>1. x \in Seq(Nat) /\ z \in Seq(Nat) /\ words \in Seq(Nat)
      BY <1>1, <1>3, <2>1
    <3> HIDE DEF x
    <3>2. (x \o z) \o words = x \o (z \o words)
      BY <3>1, Associative
    <3> QED
      BY <3>2 DEF x
  <2> QED
    BY <1>1, <1>3, <2>1, <2>2, Associative
<1>4. CASE ~(L <= 55)
  <2>1. /\ 64 - (L + 1) \in Nat /\ ZeroCount(n) = (64 - (L + 1)) + 56
    <3> HIDE DEF L
    <3> QED
      BY <1>0, <1>4, SMTT(30)
  <2> DEFINE y == Zeros(64 - (L + 1))
             z == Zeros(56)
             front == (block \o one) \o y
  <2>2. /\ y \in Seq(Nat) /\ z \in Seq(Nat) /\ y \o z = Zeros(ZeroCount(n))
    BY <2>1, ZerosType, ZerosConcat
  <2>3. Padding = front \o (z \o words)
    <3>1. NeedsTwoBlocks(Len(block))
      BY <1>0, <1>4 DEF NeedsTwoBlocks
    <3>2. Padding = (Append(block, 128) \o Zeros(64 - (L + 1))) \o (Zeros(56) \o words)
      BY <1>2, <3>1 DEF Padding, words
    <3> QED
      BY <1>2, <3>2
  <2> HIDE DEF y, z
  <2>4. front \in Seq(Nat) /\ block \o one \in Seq(Nat)
    BY <1>1, <2>2, Closed
  <2>5. front \o (z \o words) = (front \o z) \o words
    <3>1. front \in Seq(Nat) /\ z \in Seq(Nat) /\ words \in Seq(Nat)
      BY <1>1, <2>2, <2>4
    <3> HIDE DEF front
    <3> QED
      BY <3>1, Associative
  <2>6. front \o z = (block \o one) \o (y \o z)
    BY <2>2, <2>4, Associative
  <2>7. y \o z \in Seq(Nat)
    BY <2>2, Closed
  <2>8. Padding = block \o (one \o ((y \o z) \o words))
    BY <1>3, <2>3, <2>5, <2>6, <2>7
  <2> QED
    BY <2>2, <2>8 DEF words, one
<1>5. CASE L <= 55
  <2>1. /\ 56 - (L + 1) \in Nat /\ ZeroCount(n) = 56 - (L + 1)
    <3> HIDE DEF L
    <3> QED
      BY <1>0, <1>5
  <2>2. Zeros(ZeroCount(n)) \in Seq(Nat)
    BY <2>1, ZerosType
  <2>3. ~NeedsTwoBlocks(Len(block))
    BY <1>0, <1>5 DEF NeedsTwoBlocks
  <2>4. Padding = (Append(block, 128) \o Zeros(56 - (L + 1))) \o words
    BY <1>2, <2>3 DEF Padding, words
  <2>5. Padding = ((block \o one) \o Zeros(ZeroCount(n))) \o words
    BY <1>2, <2>1, <2>4
  <2> QED
    BY <1>3, <2>2, <2>5 DEF words, one
<1> QED
  BY <1>4, <1>5

------------------------------------------------------------------------------
(* The inductive invariant *)

Counted == length_high * Word + length_low = Bits(Len(message))

\* What was read is what was hashed and the block, and its bits are counted.
Reading ==
    answer = "none" =>
        /\ hashed \o block = message
        /\ Len(block) = Len(message) % 64
        /\ Counted
        /\ length_low % 8 = 0

\* What was read and what is left is what _S_input was given.
IInv ==
    /\ TypeOK
    /\ ~corrupted
    /\ left + Len(message) = size % Word
    /\ Reading
    /\ answer # "internal_error"
    /\ PaddedAsSpecified

LEMMA InitIInv == Init => IInv
<1> SUFFICES ASSUME Init PROVE IInv
  OBVIOUS
<1> USE DEF Init
<1>1. /\ <<>> \in Seq(Byte) /\ <<>> \in Seq(Nat) /\ Len(<<>>) = 0 /\ <<>> \o <<>> = <<>>
  BY ConcatEmptySeq, <<>> \in Seq(Byte)
<1>2. size \in Nat /\ left \in 0..Word - 1 /\ 0 \in 0..Word - 1
  BY SizesAssumption, WordFacts
<1>3. TypeOK
  BY <1>1, <1>2 DEF TypeOK
<1>4. Reading
  BY <1>1, WordFacts DEF Reading, Counted, Bits
<1> QED
  BY <1>1, <1>2, <1>3, <1>4 DEF IInv, PaddedAsSpecified

\* One turn of the loop counts eight bits, and the high word does not wrap.
LEMMA CountStep ==
    ASSUME TypeOK, Counted, length_low % 8 = 0, Len(message) + 1 < Word,
           NEW low, low = (length_low + 8) % Word,
           NEW high, high = IF Carry(low) THEN (length_high + 1) % Word ELSE length_high
    PROVE  /\ low \in 0..Word - 1 /\ high \in 0..Word - 1 /\ low % 8 = 0
           /\ high * Word + low = Bits(Len(message) + 1)
           /\ ~(Carry(low) /\ high = 0)
<1> DEFINE n == Len(message)
<1>1. /\ length_low \in Nat /\ length_high \in Nat /\ length_low < Word /\ length_high < Word
      /\ n \in Nat /\ Word \in Nat /\ Word >= 8 /\ Word % 8 = 0
  BY WordFacts, WordAssumption DEF TypeOK
<1>2. length_high * Word + length_low = 8 * n
  BY DEF Counted, Bits
<1> HIDE DEF n
<1>3. length_low + 8 <= Word
  BY <1>1
<1>4. CASE length_low + 8 < Word
  <2>1. low = length_low + 8
    BY <1>1, <1>4
  <2>2. low # 0 /\ high = length_high
    BY <1>1, <2>1 DEF Carry
  <2>3. length_high * Word \in Nat
    BY <1>1
  <2>4. high * Word + low = 8 * (n + 1)
    BY <1>1, <1>2, <2>1, <2>2, <2>3
  <2> QED
    BY <1>1, <1>4, <2>1, <2>2, <2>4 DEF Carry, Bits, n
<1>5. CASE length_low + 8 = Word
  <2>1. low = 0
    BY <1>1, <1>5
  <2>2. (length_high + 1) * Word = length_high * Word + Word
    BY <1>1
  <2>3. length_high * Word \in Nat /\ (length_high + 1) * Word \in Nat
    BY <1>1
  <2>4. (length_high + 1) * Word = 8 * (n + 1)
    BY <1>1, <1>2, <1>5, <2>2, <2>3
  <2>5. 8 * (n + 1) < 8 * Word
    BY <1>1 DEF n
  <2>6. length_high + 1 < 8
    BY <1>1, <2>4, <2>5, FactorBelow
  <2>7. high = length_high + 1
    BY <1>1, <2>1, <2>6 DEF Carry
  <2> QED
    BY <1>1, <2>1, <2>4, <2>6, <2>7 DEF Carry, Bits, n
<1> QED
  BY <1>1, <1>3, <1>4, <1>5

LEMMA InputIInv == ASSUME IInv, NEW byte \in Byte, Input(byte) PROVE IInv'
<1> DEFINE full == Append(block, byte)
           low == (length_low + 8) % Word
           high == IF Carry(low) THEN (length_high + 1) % Word ELSE length_high
           n == Len(message)
<1>1. /\ TypeOK /\ ~corrupted /\ left + n = size % Word /\ left > 0 /\ answer = "none"
      /\ hashed \o block = message /\ Len(block) = n % 64 /\ Counted /\ length_low % 8 = 0
  BY DEF IInv, Reading, Input, Loops
<1>2. /\ left' = left - 1 /\ message' = Append(message, byte)
      /\ length_low' = low /\ length_high' = high
      /\ corrupted' = (Carry(low) /\ high = 0)
      /\ UNCHANGED <<size, computed, answer>>
      /\ IF Len(full) = 64 THEN hashed' = hashed \o full /\ block' = <<>>
                           ELSE block' = full /\ hashed' = hashed
  BY DEF Input, ProcessMessageBlock
<1>3. left \in Nat /\ n \in Nat /\ n + 1 < Word
  <2> DEFINE given_size == size % Word
  <2>1. given_size \in 0..Word - 1 /\ Word \in Nat
    BY <1>1, WordFacts, SizesAssumption DEF TypeOK
  <2>2. left + n = given_size /\ left > 0
    BY <1>1
  <2>3. left \in Nat /\ n \in Nat
    BY <1>1, <2>1 DEF TypeOK
  <2> HIDE DEF given_size, n
  <2> QED
    BY <2>1, <2>2, <2>3
<1>4. /\ message \in Seq(Byte) /\ hashed \in Seq(Nat) /\ block \in Seq(Byte)
      /\ block \in Seq(Nat) /\ byte \in Nat
  BY <1>1, BytesAreNumbers, ByteFacts DEF TypeOK
<1>5. /\ low \in 0..Word - 1 /\ high \in 0..Word - 1 /\ low % 8 = 0
      /\ high * Word + low = Bits(n + 1)
      /\ ~(Carry(low) /\ high = 0)
  <2> HIDE DEF low, high
  <2>1. low = (length_low + 8) % Word /\ high = IF Carry(low) THEN (length_high + 1) % Word ELSE length_high
    BY DEF low, high
  <2> QED
    BY <1>1, <1>3, <2>1, CountStep
<1> HIDE DEF low, high
<1>6. /\ full \in Seq(Byte) /\ Len(full) = Len(block) + 1 /\ full = block \o <<byte>>
      /\ Append(message, byte) \in Seq(Byte) /\ Len(Append(message, byte)) = n + 1
  BY <1>4, AppendProperties, AppendIsConcat
<1>7. Append(message, byte) = hashed \o full
  <2>1. message \in Seq(Nat) /\ <<byte>> \in Seq(Nat)
    BY <1>4, BytesAreNumbers
  <2>2. Append(message, byte) = (hashed \o block) \o <<byte>>
    BY <1>1, <1>4, <2>1, AppendIsConcat
  <2>3. (hashed \o block) \o <<byte>> = hashed \o (block \o <<byte>>)
    BY <1>4, <2>1, Associative
  <2> QED
    BY <1>6, <2>2, <2>3
<1> HIDE DEF full, n
<1>8. hashed' \in Seq(Nat) /\ block' \in Seq(Byte) /\ hashed' \o block' = message'
      /\ Len(block') = (n + 1) % 64
  <2>1. CASE Len(full) = 64
    <3>1. full \in Seq(Nat)
      BY <1>6, BytesAreNumbers
    <3>2. hashed \o full \in Seq(Nat)
      BY <1>4, <3>1, Closed
    <3>3. (hashed \o full) \o <<>> = hashed \o full
      BY <3>2, ConcatEmptySeq
    <3>4. <<>> \in Seq(Byte) /\ Len(<<>>) = 0
      OBVIOUS
    <3>5. (n + 1) % 64 = 0
      <4>1. n % 64 = 63 /\ n \in Nat
        BY <1>1, <1>3, <1>4, <1>6, <2>1
      <4> QED
        BY <4>1
    <3> QED
      BY <1>2, <1>7, <2>1, <3>2, <3>3, <3>4, <3>5
  <2>2. CASE Len(full) # 64
    <3>1. (n + 1) % 64 = Len(full)
      <4>1. (n % 64) + 1 # 64 /\ n \in Nat /\ Len(full) = (n % 64) + 1
        BY <1>1, <1>3, <1>6, <2>2
      <4> QED
        BY <4>1
    <3> QED
      BY <1>2, <1>4, <1>6, <1>7, <2>2, <3>1
  <2> QED
    BY <2>1, <2>2
<1>9. Len(message') = n + 1
  BY <1>2, <1>6
<1>10. TypeOK'
  <2>1. left \in 0..Word - 1 /\ left > 0
    BY <1>1 DEF TypeOK
  <2>2. left' \in 0..Word - 1
    BY <1>2, <2>1, WordFacts
  <2>3. message' \in Seq(Byte)
    BY <1>2, <1>6
  <2>4. length_low' \in 0..Word - 1 /\ length_high' \in 0..Word - 1 /\ corrupted' \in BOOLEAN
    BY <1>2, <1>5
  <2>5. /\ size \in Sizes /\ computed \in BOOLEAN
        /\ answer \in {"none", "digest", "internal_error"}
    BY <1>1 DEF TypeOK
  <2> QED
    BY <1>2, <1>8, <2>2, <2>3, <2>4, <2>5 DEF TypeOK
<1>11. ~corrupted' /\ left' + Len(message') = (size % Word)'
  <2>1. ~corrupted'
    BY <1>2, <1>5, Zenon
  <2>2. (left - 1) + (n + 1) = left + n
    BY <1>3
  <2>3. left' + Len(message') = left + n
    BY <1>2, <1>9, <2>2
  <2>4. (size % Word)' = size % Word
    BY <1>2
  <2> QED
    BY <1>1, <2>1, <2>3, <2>4
<1>12. Reading'
  BY <1>2, <1>5, <1>8, <1>9 DEF Reading, Counted
<1> QED
  BY <1>1, <1>2, <1>10, <1>11, <1>12 DEF IInv, PaddedAsSpecified

LEMMA ResultIInv == ASSUME IInv, Result PROVE IInv'
<1> DEFINE n == Len(message)
           tail == <<128>> \o (Zeros(ZeroCount(n)) \o (Octets(length_high) \o Octets(length_low)))
<1>1. /\ TypeOK /\ ~corrupted /\ left + n = size % Word /\ answer = "none"
      /\ hashed \o block = message /\ Len(block) = n % 64 /\ Counted
  BY DEF IInv, Reading, Result
<1>2. /\ hashed' = hashed \o Padding /\ block' = <<>> /\ length_low' = 0 /\ length_high' = 0
      /\ computed' = TRUE /\ answer' = "digest" /\ corrupted' = corrupted
      /\ UNCHANGED <<size, left, message>>
  BY <1>1 DEF Result, ProcessMessageBlock, given
<1>3. /\ length_low \in Nat /\ length_high \in Nat /\ length_low \in 0..Word - 1 /\ n \in Nat
      /\ message \in Seq(Byte) /\ hashed \in Seq(Nat) /\ block \in Seq(Byte)
      /\ block \in Seq(Nat) /\ left \in Nat /\ size \in Nat /\ Word \in Nat \ {0}
  <2>1. Word \in Nat \ {0}
    BY WordFacts
  <2>2. /\ length_low \in 0..Word - 1 /\ length_high \in 0..Word - 1 /\ left \in 0..Word - 1
        /\ message \in Seq(Byte) /\ hashed \in Seq(Nat) /\ block \in Seq(Byte) /\ size \in Sizes
    BY <1>1 DEF TypeOK
  <2>3. block \in Seq(Nat)
    BY <2>2, BytesAreNumbers
  <2> QED
    BY <2>1, <2>2, <2>3, SizesAssumption
<1>4. left = 0
  BY <1>1, <1>3 DEF Result, Loops
<1>5. /\ length_high = Bits(n) \div Word /\ length_low = Bits(n) % Word
  <2>1. length_high * Word + length_low = Bits(n)
    BY <1>1 DEF Counted
  <2> HIDE DEF n
  <2>2. /\ (length_high * Word + length_low) \div Word = length_high
        /\ (length_high * Word + length_low) % Word = length_low
    BY <1>3, DivisionUnique
  <2> QED
    BY <2>1, <2>2, Zenon
<1>6. Padding = block \o tail
  BY <1>1, <1>3, PaddingIs
<1>7. tail \in Seq(Nat)
  <2>1. ZeroCount(n) \in Nat
    BY <1>3 DEF ZeroCount
  <2>2. Octets(length_high) \o Octets(length_low) \in Seq(Nat)
    BY <1>3, OctetsType, Closed
  <2>3. Zeros(ZeroCount(n)) \o (Octets(length_high) \o Octets(length_low)) \in Seq(Nat)
    BY <2>1, <2>2, ZerosType, Closed
  <2>4. <<128>> \in Seq(Nat)
    OBVIOUS
  <2> QED
    BY <2>3, <2>4, Closed
<1>8. hashed' = message \o tail /\ hashed' \in Seq(Nat)
  <2> HIDE DEF tail
  <2>1. hashed \o (block \o tail) = (hashed \o block) \o tail
    BY <1>3, <1>7, Associative
  <2>2. message \in Seq(Nat)
    BY <1>3, BytesAreNumbers
  <2>3. message \o tail \in Seq(Nat)
    BY <1>7, <2>2, Closed
  <2> QED
    BY <1>1, <1>2, <1>6, <2>1, <2>3
<1>9. PaddedAsSpecified'
  <2>1. hashed' = message' \o (<<128>> \o (Zeros(ZeroCount(Len(message')))
                     \o (Octets(Bits(Len(message')) \div Word) \o Octets(Bits(Len(message')) % Word))))
    BY <1>2, <1>5, <1>8
  <2>2. ASSUME size' < Word PROVE Len(message') = size'
    <3>1. size % Word = size
      BY <1>2, <1>3, <2>2, SmallRemainder
    <3> QED
      BY <1>1, <1>2, <1>3, <1>4, <3>1
  <2> QED
    BY <2>1, <2>2 DEF PaddedAsSpecified
<1>10. TypeOK'
  <2>1. <<>> \in Seq(Byte) /\ 0 \in 0..Word - 1
    BY <1>3
  <2> QED
    BY <1>1, <1>2, <1>8, <2>1 DEF TypeOK
<1> QED
  BY <1>1, <1>2, <1>9, <1>10 DEF IInv, Reading

LEMMA StutterIInv == ASSUME IInv, UNCHANGED vars PROVE IInv'
  BY DEF IInv, TypeOK, Reading, Counted, PaddedAsSpecified, vars, given, context

\* The invariant holds of every behaviour.
LEMMA Invariance == Spec => []IInv
<1>1. IInv /\ [Next]_vars => IInv'
  BY InputIInv, ResultIInv, StutterIInv DEF Next
<1> QED
  BY InitIInv, <1>1, PTL DEF Spec

------------------------------------------------------------------------------
(* The theorems *)

\* What is hashed is the message, 0x80, the zeros that make whole blocks and
\* the number of its bits, and the message is the whole of what was given
\* unless _S_input's parameter cut its size.
THEOREM Sha1PaddingCorrect == Spec => []PaddedAsSpecified
<1>1. IInv => PaddedAsSpecified
  BY DEF IInv
<1> QED
  BY Invariance, <1>1, PTL

\* length_high and length_low count the bits that were read, and digest does
\* not throw its "internal_error".
THEOREM Sha1CountCorrect == Spec => []CountsEveryBit
<1>1. IInv => CountsEveryBit
  BY DEF IInv, Reading, Counted, CountsEveryBit
<1> QED
  BY Invariance, <1>1, PTL

------------------------------------------------------------------------------
(* The padding of md5 *)

LEMMA ShiftedIs ==
    ASSUME NEW n \in Nat
    PROVE  /\ Shifted(n)[0] = n
           /\ \A i \in 1..7 : Shifted(n)[i] = Shifted(n)[i - 1] \div 256
<1> DEFINE Shifts(f) == f = [i \in 0..7 |-> IF i = 0 THEN n ELSE f[i - 1] \div 256]
           step == [i \in 1..7 |-> [s \in Nat |-> s \div 256]]
           shifted == CHOOSE f : Shifts(f)
<1>1. step \in [1..7 -> [Nat -> Nat]]
  OBVIOUS
<1> HIDE DEF step
<1>2. PICK f : IsIteration(f, Nat, n, 7, step)
  BY <1>1, IterationExists, 7 \in Nat, Zenon
<1>3. ASSUME NEW i \in 1..7 PROVE f[i] = f[i - 1] \div 256
  <2>1. f[i - 1] \in Nat /\ f[i] = step[i][f[i - 1]]
    BY <1>2 DEF IsIteration
  <2> QED
    BY <2>1 DEF step
<1>4. Shifts(f)
  BY <1>2, <1>3 DEF IsIteration
<1>5. Shifts(shifted)
  <2> HIDE DEF Shifts
  <2> QED
    BY <1>4, Zenon
<1>6. Shifted(n) = shifted
  BY Zenon DEF Shifted
<1> HIDE DEF shifted
<1> QED
  BY <1>5, <1>6

\* Dividing by 256 again and again.
LEMMA Quotients ==
    ASSUME NEW n \in Nat
    PROVE  /\ n \div 256 \in Nat
           /\ (n \div 256) \div 256 = n \div 65536
           /\ (n \div 65536) \div 256 = n \div 16777216
  OBVIOUS

LEMMA FourAndFour ==
    ASSUME NEW S, NEW g \in Seq(S), Len(g) = 8
    PROVE  <<g[1], g[2], g[3], g[4]>> \o <<g[5], g[6], g[7], g[8]>> = g
<1> DEFINE s == <<g[1], g[2], g[3], g[4]>>
           t == <<g[5], g[6], g[7], g[8]>>
<1>1. \A i \in 1..8 : g[i] \in S
  BY ElementOfSeq
<1>2. /\ s \in Seq(S) /\ Len(s) = 4 /\ s[1] = g[1] /\ s[2] = g[2] /\ s[3] = g[3] /\ s[4] = g[4]
      /\ t \in Seq(S) /\ Len(t) = 4 /\ t[1] = g[5] /\ t[2] = g[6] /\ t[3] = g[7] /\ t[4] = g[8]
  BY <1>1
<1> HIDE DEF s, t
<1>3. /\ s \o t \in Seq(S) /\ Len(s \o t) = 8
      /\ \A i \in 1..8 : (s \o t)[i] = IF i <= 4 THEN s[i] ELSE t[i - 4]
  <2>1. /\ s \o t \in Seq(S) /\ Len(s \o t) = Len(s) + Len(t)
        /\ \A i \in 1..Len(s) + Len(t) :
              (s \o t)[i] = IF i <= Len(s) THEN s[i] ELSE t[i - Len(s)]
    BY <1>2, ConcatProperties, Zenon
  <2> QED
    BY <1>2, <2>1
<1>4. \A i \in 1..8 : (s \o t)[i] = g[i]
  BY <1>2, <1>3
<1>5. s \o t = g
  BY <1>3, <1>4, SeqEqual
<1> QED
  BY <1>5 DEF s, t

LEMMA TrailerIs ==
    ASSUME NEW n \in Nat
    PROVE  Trailer(n) = Octets8(Bits(n)) /\ Trailer(n) \in Seq(Nat) /\ Len(Trailer(n)) = 8
<1> DEFINE b == Bits(n)
           c == (b \div 16777216) \div 256
           f == Shifted(8 * n)
           low == <<b % 256, (b \div 256) % 256, (b \div 65536) % 256, (b \div 16777216) % 256>>
           high == <<c % 256, (c \div 256) % 256, (c \div 65536) % 256, (c \div 16777216) % 256>>
<1>1. b \in Nat /\ c \in Nat /\ b = 8 * n /\ b \div 16777216 \in Nat
  BY DEF Bits
<1>2. f[0] = b /\ \A i \in 1..7 : f[i] = f[i - 1] \div 256
  BY <1>1, ShiftedIs
<1> HIDE DEF f
<1>3. /\ Reverse(Octets(b)) = low /\ Reverse(Octets(c)) = high
  BY DEF Reverse, Octets
<1> HIDE DEF b
<1>4. /\ f[0] = b /\ f[1] = b \div 256 /\ f[2] = b \div 65536 /\ f[3] = b \div 16777216 /\ f[4] = c
  BY <1>1, <1>2, Quotients
<1> HIDE DEF c
<1>5. /\ f[5] = c \div 256 /\ f[6] = c \div 65536 /\ f[7] = c \div 16777216
  BY <1>1, <1>2, <1>4, Quotients
<1>6. Trailer(n) = [i \in 1..8 |-> f[i - 1] % 256]
  BY DEF Trailer, f
<1> DEFINE g == [i \in 1..8 |-> f[i - 1] % 256]
<1>7. \A i \in 0..7 : f[i] \in Nat
  BY <1>1, <1>4, <1>5
<1>8. g \in Seq(Nat) /\ Len(g) = 8
  BY <1>7
<1>9. low = <<g[1], g[2], g[3], g[4]>> /\ high = <<g[5], g[6], g[7], g[8]>>
  BY <1>4, <1>5
<1> HIDE DEF low, high, g
<1>10. low \o high = g
  BY <1>8, <1>9, FourAndFour
<1>11. Octets8(b) = low \o high
  <2>1. Octets8(b) = Reverse(Octets(b)) \o Reverse(Octets(c))
    BY DEF Octets8, c
  <2> QED
    BY <1>3, <2>1
<1> QED
  BY <1>6, <1>8, <1>10, <1>11 DEF b, g

\* The chunks of whole chunks are all there is.
LEMMA ChunksFlatten ==
    ASSUME NEW S, NEW p \in Seq(S), NEW q \in Nat, Len(p) = 64 * q
    PROVE  FlattenSeq(Chunks(p)) = p
<1> DEFINE s == Chunks(p)
<1>1. s = [c \in 1..q |-> [i \in 1..64 |-> p[64 * (c - 1) + i]]]
  <2>1. (64 * q + 63) \div 64 = q
    OBVIOUS
  <2> QED
    BY <2>1 DEF Chunks
<1>2. ASSUME NEW c \in 1..q
      PROVE  s[c] \in Seq(S) /\ Len(s[c]) = 64 /\ \A i \in 1..64 : s[c][i] = p[64 * (c - 1) + i]
  <2>1. \A i \in 1..64 : 64 * (c - 1) + i \in 1..Len(p)
    OBVIOUS
  <2>2. \A i \in 1..64 : p[64 * (c - 1) + i] \in S
    BY <2>1, ElementOfSeq
  <2>3. s[c] = [i \in 1..64 |-> p[64 * (c - 1) + i]]
    BY <1>1
  <2> HIDE DEF s
  <2> QED
    BY <2>2, <2>3
<1>3. s \in Seq(Seq(S)) /\ Len(s) = q
  <2>1. s \in [1..q -> Seq(S)]
    BY <1>1, <1>2
  <2> HIDE DEF s
  <2> QED
    BY <2>1
<1>4. \A c \in 1..Len(s) : Len(s[c]) = 64
  BY <1>2, <1>3
<1> HIDE DEF s
<1> DEFINE flat == FlattenSeq(s)
<1>5. /\ flat \in Seq(S) /\ Len(flat) = 64 * q
      /\ \A c \in 1..q, i \in 1..64 : flat[64 * (c - 1) + i] = s[c][i]
  <2>1. /\ flat \in Seq(S) /\ Len(flat) = 64 * Len(s)
        /\ \A c \in 1..Len(s), i \in 1..64 : flat[64 * (c - 1) + i] = s[c][i]
    <3> DEFINE w == 64
    <3>1. w \in Nat /\ \A c \in 1..Len(s) : Len(s[c]) = w
      BY <1>4
    <3> HIDE DEF w, flat
    <3>2. /\ FlattenSeq(s) \in Seq(S) /\ Len(FlattenSeq(s)) = w * Len(s)
          /\ \A c \in 1..Len(s), i \in 1..w : FlattenSeq(s)[w * (c - 1) + i] = s[c][i]
      BY <1>3, <3>1, FlattenParts, Zenon
    <3> QED
      BY <3>2 DEF w, flat
  <2> QED
    BY <1>3, <2>1
<1> HIDE DEF flat
<1>6. ASSUME NEW k \in 1..64 * q PROVE flat[k] = p[k]
  <2> DEFINE c == ((k - 1) \div 64) + 1
             i == ((k - 1) % 64) + 1
  <2>1. c \in 1..q /\ i \in 1..64 /\ 64 * (c - 1) + i = k
    OBVIOUS
  <2> HIDE DEF c, i
  <2>2. flat[k] = s[c][i] /\ s[c][i] = p[k]
    BY <1>2, <1>5, <2>1
  <2> QED
    BY <2>2
<1>7. flat = p
  BY <1>5, <1>6, SeqEqual
<1> QED
  BY <1>7 DEF flat, s

LEMMA ZeroPadLengthIs ==
    ASSUME NEW n \in Nat
    PROVE  /\ ZeroPadLength(n) = ZeroCount(n) /\ ZeroCount(n) \in Nat
           /\ \E q \in Nat : n + (1 + (ZeroCount(n) + 8)) = 64 * q
<1>1. PICK d \in Nat, r \in 0..63 : n = 64 * d + r
  <2>1. n \div 64 \in Nat
    OBVIOUS
  <2>2. n % 64 \in 0..63
    OBVIOUS
  <2>3. n = 64 * (n \div 64) + (n % 64)
    OBVIOUS
  <2> QED
    BY <2>1, <2>2, <2>3, Zenon
<1>2. ZeroCount(n) = (119 - r) % 64
  BY <1>1 DEF ZeroCount
<1>3. ZeroPadLength(n) = IF (r + 1) % 64 <= 56 THEN 56 - ((r + 1) % 64) ELSE 120 - ((r + 1) % 64)
  <2>1. (n + 1) % 64 = (r + 1) % 64
    BY <1>1
  <2> QED
    BY <2>1 DEF ZeroPadLength
<1>4. CASE r <= 55
  <2>1. (119 - r) % 64 = 55 - r /\ (r + 1) % 64 = r + 1
    BY <1>4
  <2>2. ZeroPadLength(n) = 55 - r /\ ZeroCount(n) = 55 - r /\ 55 - r \in Nat
    BY <1>2, <1>3, <1>4, <2>1
  <2>3. d + 1 \in Nat /\ n + (1 + (ZeroCount(n) + 8)) = 64 * (d + 1)
    BY <1>1, <2>2
  <2> QED
    BY <2>2, <2>3, Zenon
<1>5. CASE r > 55 /\ r < 63
  <2>1. (119 - r) % 64 = 119 - r /\ (r + 1) % 64 = r + 1
    BY <1>5
  <2>2. ZeroPadLength(n) = 119 - r /\ ZeroCount(n) = 119 - r /\ 119 - r \in Nat
    BY <1>2, <1>3, <1>5, <2>1
  <2>3. d + 2 \in Nat /\ n + (1 + (ZeroCount(n) + 8)) = 64 * (d + 2)
    BY <1>1, <2>2
  <2> QED
    BY <2>2, <2>3, Zenon
<1>6. CASE r = 63
  <2>1. ZeroPadLength(n) = 56 /\ ZeroCount(n) = 56 /\ 56 \in Nat
    BY <1>2, <1>3, <1>6
  <2>2. d + 2 \in Nat /\ n + (1 + (ZeroCount(n) + 8)) = 64 * (d + 2)
    BY <1>1, <1>6, <2>1
  <2> QED
    BY <2>1, <2>2, Zenon
<1> QED
  BY <1>4, <1>5, <1>6

LEMMA Md5PaddedIs ==
    ASSUME NEW m \in Seq(Nat)
    PROVE  FlattenSeq(Md5Chunks(m)) =
             m \o (<<128>> \o (Zeros(ZeroCount(Len(m))) \o Octets8(Bits(Len(m)))))
<1> DEFINE n == Len(m)
           z == Zeros(ZeroCount(n))
           t == Trailer(n)
           one == <<128>>
<1>1. n \in Nat /\ one \in Seq(Nat) /\ Len(one) = 1
  OBVIOUS
<1>2. PICK q \in Nat : n + (1 + (ZeroCount(n) + 8)) = 64 * q
  BY <1>1, ZeroPadLengthIs
<1>3. z \in Seq(Nat) /\ Len(z) = ZeroCount(n)
  BY <1>1, ZeroPadLengthIs, ZerosType
<1>4. t \in Seq(Nat) /\ Len(t) = 8 /\ t = Octets8(Bits(n))
  BY <1>1, TrailerIs
<1>5. Preprocess(m) = m \o (one \o (z \o t))
  BY <1>1, ZeroPadLengthIs DEF Preprocess, Zeros
<1> HIDE DEF n, z, t, one
<1>6. z \o t \in Seq(Nat) /\ Len(z \o t) = ZeroCount(n) + 8
  BY <1>3, <1>4, Closed, Lengths, Zenon
<1>7. one \o (z \o t) \in Seq(Nat) /\ Len(one \o (z \o t)) = 1 + (ZeroCount(n) + 8)
  BY <1>1, <1>6, Closed, Lengths, Zenon
<1>8. Preprocess(m) \in Seq(Nat) /\ Len(Preprocess(m)) = 64 * q
  <2>1. m \in Seq(Nat) /\ Len(m) = n
    BY DEF n
  <2> QED
    BY <1>2, <1>5, <1>7, <2>1, Closed, Lengths, Zenon
<1>9. FlattenSeq(Chunks(Preprocess(m))) = Preprocess(m)
  BY <1>8, ChunksFlatten
<1> QED
  BY <1>4, <1>5, <1>9 DEF Md5Chunks, n, z, t, one

------------------------------------------------------------------------------
(* The inputs *)

InputType ==
    /\ subject \in DOMAIN Subjects
    /\ read \in 0..Len(Subjects[subject].pieces)
    /\ input \in Seq(Values(subject))

\* Inputs are made of what the subject's pieces are made of.
LEMMA InputTypeInvariance == RfcSpec => []InputType
<1>1. Start => InputType
  <2> SUFFICES ASSUME Start PROVE InputType
    OBVIOUS
  <2>1. subject \in DOMAIN Subjects /\ read = 0 /\ input \in Seq(Values(subject))
    BY SubjectsAssumption DEF Start
  <2>2. Len(Subjects[subject].pieces) \in Nat
    BY <2>1, SubjectsAssumption, LenProperties
  <2> QED
    BY <2>1, <2>2 DEF InputType
<1>2. InputType /\ [Read]_reading => InputType'
  <2> SUFFICES ASSUME InputType, [Read]_reading PROVE InputType'
    OBVIOUS
  <2>1. CASE Read
    <3> DEFINE pieces == Subjects[subject].pieces
               V == Values(subject)
    <3>1. subject \in DOMAIN Subjects /\ pieces \in Seq(SUBSET Seq(V)) /\ input \in Seq(V)
      BY SubjectsAssumption DEF InputType
    <3>2. /\ read \in Nat /\ read < Len(pieces) /\ read' = read + 1 /\ subject' = subject
      BY <2>1 DEF InputType, Read
    <3>3. PICK piece \in pieces[read'] : input' = input \o piece
      BY <2>1 DEF Read
    <3> HIDE DEF pieces, V
    <3>4. read' \in 1..Len(pieces)
      BY <3>1, <3>2
    <3>5. pieces[read'] \in SUBSET Seq(V)
      BY <3>1, <3>4, ElementOfSeq
    <3>6. input' \in Seq(V)
      BY <3>1, <3>3, <3>5, ConcatProperties
    <3> QED
      BY <3>1, <3>2, <3>4, <3>6 DEF InputType, pieces, V
  <2>2. CASE UNCHANGED reading
    BY <2>2 DEF InputType, reading
  <2> QED
    BY <2>1, <2>2
<1> QED
  BY <1>1, <1>2, PTL DEF RfcSpec

\* What md5 hashes of a message of any length is the message, 0x80, the zeros
\* that make whole chunks, and its bits in eight octets.
THEOREM Md5PaddingCorrect == RfcSpec => []Md5PaddedAsSpecified
<1>1. InputType => Md5PaddedAsSpecified
  <2> SUFFICES ASSUME InputType, subject = "md5"
               PROVE  FlattenSeq(Md5Chunks(input)) =
                        input \o (<<128>> \o (Zeros(ZeroCount(Len(input))) \o Octets8(Bits(Len(input)))))
    BY DEF Md5PaddedAsSpecified
  <2>1. Values("md5") = 0..255
    BY DEF Values
  <2>2. input \in Seq(0..255)
    BY <2>1 DEF InputType
  <2>3. 0..255 \subseteq Nat
    OBVIOUS
  <2>4. input \in Seq(Nat)
    BY <2>2, <2>3, SeqMonotonic
  <2> QED
    BY <2>4, Md5PaddedIs
<1> QED
  BY <1>1, InputTypeInvariance, PTL

------------------------------------------------------------------------------
(* base64: the symbols of three bytes *)

Bits6 == 0..63
Bits8 == 0..255
Bits24 == {r \in Nat : r < 16777216}

LEMMA SymbolsOf ==
    ASSUME NEW r \in Bits24
    PROVE  /\ Symbols(r) \in Seq(Bits6) /\ Len(Symbols(r)) = 4 /\ \A j \in 1..4 : Symbols(r)[j] \in Bits6
           /\ 64 * (64 * (64 * Symbols(r)[1] + Symbols(r)[2]) + Symbols(r)[3]) + Symbols(r)[4] = r
<1> DEFINE a == r \div 262144
           b == (r \div 4096) % 64
           c == (r \div 64) % 64
           d == r % 64
<1>1. r \in Nat /\ r < 16777216
  BY DEF Bits24
<1>2. a \in 0..63
  BY <1>1
<1>3. b \in 0..63 /\ c \in 0..63 /\ d \in 0..63
  BY <1>1
<1>4. r = 64 * (64 * (64 * a + b) + c) + d
  BY <1>1
<1>5. Symbols(r) = <<a, b, c, d>>
  BY DEF Symbols
<1> HIDE DEF a, b, c, d
<1>6. Symbols(r) \in Seq(Bits6) /\ Len(Symbols(r)) = 4 /\ \A j \in 1..4 : Symbols(r)[j] \in Bits6
  BY <1>2, <1>3, <1>5 DEF Bits6
<1> QED
  BY <1>4, <1>5, <1>6

LEMMA BytesOf ==
    ASSUME NEW a \in Bits8, NEW b \in Bits8, NEW c \in Bits8
    PROVE  Reg24(a, b, c) \in Bits24 /\ Bytes(Reg24(a, b, c)) = <<a, b, c>>
<1> DEFINE r == Reg24(a, b, c)
<1>1. r = 65536 * a + 256 * b + c /\ a \in 0..255 /\ b \in 0..255 /\ c \in 0..255
  BY DEF Reg24, Bits8
<1> HIDE DEF r
<1>2. r \in Nat /\ r < 16777216
  BY <1>1
<1>3. r \div 65536 = a
  BY <1>1
<1>4. r \div 256 = 256 * a + b /\ (256 * a + b) % 256 = b
  BY <1>1
<1>5. r % 256 = c
  BY <1>1
<1>6. Bytes(r) = <<a, b, c>>
  BY <1>3, <1>4, <1>5 DEF Bytes
<1>7. r \in Bits24
  BY <1>2 DEF Bits24
<1> QED
  BY <1>6, <1>7 DEF r

\* The other way round: any four symbols are those of a register, and any
\* register is that of three bytes.
LEMMA OfSymbols ==
    ASSUME NEW a \in Bits6, NEW b \in Bits6, NEW c \in Bits6, NEW d \in Bits6,
           NEW r, r = 64 * (64 * (64 * a + b) + c) + d
    PROVE  r \in Bits24 /\ Symbols(r) = <<a, b, c, d>>
<1>1. a \in 0..63 /\ b \in 0..63 /\ c \in 0..63 /\ d \in 0..63
  BY DEF Bits6
<1>2. r = 262144 * a + 4096 * b + 64 * c + d
  BY <1>1
<1>3. r \in Nat /\ r < 16777216
  BY <1>1, <1>2
<1>4. r \div 262144 = a
  BY <1>1, <1>2
<1>5. r \div 4096 = 64 * a + b /\ (64 * a + b) % 64 = b
  BY <1>1, <1>2
<1>6. r \div 64 = 4096 * a + 64 * b + c /\ (4096 * a + 64 * b + c) % 64 = c
  BY <1>1, <1>2
<1>7. r % 64 = d
  BY <1>1, <1>2
<1>8. r \in Bits24
  BY <1>3 DEF Bits24
<1>9. Symbols(r) = <<a, b, c, d>>
  BY <1>4, <1>5, <1>6, <1>7 DEF Symbols
<1> QED
  BY <1>8, <1>9

LEMMA OfBytes ==
    ASSUME NEW r \in Bits24
    PROVE  /\ Len(Bytes(r)) = 3 /\ Bytes(r) \in Seq(Bits8) /\ \A j \in 1..3 : Bytes(r)[j] \in Bits8
           /\ Reg24(Bytes(r)[1], Bytes(r)[2], Bytes(r)[3]) = r
<1> DEFINE x == r \div 65536
           y == (r \div 256) % 256
           z == r % 256
<1>1. r \in Nat /\ r < 16777216
  BY DEF Bits24
<1>2. x \in 0..255
  BY <1>1
<1>3. y \in 0..255 /\ z \in 0..255
  BY <1>1
<1>4. r = 65536 * x + 256 * y + z
  BY <1>1
<1>5. Bytes(r) = <<x, y, z>>
  BY DEF Bytes
<1> HIDE DEF x, y, z
<1>6. Bytes(r) \in Seq(Bits8) /\ Len(Bytes(r)) = 3 /\ \A j \in 1..3 : Bytes(r)[j] \in Bits8
  BY <1>2, <1>3, <1>5 DEF Bits8
<1>7. Reg24(Bytes(r)[1], Bytes(r)[2], Bytes(r)[3]) = r
  BY <1>4, <1>5 DEF Reg24
<1> QED
  BY <1>6, <1>7

LEMMA FlattenFours ==
    ASSUME NEW S, NEW s \in Seq(Seq(S)), \A c \in 1..Len(s) : Len(s[c]) = 4
    PROVE  /\ FlattenSeq(s) \in Seq(S) /\ Len(FlattenSeq(s)) = 4 * Len(s)
           /\ \A c \in 1..Len(s), j \in 1..4 : FlattenSeq(s)[4 * (c - 1) + j] = s[c][j]
<1> DEFINE w == 4
<1>1. w \in Nat /\ \A c \in 1..Len(s) : Len(s[c]) = w
  OBVIOUS
<1> HIDE DEF w
<1>2. /\ FlattenSeq(s) \in Seq(S) /\ Len(FlattenSeq(s)) = w * Len(s)
      /\ \A c \in 1..Len(s), j \in 1..w : FlattenSeq(s)[w * (c - 1) + j] = s[c][j]
  BY <1>1, FlattenParts, Zenon, SMTT(30)
<1> QED
  BY <1>2 DEF w

\* The register of the c-th three bytes.
Triple(data, c) == Reg24(data[3 * c - 2], data[3 * c - 1], data[3 * c])

LEMMA RunEncodeIs ==
    ASSUME NEW data \in Seq(Bits8), NEW q \in Nat, q = Len(data) \div 3
    PROVE  /\ RunEncode(data) \in Seq(Bits6) /\ Len(RunEncode(data)) = 4 * q
           /\ \A c \in 1..q : Triple(data, c) \in Bits24
           /\ \A c \in 1..q, j \in 1..4 : RunEncode(data)[4 * (c - 1) + j] = Symbols(Triple(data, c))[j]
<1> DEFINE s == [c \in 1..q |-> Symbols(Triple(data, c))]
<1>1. RunEncode(data) = FlattenSeq(s)
  BY DEF RunEncode, Triple
<1>2. ASSUME NEW c \in 1..q PROVE Triple(data, c) \in Bits24
  <2>1. 3 * c - 2 \in 1..Len(data) /\ 3 * c - 1 \in 1..Len(data) /\ 3 * c \in 1..Len(data)
    OBVIOUS
  <2>2. data[3 * c - 2] \in Bits8 /\ data[3 * c - 1] \in Bits8 /\ data[3 * c] \in Bits8
    BY <2>1, ElementOfSeq
  <2> QED
    BY <2>2, BytesOf DEF Triple
<1>3. ASSUME NEW c \in 1..q PROVE s[c] \in Seq(Bits6) /\ Len(s[c]) = 4
  <2>1. s[c] = Symbols(Triple(data, c))
    OBVIOUS
  <2> HIDE DEF s
  <2> QED
    BY <1>2, <2>1, SymbolsOf
<1>4. s \in Seq(Seq(Bits6)) /\ Len(s) = q
  <2>1. s \in [1..q -> Seq(Bits6)]
    BY <1>3
  <2> HIDE DEF s
  <2> QED
    BY <2>1
<1>5. \A c \in 1..q : s[c] = Symbols(Triple(data, c))
  OBVIOUS
<1> HIDE DEF s
<1>6. \A c \in 1..Len(s) : Len(s[c]) = 4
  BY <1>3, <1>4
<1> DEFINE flat == FlattenSeq(s)
<1>7. /\ flat \in Seq(Bits6) /\ Len(flat) = 4 * Len(s)
      /\ \A c \in 1..Len(s), j \in 1..4 : flat[4 * (c - 1) + j] = s[c][j]
  BY <1>4, <1>6, FlattenFours, Zenon
<1> HIDE DEF flat
<1> QED
  BY <1>1, <1>2, <1>4, <1>5, <1>7 DEF flat

------------------------------------------------------------------------------
(* base64: what the loop of the decoder has made of the symbols so far *)

Codes == 0..Pad
RunStates ==
    [errno : {"SUCCESS", "B64_BADSYM"}, padding : Nat, tally : 0..3, reg24 : Nat, stream : Seq(Nat)]

\* What is in the register of t symbols that are not yet three bytes.
Rest(u, from, t) ==
    IF t = 0 THEN 0
    ELSE IF t = 1 THEN 64 * u[from + 1]
    ELSE IF t = 2 THEN 64 * (64 * u[from + 1] + u[from + 2])
    ELSE 64 * (64 * (64 * u[from + 1] + u[from + 2]) + u[from + 3])

\* The c-th four symbols.
Four(u, c) == <<u[4 * (c - 1) + 1], u[4 * (c - 1) + 2], u[4 * (c - 1) + 3], u[4 * (c - 1) + 4]>>

\* Of every four symbols there are three bytes, and the register has the rest.
DecodedBy(s, u, k) ==
    /\ Len(u) = 4 * k + s.tally /\ Len(s.stream) = 3 * k
    /\ \A c \in 1..k : Symbols(Triple(s.stream, c)) = Four(u, c)
    /\ s.reg24 = Rest(u, 4 * k, s.tally)

DecodedTo(s, u) ==
    /\ u \in Seq(Bits6) /\ s.stream \in Seq(Bits8)
    /\ \E k \in Nat : DecodedBy(s, u, k)

\* A symbol that is added leaves the others where they are.
LEMMA AddedSymbol ==
    ASSUME NEW u \in Seq(Bits6), NEW c \in Bits6
    PROVE  /\ Append(u, c) \in Seq(Bits6) /\ Len(Append(u, c)) = Len(u) + 1
           /\ \A i \in 1..Len(u) : Append(u, c)[i] = u[i]
           /\ Append(u, c)[Len(u) + 1] = c
  BY AppendProperties

LEMMA SymbolToRegister ==
    ASSUME NEW s \in RunStates, NEW u, DecodedTo(s, u), NEW symbol \in Bits6, s.tally # 3
    PROVE  DecodedTo(DecodeSymbol(s, symbol), Append(u, symbol))
<1> DEFINE t == DecodeSymbol(s, symbol)
           v == Append(u, symbol)
<1>1. PICK k \in Nat : DecodedBy(s, u, k)
  BY DEF DecodedTo
<1>2. /\ t.stream = s.stream /\ t.tally = s.tally + 1 /\ t.reg24 = 64 * (s.reg24 + symbol)
  BY DEF DecodeSymbol, RunStates
<1>3. u \in Seq(Bits6) /\ s.stream \in Seq(Bits8) /\ s.tally \in {0, 1, 2} /\ s.reg24 \in Nat
  BY DEF DecodedTo, RunStates
<1>4. /\ v \in Seq(Bits6) /\ Len(v) = Len(u) + 1
      /\ \A i \in 1..Len(u) : v[i] = u[i]
      /\ v[Len(u) + 1] = symbol
  BY <1>3, AddedSymbol
<1> HIDE DEF t, v
<1>5. Len(u) = 4 * k + s.tally /\ Len(s.stream) = 3 * k /\ s.reg24 = Rest(u, 4 * k, s.tally)
  BY <1>1 DEF DecodedBy
<1>6. ASSUME NEW c \in 1..k PROVE Four(v, c) = Four(u, c)
  <2>1. /\ 4 * (c - 1) + 1 \in 1..Len(u) /\ 4 * (c - 1) + 2 \in 1..Len(u)
        /\ 4 * (c - 1) + 3 \in 1..Len(u) /\ 4 * (c - 1) + 4 \in 1..Len(u)
    BY <1>3, <1>5
  <2> QED
    BY <1>4, <2>1 DEF Four
<1>7. t.reg24 = Rest(v, 4 * k, t.tally)
  <2>1. symbol \in Nat /\ \A i \in 1..Len(v) : v[i] \in Nat
    <3>1. \A i \in 1..Len(v) : v[i] \in Bits6
      BY <1>4, ElementOfSeq
    <3>2. Bits6 \subseteq Nat
      BY DEF Bits6
    <3> QED
      BY <3>1, <3>2
  <2>2. CASE s.tally = 0
    BY <1>2, <1>4, <1>5, <2>1, <2>2 DEF Rest
  <2>3. CASE s.tally = 1
    <3>1. v[4 * k + 1] = u[4 * k + 1] /\ v[4 * k + 2] = symbol
      BY <1>4, <1>5, <2>3
    <3>2. s.reg24 = 64 * u[4 * k + 1] /\ t.tally = 2
      BY <1>2, <1>5, <2>3 DEF Rest
    <3> QED
      BY <1>2, <3>1, <3>2 DEF Rest
  <2>4. CASE s.tally = 2
    <3>1. v[4 * k + 1] = u[4 * k + 1] /\ v[4 * k + 2] = u[4 * k + 2] /\ v[4 * k + 3] = symbol
      BY <1>4, <1>5, <2>4
    <3>2. s.reg24 = 64 * (64 * u[4 * k + 1] + u[4 * k + 2]) /\ t.tally = 3
      BY <1>2, <1>5, <2>4 DEF Rest
    <3> QED
      BY <1>2, <3>1, <3>2 DEF Rest
  <2> QED
    BY <1>3, <2>2, <2>3, <2>4
<1>8. Len(v) = 4 * k + t.tally
  BY <1>2, <1>3, <1>4, <1>5
<1>9. DecodedBy(t, v, k)
  BY <1>1, <1>2, <1>5, <1>6, <1>7, <1>8 DEF DecodedBy
<1> QED
  BY <1>2, <1>3, <1>4, <1>9 DEF DecodedTo, t, v

LEMMA SymbolToBytes ==
    ASSUME NEW s \in RunStates, NEW u, DecodedTo(s, u), NEW symbol \in Bits6, s.tally = 3
    PROVE  DecodedTo(DecodeSymbol(s, symbol), Append(u, symbol))
<1> DEFINE t == DecodeSymbol(s, symbol)
           v == Append(u, symbol)
           r == s.reg24 + symbol
           bytes == Bytes(r)
           all == s.stream \o bytes
<1>1. PICK k \in Nat : DecodedBy(s, u, k)
  BY DEF DecodedTo
<1>2. /\ t.stream = all /\ t.tally = 0 /\ t.reg24 = 0
  BY DEF DecodeSymbol, RunStates
<1>3. u \in Seq(Bits6) /\ s.stream \in Seq(Bits8)
  BY DEF DecodedTo
<1>4. /\ v \in Seq(Bits6) /\ Len(v) = Len(u) + 1
      /\ \A i \in 1..Len(u) : v[i] = u[i]
      /\ v[Len(u) + 1] = symbol
  BY <1>3, AddedSymbol
<1>5. Len(u) = 4 * k + 3 /\ Len(s.stream) = 3 * k /\ s.reg24 = Rest(u, 4 * k, 3)
  BY <1>1 DEF DecodedBy
<1>6. /\ u[4 * k + 1] \in Bits6 /\ u[4 * k + 2] \in Bits6 /\ u[4 * k + 3] \in Bits6
  BY <1>3, <1>5
<1>7. r = 64 * (64 * (64 * u[4 * k + 1] + u[4 * k + 2]) + u[4 * k + 3]) + symbol
  BY <1>5 DEF Rest
<1> HIDE DEF t, v, r
<1>8. r \in Bits24 /\ Symbols(r) = <<u[4 * k + 1], u[4 * k + 2], u[4 * k + 3], symbol>>
  BY <1>6, <1>7, OfSymbols, SMTT(30)
<1>9. Symbols(r) = Four(v, k + 1)
  <2>1. 4 * ((k + 1) - 1) = 4 * k
    OBVIOUS
  <2>2. /\ v[4 * k + 1] = u[4 * k + 1] /\ v[4 * k + 2] = u[4 * k + 2]
        /\ v[4 * k + 3] = u[4 * k + 3] /\ v[4 * k + 4] = symbol
    BY <1>4, <1>5
  <2> QED
    BY <1>8, <2>1, <2>2 DEF Four
<1>10. /\ Len(bytes) = 3 /\ bytes \in Seq(Bits8)
       /\ Reg24(bytes[1], bytes[2], bytes[3]) = r
  BY <1>8, OfBytes
<1> HIDE DEF bytes
<1>11. /\ all \in Seq(Bits8) /\ Len(all) = Len(s.stream) + Len(bytes)
       /\ \A i \in 1..(Len(s.stream) + Len(bytes)) :
             all[i] = IF i <= Len(s.stream) THEN s.stream[i] ELSE bytes[i - Len(s.stream)]
  <2>1. s.stream \in Seq(Bits8) /\ bytes \in Seq(Bits8)
    BY <1>3, <1>10
  <2> QED
    BY <2>1, ConcatProperties
<1> HIDE DEF all
<1>12. ASSUME NEW c \in 1..k PROVE Symbols(Triple(all, c)) = Four(v, c)
  <2>1. /\ 3 * c - 2 \in 1..(3 * k) /\ 3 * c - 1 \in 1..(3 * k) /\ 3 * c \in 1..(3 * k)
    OBVIOUS
  <2>2. \A i \in 1..(3 * k) : all[i] = s.stream[i]
    BY <1>5, <1>10, <1>11
  <2>3. Triple(all, c) = Triple(s.stream, c)
    BY <2>1, <2>2 DEF Triple
  <2>4. /\ 4 * (c - 1) + 1 \in 1..Len(u) /\ 4 * (c - 1) + 2 \in 1..Len(u)
        /\ 4 * (c - 1) + 3 \in 1..Len(u) /\ 4 * (c - 1) + 4 \in 1..Len(u)
    BY <1>5
  <2>5. Four(v, c) = Four(u, c)
    BY <1>4, <2>4 DEF Four
  <2> QED
    BY <1>1, <2>3, <2>5 DEF DecodedBy
<1>13. Triple(all, k + 1) = r
  <2>1. 3 * (k + 1) - 2 = 3 * k + 1 /\ 3 * (k + 1) - 1 = 3 * k + 2 /\ 3 * (k + 1) = 3 * k + 3
    OBVIOUS
  <2>2. all[3 * k + 1] = bytes[1] /\ all[3 * k + 2] = bytes[2] /\ all[3 * k + 3] = bytes[3]
    <3>1. ASSUME NEW j \in 1..3 PROVE all[3 * k + j] = bytes[j]
      <4> DEFINE i == 3 * k + j
      <4>1. i \in 1..(3 * k + 3) /\ ~(i <= 3 * k) /\ i - 3 * k = j
        OBVIOUS
      <4> HIDE DEF i
      <4>2. all[i] = IF i <= 3 * k THEN s.stream[i] ELSE bytes[i - 3 * k]
        BY ONLY <1>5, <1>10, <1>11, <4>1
      <4> QED
        BY <4>1, <4>2 DEF i
    <3> QED
      BY <3>1
  <2> QED
    BY <1>10, <2>1, <2>2 DEF Triple
<1>14. \A c \in 1..(k + 1) : Symbols(Triple(all, c)) = Four(v, c)
  <2> TAKE c \in 1..(k + 1)
  <2>1. c \in 1..k \/ c = k + 1
    OBVIOUS
  <2> QED
    BY <1>9, <1>12, <1>13, <2>1
<1>15. Len(v) = 4 * (k + 1) + t.tally /\ Len(all) = 3 * (k + 1) /\ t.reg24 = Rest(v, 4 * (k + 1), t.tally)
  BY <1>2, <1>4, <1>5, <1>10, <1>11 DEF Rest
<1>16. DecodedBy(t, v, k + 1)
  BY <1>2, <1>14, <1>15 DEF DecodedBy
<1> QED
  BY <1>2, <1>4, <1>11, <1>16 DEF DecodedTo, t, v

LEMMA StartDecoded == StartOfRun \in RunStates /\ DecodedTo(StartOfRun, <<>>)
<1>1. StartOfRun \in RunStates
  BY DEF StartOfRun, RunStates
<1>2. DecodedBy(StartOfRun, <<>>, 0)
  BY DEF StartOfRun, DecodedBy, Rest
<1>3. <<>> \in Seq(Bits6) /\ StartOfRun.stream \in Seq(Bits8)
  BY DEF StartOfRun
<1> QED
  BY <1>1, <1>2, <1>3 DEF DecodedTo

LEMMA DecodeSymbolType ==
    ASSUME NEW s \in RunStates, NEW symbol \in Nat
    PROVE  DecodeSymbol(s, symbol) \in RunStates /\ DecodeSymbol(s, symbol).errno = s.errno
<1>1. CASE s.tally = 3
  <2> DEFINE r == s.reg24 + symbol
  <2>1. r \in Nat
    BY DEF RunStates
  <2> HIDE DEF r
  <2>2. r \div 65536 \in Nat /\ (r \div 256) % 256 \in Nat /\ r % 256 \in Nat
    BY <2>1
  <2>3. Bytes(r) \in Seq(Nat)
    BY <2>2 DEF Bytes
  <2>4. s.stream \in Seq(Nat)
    BY DEF RunStates
  <2> DEFINE all == s.stream \o Bytes(r)
  <2>5. all \in Seq(Nat)
    BY <2>3, <2>4, Closed
  <2>6. DecodeSymbol(s, symbol) = [s EXCEPT !.stream = all, !.tally = 0, !.reg24 = 0]
    BY <1>1 DEF DecodeSymbol, r
  <2> HIDE DEF all
  <2>7. s.errno \in {"SUCCESS", "B64_BADSYM"} /\ s.padding \in Nat
    BY DEF RunStates
  <2> DEFINE t == [errno |-> s.errno, padding |-> s.padding, tally |-> 0, reg24 |-> 0, stream |-> all]
  <2>8. DecodeSymbol(s, symbol) = t
    BY <2>6 DEF RunStates
  <2>9. t \in RunStates /\ t.errno = s.errno
    BY <2>5, <2>7 DEF RunStates
  <2> QED
    BY <2>8, <2>9, Zenon
<1>2. CASE s.tally # 3
  <2>1. DecodeSymbol(s, symbol) = [s EXCEPT !.tally = s.tally + 1, !.reg24 = 64 * (s.reg24 + symbol)]
    BY <1>2 DEF DecodeSymbol
  <2>2. s.tally + 1 \in 0..3 /\ 64 * (s.reg24 + symbol) \in Nat
    BY <1>2 DEF RunStates
  <2> QED
    BY <2>1, <2>2 DEF RunStates
<1> QED
  BY <1>1, <1>2

LEMMA DecodeTurnType ==
    ASSUME NEW s \in RunStates, NEW data, NEW i, data[i] \in Codes
    PROVE  DecodeTurn(s, data, i) \in RunStates
<1>1. data[i] \in Nat
  BY DEF Codes, Pad
<1>2. DecodeSymbol(s, data[i]) \in RunStates
  BY <1>1, DecodeSymbolType
<1>3. [s EXCEPT !.padding = s.padding + 1] \in RunStates
  <2>1. s.padding + 1 \in Nat
    BY DEF RunStates
  <2> QED
    BY <2>1 DEF RunStates
<1>4. [s EXCEPT !.errno = "B64_BADSYM"] \in RunStates
  BY DEF RunStates
<1> QED
  BY <1>2, <1>3, <1>4 DEF DecodeTurn

Runs(f, data) ==
    /\ f \in [0..Len(data) -> RunStates]
    /\ f[0] = StartOfRun
    /\ \A i \in 1..Len(data) : f[i] = DecodeTurn(f[i - 1], data, i)

\* The states that the decoder goes through are those of its loop.
LEMMA RunIterates ==
    ASSUME NEW data \in Seq(Codes)
    PROVE  \E f : Runs(f, data) /\ RunDecode(data) = f[Len(data)]
<1> DEFINE n == Len(data)
           step == [i \in 1..n |-> [s \in RunStates |-> DecodeTurn(s, data, i)]]
           Decodes(f) == f = [i \in 0..n |-> IF i = 0 THEN StartOfRun ELSE DecodeTurn(f[i - 1], data, i)]
           run == CHOOSE f : Decodes(f)
<1>1. n \in Nat /\ \A i \in 1..n : data[i] \in Codes
  OBVIOUS
<1>2. step \in [1..n -> [RunStates -> RunStates]]
  <2>1. ASSUME NEW i \in 1..n
        PROVE  [s \in RunStates |-> DecodeTurn(s, data, i)] \in [RunStates -> RunStates]
    BY <1>1, DecodeTurnType
  <2> QED
    BY <2>1
<1> HIDE DEF step
<1>3. PICK f : IsIteration(f, RunStates, StartOfRun, n, step)
  BY <1>1, <1>2, StartDecoded, IterationExists, Zenon
<1>4. ASSUME NEW i \in 1..n PROVE f[i] = DecodeTurn(f[i - 1], data, i)
  <2>1. f[i - 1] \in RunStates /\ f[i] = step[i][f[i - 1]]
    BY <1>1, <1>3 DEF IsIteration
  <2> QED
    BY <2>1 DEF step
<1>5. Decodes(f)
  <2> DEFINE turn(i) == IF i = 0 THEN StartOfRun ELSE DecodeTurn(f[i - 1], data, i)
  <2>1. f \in [0..n -> RunStates] /\ f[0] = StartOfRun
    BY <1>3 DEF IsIteration
  <2>2. ASSUME NEW i \in 0..n PROVE f[i] = turn(i)
    <3>1. i = 0 \/ i \in 1..n
      BY <1>1
    <3> QED
      BY <1>1, <1>4, <2>1, <3>1
  <2> HIDE DEF turn
  <2>3. f = [i \in 0..n |-> turn(i)]
    BY <2>1, <2>2
  <2> QED
    BY <2>3, Zenon DEF turn
<1>6. Decodes(run)
  <2> HIDE DEF Decodes
  <2> QED
    BY <1>5, Zenon
<1>7. RunDecode(data) = run[n]
  BY Zenon DEF RunDecode
<1> HIDE DEF run
<1>8. run = [i \in 0..n |-> run[i]] /\ run[0] = StartOfRun
  BY <1>1, <1>6
<1>9. ASSUME NEW i \in 1..n PROVE run[i] = DecodeTurn(run[i - 1], data, i)
  BY <1>1, <1>6
<1> HIDE DEF Decodes
<1> DEFINE T == {i \in Nat : i <= n => run[i] \in RunStates}
<1>10. 0 \in T
  BY <1>8, StartDecoded
<1>11. ASSUME NEW i \in Nat, i \in T PROVE i + 1 \in T
  <2> SUFFICES ASSUME i + 1 <= n PROVE run[i + 1] \in RunStates
    OBVIOUS
  <2>1. i + 1 \in 1..n /\ (i + 1) - 1 = i /\ run[i] \in RunStates
    BY <1>1, <1>11
  <2> QED
    BY <1>1, <1>9, <2>1, DecodeTurnType
<1> HIDE DEF T
<1>12. \A i \in Nat : i \in T
  BY <1>10, <1>11, SetInduction
<1>13. Runs(run, data)
  BY <1>1, <1>8, <1>9, <1>12, SMTT(30) DEF Runs, T
<1> QED
  BY <1>7, <1>13

Unpads(f, symbols) ==
    /\ f \in [0..Len(symbols) -> Seq(Codes)]
    /\ f[0] = <<>>
    /\ \A i \in 1..Len(symbols) : f[i] = IF symbols[i] = Pad THEN f[i - 1] ELSE Append(f[i - 1], symbols[i])

LEMMA UnpaddedIterates ==
    ASSUME NEW symbols \in Seq(Codes)
    PROVE  \E f : Unpads(f, symbols) /\ Unpadded(symbols) = f[Len(symbols)]
<1> DEFINE n == Len(symbols)
           Kept(u, i) == IF symbols[i] = Pad THEN u ELSE Append(u, symbols[i])
           step == [i \in 1..n |-> [u \in Seq(Codes) |-> Kept(u, i)]]
           Keeps(f) == f = [i \in 0..n |-> IF i = 0 THEN <<>>
                                           ELSE IF symbols[i] = Pad THEN f[i - 1]
                                                                    ELSE Append(f[i - 1], symbols[i])]
           part == CHOOSE f : Keeps(f)
<1>1. n \in Nat /\ \A i \in 1..n : symbols[i] \in Codes
  OBVIOUS
<1>2. ASSUME NEW u \in Seq(Codes), NEW i \in 1..n PROVE Kept(u, i) \in Seq(Codes)
  BY <1>1
<1>3. step \in [1..n -> [Seq(Codes) -> Seq(Codes)]]
  <2> HIDE DEF Kept
  <2> QED
    BY <1>2
<1> HIDE DEF step, Kept
<1>4. PICK f : IsIteration(f, Seq(Codes), <<>>, n, step)
  <2>1. <<>> \in Seq(Codes)
    OBVIOUS
  <2> QED
    BY <1>1, <1>3, <2>1, IterationExists, Zenon
<1>5. ASSUME NEW i \in 1..n PROVE f[i] = Kept(f[i - 1], i)
  <2>1. f[i - 1] \in Seq(Codes) /\ f[i] = step[i][f[i - 1]]
    BY <1>1, <1>4 DEF IsIteration
  <2> QED
    BY <2>1 DEF step
<1>6. Keeps(f)
  <2> DEFINE turn(i) == IF i = 0 THEN <<>> ELSE Kept(f[i - 1], i)
  <2>1. f \in [0..n -> Seq(Codes)] /\ f[0] = <<>>
    BY <1>4 DEF IsIteration
  <2>2. ASSUME NEW i \in 0..n PROVE f[i] = turn(i)
    <3>1. i = 0 \/ i \in 1..n
      BY <1>1
    <3> QED
      BY <1>1, <1>5, <2>1, <3>1
  <2> HIDE DEF turn
  <2>3. f = [i \in 0..n |-> turn(i)]
    BY <2>1, <2>2
  <2> QED
    BY <2>3, Zenon DEF turn, Kept
<1>7. Keeps(part)
  <2> HIDE DEF Keeps
  <2> QED
    BY <1>6, Zenon
<1>8. Unpadded(symbols) = part[n]
  BY Zenon DEF Unpadded
<1> HIDE DEF part
<1>9. part = [i \in 0..n |-> part[i]] /\ part[0] = <<>>
  BY <1>1, <1>7
<1>10. ASSUME NEW i \in 1..n PROVE part[i] = Kept(part[i - 1], i)
  <2> DEFINE turn(g, j) == IF j = 0 THEN <<>> ELSE Kept(g[j - 1], j)
  <2>1. part = [j \in 0..n |-> turn(part, j)]
    BY <1>7, Zenon DEF Kept
  <2>2. i \in 0..n /\ i # 0
    BY <1>1
  <2> HIDE DEF turn
  <2>3. part[i] = turn(part, i)
    BY <2>1, <2>2
  <2> QED
    BY <2>2, <2>3, Zenon DEF turn
<1> HIDE DEF Keeps
<1> DEFINE T == {i \in Nat : i <= n => part[i] \in Seq(Codes)}
<1>11. 0 \in T
  BY <1>9
<1>12. ASSUME NEW i \in Nat, i \in T PROVE i + 1 \in T
  <2> SUFFICES ASSUME i + 1 <= n PROVE part[i + 1] \in Seq(Codes)
    OBVIOUS
  <2>1. i + 1 \in 1..n /\ (i + 1) - 1 = i /\ part[i] \in Seq(Codes)
    BY <1>1, <1>12
  <2> QED
    BY <1>2, <1>10, <2>1
<1> HIDE DEF T
<1>13. \A i \in Nat : i \in T
  BY <1>11, <1>12, SetInduction
<1>14. part \in [0..n -> Seq(Codes)]
  <2>1. \A i \in 0..n : part[i] \in Seq(Codes)
    BY <1>1, <1>13 DEF T
  <2> QED
    BY <1>9, <2>1
<1>15. \A i \in 1..n : part[i] = IF symbols[i] = Pad THEN part[i - 1] ELSE Append(part[i - 1], symbols[i])
  BY <1>10, Zenon DEF Kept
<1>16. Unpads(part, symbols)
  BY <1>9, <1>14, <1>15, Zenon DEF Unpads
<1> QED
  BY <1>8, <1>16

\* What counts as padding: "=" in one of the last two places.
One(data, j, i) == IF j \in 1..i /\ data[j] = Pad THEN 1 ELSE 0
PadsAtEnd(data, i) == One(data, Len(data) - 1, i) + One(data, Len(data), i)

\* After i characters that are of use, the state holds the symbols among
\* them, whatever "=" stand between.
StateAfter(s, u, data, i) ==
    /\ s.errno = "SUCCESS" <=> \A j \in 1..i : data[j] # BadSymbol
    /\ s.errno = "SUCCESS" => DecodedTo(s, u) /\ s.padding = PadsAtEnd(data, i)

LEMMA CountedNext ==
    ASSUME NEW data \in Seq(Codes), NEW i \in Nat, i + 1 <= Len(data)
    PROVE  PadsAtEnd(data, i + 1) =
             IF data[i + 1] = Pad /\ CountsAsPadding(data, i + 1) THEN PadsAtEnd(data, i) + 1 ELSE PadsAtEnd(data, i)
<1> DEFINE n == Len(data)
<1>1. n \in Nat
  OBVIOUS
<1> HIDE DEF n
<1>2. \A j \in Int : j \in 1..(i + 1) <=> j \in 1..i \/ j = i + 1
  OBVIOUS
<1>3. One(data, n, i + 1) = IF n = i + 1 /\ data[i + 1] = Pad THEN 1 ELSE One(data, n, i)
  BY <1>1, <1>2 DEF One
<1>4. One(data, n - 1, i + 1) = IF n - 1 = i + 1 /\ data[i + 1] = Pad THEN 1 ELSE One(data, n - 1, i)
  BY <1>1, <1>2 DEF One
<1>5. n = i + 1 => One(data, n, i) = 0
  BY <1>1 DEF One
<1>6. n - 1 = i + 1 => One(data, n - 1, i) = 0
  BY <1>1 DEF One
<1>7. CountsAsPadding(data, i + 1) <=> n = i + 1 \/ n - 1 = i + 1
  BY <1>1 DEF CountsAsPadding, n
<1>8. One(data, n, i) \in {0, 1} /\ One(data, n - 1, i) \in {0, 1}
  BY DEF One
<1> DEFINE a == One(data, n - 1, i)
           b == One(data, n, i)
<1>9. PadsAtEnd(data, i) = a + b /\ PadsAtEnd(data, i + 1) = One(data, n - 1, i + 1) + One(data, n, i + 1)
  BY DEF PadsAtEnd, n
<1> QED
  BY <1>1, <1>3, <1>4, <1>5, <1>6, <1>7, <1>8, <1>9

LEMMA StateNext ==
    ASSUME NEW data \in Seq(Codes), NEW i \in Nat, i + 1 <= Len(data),
           NEW s \in RunStates, NEW u, StateAfter(s, u, data, i),
           NEW v, v = IF data[i + 1] = Pad THEN u ELSE Append(u, data[i + 1])
    PROVE  StateAfter(DecodeTurn(s, data, i + 1), v, data, i + 1)
<1> DEFINE c == data[i + 1]
           t == DecodeTurn(s, data, i + 1)
           good(m) == \A j \in 1..m : data[j] # BadSymbol
<1>1. c \in Codes
  OBVIOUS
<1>2. good(i + 1) <=> good(i) /\ c # BadSymbol
  <2>1. \A j \in 1..(i + 1) : j \in 1..i \/ j = i + 1
    OBVIOUS
  <2>2. i + 1 \in 1..(i + 1) /\ \A j \in 1..i : j \in 1..(i + 1)
    OBVIOUS
  <2> QED
    BY <2>1, <2>2, Zenon
<1>3. s.errno = "SUCCESS" <=> good(i)
  BY Zenon DEF StateAfter
<1>4. s.errno = "SUCCESS" => DecodedTo(s, u) /\ s.padding = PadsAtEnd(data, i)
  BY Zenon DEF StateAfter
<1>5. s.padding \in Nat
  BY DEF RunStates
<1> HIDE DEF good
<1>6. CASE s.errno # "SUCCESS"
  <2>1. t = s
    BY <1>6, Zenon DEF DecodeTurn
  <2>2. ~good(i + 1)
    BY <1>2, <1>3, <1>6
  <2> QED
    BY <1>6, <2>1, <2>2, Zenon DEF StateAfter, good
<1>7. CASE s.errno = "SUCCESS" /\ c = BadSymbol
  <2>1. t = [s EXCEPT !.errno = "B64_BADSYM"]
    BY <1>7 DEF DecodeTurn, BadSymbol, Pad
  <2>2. t.errno = "B64_BADSYM"
    BY <2>1 DEF RunStates
  <2>3. ~good(i + 1)
    BY <1>2, <1>7
  <2>4. t.errno # "SUCCESS"
    BY <2>2
  <2> QED
    BY <2>3, <2>4, Zenon DEF StateAfter, good
<1>8. CASE s.errno = "SUCCESS" /\ c = Pad
  <2>1. v = u /\ c # BadSymbol
    BY <1>8 DEF Pad, BadSymbol
  <2>2. t = IF CountsAsPadding(data, i + 1) THEN [s EXCEPT !.padding = s.padding + 1] ELSE s
    BY <1>8 DEF DecodeTurn
  <2>3. /\ t.errno = s.errno /\ t.tally = s.tally /\ t.reg24 = s.reg24 /\ t.stream = s.stream
        /\ t.padding = IF CountsAsPadding(data, i + 1) THEN s.padding + 1 ELSE s.padding
    BY <2>2 DEF RunStates
  <2>4. t.padding = PadsAtEnd(data, i + 1)
    BY <1>4, <1>8, <2>3, CountedNext
  <2> HIDE DEF t
  <2>5. DecodedTo(t, v)
    BY <1>4, <1>8, <2>1, <2>3, Zenon DEF DecodedTo, DecodedBy
  <2>6. good(i + 1)
    BY <1>2, <1>3, <1>8, <2>1
  <2> QED
    BY <2>4, <2>5, <2>6, <1>8, <2>3, Zenon DEF StateAfter, good, t
<1>9. CASE s.errno = "SUCCESS" /\ c # BadSymbol /\ c # Pad
  <2> HIDE DEF c
  <2>1. v = Append(u, c) /\ c \in Bits6 /\ c \in Nat
    <3>1. v = Append(u, c)
      BY <1>9, Zenon DEF c
    <3>2. c \in Bits6 /\ c \in Nat
      BY <1>1, <1>9 DEF Pad, BadSymbol, Codes, Bits6
    <3> QED
      BY <3>1, <3>2
  <2>2. t = DecodeSymbol(s, c)
    BY <1>9, Zenon DEF DecodeTurn, c
  <2>3. t.padding = s.padding /\ t.errno = s.errno
    BY <2>2 DEF DecodeSymbol, RunStates
  <2>4. DecodedTo(t, v)
    BY <1>4, <1>9, <2>1, <2>2, SymbolToRegister, SymbolToBytes, Zenon
  <2>5. t.padding = PadsAtEnd(data, i + 1)
    BY <1>4, <1>9, <2>3, CountedNext DEF c
  <2>6. good(i + 1)
    BY <1>2, <1>3, <1>9
  <2> QED
    BY <1>9, <2>3, <2>4, <2>5, <2>6, Zenon DEF StateAfter, good
<1> QED
  BY <1>6, <1>7, <1>8, <1>9

\* The loop as a whole: what the symbols without their "=" stand for.
LEMMA RunDecoded ==
    ASSUME NEW data \in Seq(Codes)
    PROVE  /\ RunDecode(data) \in RunStates /\ Unpadded(data) \in Seq(Codes)
           /\ StateAfter(RunDecode(data), Unpadded(data), data, Len(data))
<1>1. PICK f : Runs(f, data) /\ RunDecode(data) = f[Len(data)]
  BY RunIterates, Zenon
<1>2. PICK g : Unpads(g, data) /\ Unpadded(data) = g[Len(data)]
  BY UnpaddedIterates, Zenon
<1> DEFINE n == Len(data)
           T == {i \in Nat : i <= n => StateAfter(f[i], g[i], data, i)}
<1>3. n \in Nat /\ \A i \in Nat : i <= n => i \in 0..n
  OBVIOUS
<1>4. 0 \in T
  <2>1. f[0] = StartOfRun /\ g[0] = <<>>
    BY <1>1, <1>2, Zenon DEF Runs, Unpads
  <2>2. PadsAtEnd(data, 0) = 0
    BY DEF PadsAtEnd, One
  <2>3. StartOfRun.errno = "SUCCESS" /\ StartOfRun.padding = 0 /\ \A j \in 1..0 : data[j] # BadSymbol
    BY DEF StartOfRun
  <2>4. StateAfter(f[0], g[0], data, 0)
    BY <2>1, <2>2, <2>3, StartDecoded, Zenon DEF StateAfter
  <2> QED
    BY <2>4
<1>5. ASSUME NEW i \in Nat, i \in T PROVE i + 1 \in T
  <2> SUFFICES ASSUME i + 1 <= n PROVE StateAfter(f[i + 1], g[i + 1], data, i + 1)
    OBVIOUS
  <2>1. StateAfter(f[i], g[i], data, i)
    BY <1>3, <1>5
  <2>2. i \in 0..n /\ i + 1 \in 1..n /\ (i + 1) - 1 = i
    BY <1>3
  <2>3. f[i] \in RunStates
    BY <1>1, <2>2, Zenon DEF Runs
  <2>4. f[i + 1] = DecodeTurn(f[i], data, i + 1)
    BY <1>1, <2>2 DEF Runs
  <2>5. g[i + 1] = IF data[i + 1] = Pad THEN g[i] ELSE Append(g[i], data[i + 1])
    BY <1>2, <2>2 DEF Unpads
  <2> QED
    BY <2>1, <2>3, <2>4, <2>5, StateNext
<1> HIDE DEF T
<1>6. \A i \in Nat : i \in T
  BY <1>4, <1>5, SetInduction
<1>7. StateAfter(f[n], g[n], data, n)
  BY <1>3, <1>6 DEF T
<1>8. f[n] \in RunStates /\ g[n] \in Seq(Codes)
  <2>1. n \in 0..n
    BY <1>3
  <2> QED
    BY <1>1, <1>2, <2>1, Zenon DEF Runs, Unpads
<1> QED
  BY <1>1, <1>2, <1>7, <1>8

------------------------------------------------------------------------------
(* base64: what an encoding is made of, and what is left without its "=" *)

\* Of symbols that end in "=" and have none before, the others are left.
LEMMA UnpaddedIs ==
    ASSUME NEW symbols \in Seq(Codes), NEW m \in Nat, m <= Len(symbols),
           \A i \in 1..Len(symbols) : symbols[i] = Pad <=> i > m
    PROVE  /\ Unpadded(symbols) \in Seq(Codes) /\ Len(Unpadded(symbols)) = m
           /\ \A i \in 1..m : Unpadded(symbols)[i] = symbols[i]
<1>1. PICK f : Unpads(f, symbols) /\ Unpadded(symbols) = f[Len(symbols)]
  BY UnpaddedIterates, Zenon
<1> DEFINE n == Len(symbols)
           Part(u, k) == Len(u) = k /\ \A j \in 1..k : u[j] = symbols[j]
           T == {i \in Nat : i <= n => /\ i <= m => Part(f[i], i)
                                       /\ i >= m => Part(f[i], m)}
<1>2. n \in Nat
  OBVIOUS
<1>3. f[0] = <<>>
  BY <1>1, Zenon DEF Unpads
<1>4. 0 \in T
  BY <1>3
<1> HIDE DEF Part
<1>5. ASSUME NEW i \in Nat, i \in T PROVE i + 1 \in T
  <2> SUFFICES ASSUME i + 1 <= n
               PROVE  /\ i + 1 <= m => Part(f[i + 1], i + 1)
                      /\ i + 1 >= m => Part(f[i + 1], m)
    OBVIOUS
  <2>1. i \in 0..n /\ i + 1 \in 1..n /\ (i + 1) - 1 = i /\ i <= n
    BY <1>2
  <2>2. f[i] \in Seq(Codes)
    BY <1>1, <2>1, Zenon DEF Unpads
  <2>3. f[i + 1] = IF symbols[i + 1] = Pad THEN f[i] ELSE Append(f[i], symbols[i + 1])
    BY <1>1, <2>1 DEF Unpads
  <2>4. CASE i + 1 <= m
    <3>1. f[i + 1] = Append(f[i], symbols[i + 1])
      BY <2>1, <2>3, <2>4
    <3>2. Part(f[i], i)
      BY <1>5, <2>1, <2>4
    <3>3. Len(f[i]) = i /\ \A j \in 1..i : f[i][j] = symbols[j]
      BY <3>2, Zenon DEF Part
    <3>4. Part(f[i + 1], i + 1)
      <4> DEFINE w == f[i]
                 x == symbols[i + 1]
      <4>1. x \in Codes
        BY <2>1
      <4>2. w \in Seq(Codes) /\ Len(w) = i /\ \A j \in 1..i : w[j] = symbols[j]
        BY <2>2, <3>3
      <4> HIDE DEF w, x
      <4>3. Len(Append(w, x)) = i + 1 /\ Append(w, x)[i + 1] = x /\ \A j \in 1..i : Append(w, x)[j] = w[j]
        BY <4>1, <4>2, AppendProperties
      <4>4. \A j \in 1..(i + 1) : j \in 1..i \/ j = i + 1
        OBVIOUS
      <4>5. \A j \in 1..(i + 1) : Append(w, x)[j] = symbols[j]
        BY <4>2, <4>3, <4>4 DEF x
      <4>6. f[i + 1] = Append(w, x)
        BY <3>1, Zenon DEF w, x
      <4> QED
        BY <4>3, <4>5, <4>6, Zenon DEF Part
    <3> QED
      BY <2>4, <3>4
  <2>5. CASE i + 1 > m
    <3>1. f[i + 1] = f[i]
      BY <2>1, <2>3, <2>5
    <3>2. Part(f[i], m)
      BY <1>5, <2>1, <2>5
    <3> QED
      BY <2>5, <3>1, <3>2
  <2> QED
    BY <2>4, <2>5
<1> HIDE DEF T
<1>6. \A i \in Nat : i \in T
  BY <1>4, <1>5, SetInduction
<1>7. Part(f[n], m)
  BY <1>2, <1>6 DEF T
<1>8. f[n] \in Seq(Codes)
  <2>1. n \in 0..n
    BY <1>2
  <2> QED
    BY <1>1, <2>1, Zenon DEF Unpads
<1> QED
  BY <1>1, <1>7, <1>8, Zenon DEF Part

\* The register of the bytes after the last three.
EndReg24(v, q, r) == IF r = 2 THEN Reg24(v[3 * q + 1], v[3 * q + 2], 0) ELSE Reg24(v[3 * q + 1], 0, 0)

PadsOf(p, x, r) ==
    /\ r = 0 => p = <<>>
    /\ r # 0 => /\ x \in Bits24
                /\ p \in Seq(Codes) /\ Len(p) = 4
                /\ \A j \in 1..4 : p[j] = IF j <= r + 1 THEN Symbols(x)[j] ELSE Pad

LEMMA PadStreamIs ==
    ASSUME NEW v \in Seq(Bits8), NEW q \in Nat, NEW r \in 0..2, Len(v) = 3 * q + r, NEW p, p = PadStream(v),
           NEW x, x = EndReg24(v, q, r)
    PROVE  PadsOf(p, x, r)
<1> DEFINE n == Len(v)
           symbols == Symbols(x)
<1>1. PadCount(n) = IF r = 0 THEN 0 ELSE 3 - r
  <2>1. n % 3 = r /\ (n + 1) % 3 = IF r = 2 THEN 0 ELSE r + 1
    OBVIOUS
  <2> QED
    BY <2>1 DEF PadCount
<1>2. CASE r = 0
  BY <1>1, <1>2 DEF PadStream, PadsOf
<1>3. CASE r # 0
  <2>1. x = IF PadCount(n) = 1 THEN Reg24(v[n - 1], v[n], 0) ELSE Reg24(v[n], 0, 0)
    <3>1. r = 2 => n - 1 = 3 * q + 1 /\ n = 3 * q + 2
      OBVIOUS
    <3>2. r = 1 => n = 3 * q + 1
      OBVIOUS
    <3>3. PadCount(n) = 1 <=> r = 2
      BY <1>1, <1>3
    <3>4. r = 1 \/ r = 2
      BY <1>3
    <3> HIDE DEF n
    <3>5. CASE r = 1
      BY <3>2, <3>3, <3>5 DEF EndReg24
    <3>6. CASE r = 2
      BY <3>1, <3>3, <3>6 DEF EndReg24
    <3> QED
      BY <3>4, <3>5, <3>6
  <2>2. x \in Bits24
    <3>1. 0 \in Bits8
      BY DEF Bits8
    <3>2. v[3 * q + 1] \in Bits8
      <4>1. 3 * q + 1 \in 1..n
        BY <1>3
      <4> QED
        BY <4>1, ElementOfSeq
    <3>3. CASE r = 2
      <4>1. 3 * q + 2 \in 1..n
        BY <3>3
      <4>2. v[3 * q + 2] \in Bits8
        BY <4>1, ElementOfSeq
      <4> QED
        BY <3>1, <3>2, <3>3, <4>2, BytesOf DEF EndReg24
    <3>4. CASE r # 2
      BY <3>1, <3>2, <3>4, BytesOf DEF EndReg24
    <3> QED
      BY <3>3, <3>4
  <2> DEFINE pads == [i \in 1..(3 - r) |-> Pad]
             some == SubSeq(symbols, 1, r + 1)
  <2>3. p = some \o pads
    <3>1. 4 - PadCount(n) = r + 1 /\ PadCount(n) = 3 - r /\ PadCount(n) # 0
      BY <1>1, <1>3
    <3> QED
      BY <2>1, <3>1 DEF PadStream
  <2>4. symbols \in Seq(Bits6) /\ Len(symbols) = 4 /\ \A j \in 1..4 : symbols[j] \in Bits6
    BY <2>2, SymbolsOf
  <2> HIDE DEF symbols
  <2>5. some \in Seq(Bits6) /\ Len(some) = r + 1 /\ \A j \in 1..(r + 1) : some[j] = symbols[j]
    <3> DEFINE k == r + 1
    <3>1. k \in 1..4
      OBVIOUS
    <3> HIDE DEF k
    <3>2. some = SubSeq(symbols, 1, k)
      BY DEF some, k
    <3>3. \A j \in 1..k : symbols[j] \in Bits6
      BY <2>4, <3>1
    <3>4. SubSeq(symbols, 1, k) \in Seq(Bits6) /\ Len(SubSeq(symbols, 1, k)) = k
      BY <3>1, <3>3, SubSeqProperties
    <3>5. \A j \in 1..k : SubSeq(symbols, 1, k)[j] = symbols[j]
      BY <3>1, <3>3, SubSeqProperties
    <3> QED
      BY <3>2, <3>4, <3>5, Zenon DEF k
  <2>6. some \in Seq(Codes)
    <3>1. Bits6 \subseteq Codes
      BY DEF Bits6, Codes, Pad
    <3> HIDE DEF some
    <3> QED
      BY <2>5, <3>1, SeqMonotonic
  <2>7. pads \in Seq(Codes) /\ Len(pads) = 3 - r /\ \A j \in 1..(3 - r) : pads[j] = Pad
    BY DEF Codes, Pad
  <2> HIDE DEF pads, some
  <2>8. /\ some \o pads \in Seq(Codes) /\ Len(some \o pads) = Len(some) + Len(pads)
        /\ \A i \in 1..(Len(some) + Len(pads)) :
              (some \o pads)[i] = IF i <= Len(some) THEN some[i] ELSE pads[i - Len(some)]
    BY <2>6, <2>7, ConcatProperties
  <2>9. p \in Seq(Codes) /\ Len(p) = 4
    BY <2>3, <2>5, <2>7, <2>8
  <2>10. \A j \in 1..4 : p[j] = IF j <= r + 1 THEN symbols[j] ELSE Pad
    BY <2>3, <2>5, <2>7, <2>8
  <2> QED
    BY <1>3, <2>2, <2>9, <2>10 DEF symbols, PadsOf
<1> QED
  BY <1>2, <1>3

\* An encoding: the symbols of q times three bytes and of the r bytes that
\* are left, m in all, and then the padding.
EncodedAs(v, q, r, m, x, e) ==
    /\ e \in Seq(Codes) /\ Len(e) = (IF r = 0 THEN 4 * q ELSE 4 * q + 4)
    /\ m \in Nat /\ m <= Len(e)
    /\ \A i \in 1..Len(e) : e[i] # BadSymbol /\ (e[i] = Pad <=> i > m)
    /\ \A c \in 1..q : /\ Triple(v, c) \in Bits24
                       /\ \A j \in 1..4 : e[4 * (c - 1) + j] = Symbols(Triple(v, c))[j]
    /\ r # 0 => /\ x \in Bits24
                /\ \A j \in 1..(r + 1) : e[4 * q + j] = Symbols(x)[j]

LEMMA EncodingIs ==
    ASSUME NEW v \in Seq(Bits8), v # <<>>, NEW q \in Nat, NEW r \in 0..2, Len(v) = 3 * q + r,
           NEW m, m = 4 * q + (IF r = 0 THEN 0 ELSE r + 1), NEW e, e = EncodeBase64(v),
           NEW x, x = EndReg24(v, q, r)
    PROVE  EncodedAs(v, q, r, m, x, e)
<1> DEFINE run == RunEncode(v)
           p == PadStream(v)
<1>1. e = run \o p
  BY DEF EncodeBase64
<1>2. q = Len(v) \div 3
  OBVIOUS
<1>3. /\ run \in Seq(Bits6) /\ Len(run) = 4 * q
      /\ \A c \in 1..q : Triple(v, c) \in Bits24
      /\ \A c \in 1..q, j \in 1..4 : run[4 * (c - 1) + j] = Symbols(Triple(v, c))[j]
  BY <1>2, RunEncodeIs
<1>4. /\ r = 0 => p = <<>>
      /\ r # 0 => /\ x \in Bits24
                  /\ p \in Seq(Codes) /\ Len(p) = 4
                  /\ \A j \in 1..4 : p[j] = IF j <= r + 1 THEN Symbols(x)[j] ELSE Pad
  <2>1. PadsOf(p, x, r)
    BY PadStreamIs, Zenon
  <2> HIDE DEF p
  <2> QED
    BY <2>1, Zenon DEF PadsOf
<1> HIDE DEF run, p
<1>5. Bits6 \subseteq Codes /\ Pad \notin Bits6 /\ BadSymbol \notin Bits6 /\ Pad # BadSymbol
  BY DEF Bits6, Codes, Pad, BadSymbol
<1>6. run \in Seq(Codes) /\ p \in Seq(Codes)
  <2>1. run \in Seq(Codes)
    BY <1>3, <1>5, SeqMonotonic
  <2>2. <<>> \in Seq(Codes)
    OBVIOUS
  <2> QED
    BY <1>4, <2>1, <2>2, Zenon
<1>7. Len(p) = IF r = 0 THEN 0 ELSE 4
  BY <1>4
<1>8. /\ run \o p \in Seq(Codes) /\ Len(run \o p) = Len(run) + Len(p)
      /\ \A i \in 1..(Len(run) + Len(p)) :
            (run \o p)[i] = IF i <= Len(run) THEN run[i] ELSE p[i - Len(run)]
  BY <1>6, ConcatProperties
<1>9. e \in Seq(Codes) /\ Len(e) = (IF r = 0 THEN 4 * q ELSE 4 * q + 4)
  BY <1>1, <1>3, <1>7, <1>8
<1>10. \A i \in 1..(4 * q) : e[i] = run[i] /\ e[i] \in Bits6
  <2>1. \A i \in 1..(4 * q) : run[i] \in Bits6
    BY <1>3, ElementOfSeq
  <2>2. \A i \in 1..(4 * q) : e[i] = run[i]
    BY <1>1, <1>3, <1>7, <1>8
  <2> QED
    BY <2>1, <2>2
<1>11. ASSUME r # 0 PROVE \A j \in 1..4 : e[4 * q + j] = p[j]
  <2> TAKE j \in 1..4
  <2>1. 4 * q + j \in 1..(Len(run) + Len(p)) /\ ~(4 * q + j <= Len(run)) /\ (4 * q + j) - Len(run) = j
    BY <1>3, <1>7, <1>11
  <2> QED
    BY <1>1, <1>8, <2>1
<1>12. m \in Nat /\ m <= Len(e)
  BY <1>9
<1>13. ASSUME NEW i \in 1..Len(e) PROVE e[i] # BadSymbol /\ (e[i] = Pad <=> i > m)
  <2>1. CASE i <= 4 * q
    <3>1. e[i] \in Bits6 /\ ~(i > m)
      BY <1>10, <2>1
    <3> QED
      BY <1>5, <3>1
  <2>2. CASE i > 4 * q
    <3> DEFINE j == i - 4 * q
    <3>1. r # 0 /\ j \in 1..4 /\ 4 * q + j = i /\ m = 4 * q + (r + 1)
      BY <1>9, <2>2
    <3> HIDE DEF j
    <3>2. e[i] = p[j]
      BY <1>11, <3>1
    <3>3. CASE j <= r + 1
      <4>1. e[i] = Symbols(x)[j]
        BY <1>4, <3>1, <3>2, <3>3
      <4>2. e[i] \in Bits6
        BY <1>4, <3>1, <4>1, SymbolsOf
      <4>3. ~(i > m)
        BY <3>1, <3>3
      <4> QED
        BY <1>5, <4>2, <4>3
    <3>4. CASE j > r + 1
      <4>1. e[i] = Pad
        BY <1>4, <3>1, <3>2, <3>4
      <4>2. i > m
        BY <3>1, <3>4
      <4> QED
        BY <1>5, <4>1, <4>2
    <3> QED
      BY <3>1, <3>3, <3>4
  <2> QED
    BY <1>9, <2>1, <2>2
<1>14. ASSUME NEW c \in 1..q
       PROVE  Triple(v, c) \in Bits24 /\ \A j \in 1..4 : e[4 * (c - 1) + j] = Symbols(Triple(v, c))[j]
  <2>1. \A j \in 1..4 : 4 * (c - 1) + j \in 1..(4 * q)
    OBVIOUS
  <2> QED
    BY <1>3, <1>10, <2>1
<1>15. ASSUME r # 0 PROVE x \in Bits24 /\ \A j \in 1..(r + 1) : e[4 * q + j] = Symbols(x)[j]
  <2>1. \A j \in 1..(r + 1) : j \in 1..4 /\ j <= r + 1
    OBVIOUS
  <2> QED
    BY <1>4, <1>11, <1>15, <2>1
<1> QED
  BY <1>9, <1>12, <1>13, <1>14, <1>15 DEF EncodedAs

------------------------------------------------------------------------------
(* base64: an encoding decodes to the data *)

LEMMA TripleIs ==
    ASSUME NEW v \in Seq(Bits8), NEW c \in Nat \ {0}, 3 * c <= Len(v)
    PROVE  Triple(v, c) \in Bits24 /\ Bytes(Triple(v, c)) = <<v[3 * c - 2], v[3 * c - 1], v[3 * c]>>
<1>1. 3 * c - 2 \in 1..Len(v) /\ 3 * c - 1 \in 1..Len(v) /\ 3 * c \in 1..Len(v)
  OBVIOUS
<1>2. v[3 * c - 2] \in Bits8 /\ v[3 * c - 1] \in Bits8 /\ v[3 * c] \in Bits8
  BY <1>1, ElementOfSeq
<1> QED
  BY <1>2, BytesOf DEF Triple

\* Symbols determine their register.
LEMMA SameSymbols ==
    ASSUME NEW x \in Bits24, NEW y \in Bits24, \A j \in 1..4 : Symbols(x)[j] = Symbols(y)[j]
    PROVE  x = y
<1> DEFINE f == Symbols(x)
           g == Symbols(y)
<1>1. 64 * (64 * (64 * f[1] + f[2]) + f[3]) + f[4] = x
  BY SymbolsOf
<1>2. 64 * (64 * (64 * g[1] + g[2]) + g[3]) + g[4] = y
  BY SymbolsOf
<1>3. f[1] = g[1] /\ f[2] = g[2] /\ f[3] = g[3] /\ f[4] = g[4]
  OBVIOUS
<1> HIDE DEF f, g
<1> QED
  BY <1>1, <1>2, <1>3

\* The symbols of one or two bytes, and those that hold none of their bits.
LEMMA EndSymbols ==
    ASSUME NEW a \in Bits8, NEW b \in Bits8, NEW x, x = Reg24(a, b, 0)
    PROVE  /\ x \in Bits24 /\ Symbols(x)[4] = 0
           /\ b = 0 => Symbols(x)[3] = 0
<1>1. 0 \in Bits8
  BY DEF Bits8
<1>2. x \in Bits24
  BY <1>1, BytesOf
<1>3. x = 65536 * a + 256 * b /\ a \in 0..255 /\ b \in 0..255
  BY DEF Reg24, Bits8
<1>4. x % 64 = 0
  BY <1>3
<1>5. b = 0 => (x \div 64) % 64 = 0
  BY <1>3
<1> QED
  BY <1>2, <1>4, <1>5 DEF Symbols

\* The symbols of whole bytes do not depend on the bits of no byte.
LEMMA EndBytes ==
    ASSUME NEW x \in Bits24
    PROVE  /\ Symbols(Reg24(Bytes(x)[1], Bytes(x)[2], 0))[1] = Symbols(x)[1]
           /\ Symbols(Reg24(Bytes(x)[1], Bytes(x)[2], 0))[2] = Symbols(x)[2]
           /\ Symbols(Reg24(Bytes(x)[1], 0, 0))[1] = Symbols(x)[1]
<1> DEFINE a == x \div 65536
           b == (x \div 256) % 256
           c == x % 256
           y == 65536 * a + 256 * b
           z == 65536 * a
<1>1. x \in Nat /\ x < 16777216
  BY DEF Bits24
<1>2. a \in 0..255 /\ b \in 0..255 /\ c \in 0..255
  BY <1>1
<1>3. x = 65536 * a + 256 * b + c
  BY <1>1
<1>4. Bytes(x) = <<a, b, c>>
  BY DEF Bytes
<1> HIDE DEF a, b, c, y, z
<1>5. Reg24(Bytes(x)[1], Bytes(x)[2], 0) = y /\ Reg24(Bytes(x)[1], 0, 0) = z
  <2>1. Bytes(x)[1] = a /\ Bytes(x)[2] = b
    BY <1>4
  <2>2. Reg24(a, b, 0) = y /\ Reg24(a, 0, 0) = z
    BY <1>2 DEF Reg24, y, z
  <2> QED
    BY <2>1, <2>2, Zenon
<1>6. x \div 262144 = a \div 4 /\ y \div 262144 = a \div 4 /\ z \div 262144 = a \div 4
  BY <1>2, <1>3 DEF y, z
<1>7. x \div 4096 = 16 * a + (b \div 16) /\ y \div 4096 = 16 * a + (b \div 16)
  BY <1>2, <1>3 DEF y
<1>8. Symbols(x)[1] = a \div 4 /\ Symbols(y)[1] = a \div 4 /\ Symbols(z)[1] = a \div 4
  BY <1>6 DEF Symbols
<1>9. Symbols(x)[2] = (16 * a + (b \div 16)) % 64 /\ Symbols(y)[2] = (16 * a + (b \div 16)) % 64
  BY <1>7 DEF Symbols
<1> QED
  BY <1>5, <1>8, <1>9

LEMMA StreamIs ==
    ASSUME NEW v \in Seq(Bits8), NEW w \in Seq(Bits8), NEW q \in Nat, 3 * q <= Len(v), 3 * q <= Len(w),
           \A c \in 1..q, j \in 1..4 : Symbols(Triple(v, c))[j] = Symbols(Triple(w, c))[j]
    PROVE  \A i \in 1..(3 * q) : v[i] = w[i]
<1>1. ASSUME NEW c \in 1..q
      PROVE  v[3 * c - 2] = w[3 * c - 2] /\ v[3 * c - 1] = w[3 * c - 1] /\ v[3 * c] = w[3 * c]
  <2>1. c \in Nat \ {0} /\ 3 * c <= Len(v) /\ 3 * c <= Len(w)
    OBVIOUS
  <2>2. Triple(v, c) \in Bits24 /\ Bytes(Triple(v, c)) = <<v[3 * c - 2], v[3 * c - 1], v[3 * c]>>
    BY <2>1, TripleIs
  <2>3. Triple(w, c) \in Bits24 /\ Bytes(Triple(w, c)) = <<w[3 * c - 2], w[3 * c - 1], w[3 * c]>>
    BY <2>1, TripleIs
  <2>4. Triple(v, c) = Triple(w, c)
    BY <2>2, <2>3, SameSymbols
  <2>5. <<v[3 * c - 2], v[3 * c - 1], v[3 * c]>> = <<w[3 * c - 2], w[3 * c - 1], w[3 * c]>>
    BY <2>2, <2>3, <2>4, Zenon
  <2> QED
    BY <2>5
<1> TAKE i \in 1..(3 * q)
<1> DEFINE c == (i + 2) \div 3
<1>2. c \in 1..q /\ (i = 3 * c - 2 \/ i = 3 * c - 1 \/ i = 3 * c)
  OBVIOUS
<1> HIDE DEF c
<1> QED
  BY <1>1, <1>2

\* What the register holds when all symbols of an encoding have been read.
LEMMA EndRegister ==
    ASSUME NEW q \in Nat, NEW r \in {1, 2}, NEW u, NEW x \in Bits24,
           \A j \in 1..(r + 1) : u[4 * q + j] = Symbols(x)[j],
           Symbols(x)[4] = 0, r = 1 => Symbols(x)[3] = 0,
           NEW y, y = Rest(u, 4 * q, r + 1)
    PROVE  (IF r = 1 THEN 64 * y ELSE y) = x
<1> DEFINE f == Symbols(x)
<1>1. 64 * (64 * (64 * f[1] + f[2]) + f[3]) + f[4] = x /\ \A j \in 1..4 : f[j] \in Bits6
  BY SymbolsOf
<1>2. f[1] \in Nat /\ f[2] \in Nat /\ f[3] \in Nat /\ f[4] = 0 /\ (r = 1 => f[3] = 0)
  BY <1>1 DEF Bits6
<1>3. \A j \in 1..(r + 1) : u[4 * q + j] = f[j]
  OBVIOUS
<1> HIDE DEF f
<1>4. CASE r = 1
  <2>1. u[4 * q + 1] = f[1] /\ u[4 * q + 2] = f[2]
    BY <1>3, <1>4
  <2>2. y = 64 * (64 * f[1] + f[2])
    BY <1>4, <2>1 DEF Rest
  <2> QED
    BY <1>1, <1>2, <1>4, <2>2
<1>5. CASE r = 2
  <2>1. u[4 * q + 1] = f[1] /\ u[4 * q + 2] = f[2] /\ u[4 * q + 3] = f[3]
    BY <1>3, <1>5
  <2>2. y = 64 * (64 * (64 * f[1] + f[2]) + f[3])
    BY <1>5, <2>1 DEF Rest
  <2> QED
    BY <1>1, <1>2, <1>5, <2>2
<1> QED
  BY <1>4, <1>5

\* What unpadding makes of the state when the padding is as it should be.
LEMMA UnpadIs ==
    ASSUME NEW s \in RunStates, s.errno = "SUCCESS", NEW r \in {1, 2}, s.tally = r + 1, s.padding = 3 - r,
           NEW x, x = IF r = 1 THEN 64 * s.reg24 ELSE s.reg24
    PROVE  EndDecode(UnpadStream(s)) = [errno |-> "SUCCESS", result |-> s.stream \o SubSeq(Bytes(x), 1, r)]
<1> DEFINE more == s.stream \o SubSeq(Bytes(x), 1, r)
           t == UnpadStream(s)
<1>1. s.padding + s.tally = 4 /\ (s.padding = 2 <=> r = 1) /\ (IF s.padding = 2 THEN 1 ELSE 2) = r
  OBVIOUS
<1>2. t = [s EXCEPT !.stream = more]
  <2>1. s.padding + s.tally # 0 /\ (IF s.padding = 2 THEN 64 * s.reg24 ELSE s.reg24) = x
    BY <1>1
  <2>2. t = [s EXCEPT !.stream = s.stream \o SubSeq(Bytes(x), 1, IF s.padding = 2 THEN 1 ELSE 2)]
    BY <1>1, <2>1, Zenon DEF UnpadStream
  <2> QED
    BY <1>1, <2>2, Zenon
<1> HIDE DEF more
<1>3. t.errno = "SUCCESS" /\ t.stream = more
  BY <1>2 DEF RunStates
<1> HIDE DEF t
<1>4. EndDecode(t) = [errno |-> "SUCCESS", result |-> more]
  BY <1>3 DEF EndDecode
<1> QED
  BY <1>4, Zenon DEF t, more

LEMMA NoPadIs ==
    ASSUME NEW s \in RunStates, s.errno = "SUCCESS", s.tally = 0, s.padding = 0
    PROVE  EndDecode(UnpadStream(s)) = [errno |-> "SUCCESS", result |-> s.stream]
  BY DEF UnpadStream, EndDecode

LEMMA FirstPart ==
    ASSUME NEW S, NEW s \in Seq(S), NEW k \in 0..Len(s), NEW t, t = SubSeq(s, 1, k)
    PROVE  t \in Seq(S) /\ Len(t) = k /\ \A j \in 1..k : t[j] = s[j]
<1>1. \A j \in 1..k : s[j] \in S
  BY ElementOfSeq
<1>2. /\ t \in Seq(S)
      /\ Len(t) = IF 1 <= k THEN k - 1 + 1 ELSE 0
      /\ \A j \in 1..(k - 1 + 1) : t[j] = s[1 + j - 1]
  BY <1>1, SubSeqProperties
<1> QED
  BY <1>2

\* The bytes that are added to the stream are the last of the data.
Completes(w, x, r, v) == w \o SubSeq(Bytes(x), 1, r) = v

LEMMA LastBytes ==
    ASSUME NEW v \in Seq(Bits8), NEW q \in Nat, NEW r \in {1, 2}, Len(v) = 3 * q + r,
           NEW w \in Seq(Bits8), Len(w) = 3 * q, \A i \in 1..(3 * q) : w[i] = v[i],
           NEW x, x = EndReg24(v, q, r)
    PROVE  Completes(w, x, r, v)
<1> DEFINE a == v[3 * q + 1]
           b == IF r = 2 THEN v[3 * q + 2] ELSE 0
<1>1. a \in Bits8 /\ b \in Bits8 /\ 0 \in Bits8
  <2>1. 3 * q + 1 \in 1..Len(v) /\ (r = 2 => 3 * q + 2 \in 1..Len(v))
    OBVIOUS
  <2>2. a \in Bits8 /\ (r = 2 => v[3 * q + 2] \in Bits8)
    BY <2>1, ElementOfSeq
  <2>3. 0 \in Bits8
    BY DEF Bits8
  <2> QED
    BY <2>2, <2>3
<1>2. Bytes(x) = <<a, b, 0>>
  <2>1. x = Reg24(a, b, 0)
    BY DEF EndReg24
  <2> QED
    BY <1>1, <2>1, BytesOf
<1> DEFINE bytes == Bytes(x)
           p == SubSeq(bytes, 1, r)
<1>3. r = 1 => v[3 * q + 1] = a
  OBVIOUS
<1>4. r = 2 => v[3 * q + 1] = a /\ v[3 * q + 2] = b
  OBVIOUS
<1> HIDE DEF a, b, bytes
<1>5. p \in Seq(Bits8) /\ Len(p) = r /\ \A j \in 1..r : p[j] = v[3 * q + j]
  <2>1. bytes \in Seq(Bits8) /\ Len(bytes) = 3 /\ bytes[1] = a /\ bytes[2] = b
    <3>1. bytes = <<a, b, 0>>
      BY <1>2, Zenon DEF bytes
    <3> QED
      BY <1>1, <3>1
  <2>2. r \in 0..Len(bytes)
    BY <2>1
  <2> HIDE DEF p
  <2>3. p \in Seq(Bits8) /\ Len(p) = r /\ \A j \in 1..r : p[j] = bytes[j]
    <3>1. p = SubSeq(bytes, 1, r)
      BY Zenon DEF p
    <3>2. bytes \in Seq(Bits8)
      BY <2>1
    <3> QED
      BY ONLY <2>2, <3>1, <3>2, FirstPart
  <2>4. \A j \in 1..r : p[j] = v[3 * q + j]
    BY <1>3, <1>4, <2>1, <2>3
  <2> QED
    BY <2>3, <2>4
<1> HIDE DEF p
<1> DEFINE all == w \o p
<1>6. /\ all \in Seq(Bits8) /\ Len(all) = Len(w) + Len(p)
      /\ \A i \in 1..(Len(w) + Len(p)) : all[i] = IF i <= Len(w) THEN w[i] ELSE p[i - Len(w)]
  BY <1>5, ConcatProperties
<1> HIDE DEF all
<1>7. Len(all) = Len(v)
  BY <1>5, <1>6
<1>8. ASSUME NEW i \in 1..Len(v) PROVE all[i] = v[i]
  <2>1. CASE i <= 3 * q
    BY <1>5, <1>6, <2>1
  <2>2. CASE i > 3 * q
    <3> DEFINE j == i - 3 * q
    <3>1. j \in 1..r /\ i = 3 * q + j /\ ~(i <= Len(w)) /\ i - Len(w) = j
      BY <2>2
    <3> HIDE DEF j
    <3>2. all[i] = p[j]
      BY <1>5, <1>6, <3>1
    <3> QED
      BY <1>5, <3>1, <3>2
  <2> QED
    BY <2>1, <2>2
<1>9. all = v
  BY <1>6, <1>7, <1>8, SeqEqual
<1> QED
  BY <1>9, Zenon DEF all, p, bytes, Completes

LEMMA DecodesBack ==
    ASSUME NEW v \in Seq(Bits8), v # <<>>
    PROVE  DecodeBase64(EncodeBase64(v)) = [errno |-> "SUCCESS", result |-> v]
<1> DEFINE q == Len(v) \div 3
           r == Len(v) % 3
           m == 4 * q + (IF r = 0 THEN 0 ELSE r + 1)
           e == EncodeBase64(v)
           n == Len(e)
           s == RunDecode(e)
           u == Unpadded(e)
           x == EndReg24(v, q, r)
<1>1. q \in Nat /\ r \in 0..2 /\ Len(v) = 3 * q + r /\ m = 4 * q + (IF r = 0 THEN 0 ELSE r + 1)
  OBVIOUS
<1> HIDE DEF q, r, m, e, s, u, x
<1>2. e = EncodeBase64(v) /\ s = RunDecode(e) /\ u = Unpadded(e) /\ x = EndReg24(v, q, r)
  BY Zenon DEF e, s, u, x
<1>3. /\ e \in Seq(Codes) /\ n = (IF r = 0 THEN 4 * q ELSE 4 * q + 4)
      /\ m \in Nat /\ m <= n
      /\ \A i \in 1..n : e[i] # BadSymbol /\ (e[i] = Pad <=> i > m)
      /\ \A c \in 1..q : /\ Triple(v, c) \in Bits24
                         /\ \A j \in 1..4 : e[4 * (c - 1) + j] = Symbols(Triple(v, c))[j]
      /\ r # 0 => /\ x \in Bits24
                  /\ \A j \in 1..(r + 1) : e[4 * q + j] = Symbols(x)[j]
  <2>1. EncodedAs(v, q, r, m, x, e)
    BY <1>1, <1>2, EncodingIs, Zenon
  <2> QED
    BY <2>1, Zenon DEF EncodedAs
<1>4. n # 0
  <2>1. Len(v) # 0
    BY EmptySeq
  <2> QED
    BY <1>1, <1>3, <2>1
<1>5. Len(u) = m /\ \A i \in 1..m : u[i] = e[i]
  BY <1>2, <1>3, UnpaddedIs
<1>6. s \in RunStates /\ StateAfter(s, u, e, n)
  BY <1>2, <1>3, RunDecoded
<1>7. s.errno = "SUCCESS" /\ DecodedTo(s, u) /\ s.padding = PadsAtEnd(e, n)
  BY <1>3, <1>6, Zenon DEF StateAfter
<1>8. s.padding = IF r = 0 THEN 0 ELSE 3 - r
  <2>1. n \in Nat /\ n >= 4 /\ n - 1 \in 1..n /\ n \in 1..n
    BY <1>1, <1>3, <1>4
  <2>2. One(e, n, n) = (IF n > m THEN 1 ELSE 0) /\ One(e, n - 1, n) = (IF n - 1 > m THEN 1 ELSE 0)
    BY <1>3, <2>1, Zenon DEF One
  <2>3. PadsAtEnd(e, n) = One(e, n - 1, n) + One(e, n, n)
    BY Zenon DEF PadsAtEnd
  <2> QED
    BY <1>1, <1>3, <1>7, <2>2, <2>3
<1>9. PICK k \in Nat : DecodedBy(s, u, k)
  BY <1>7, Zenon DEF DecodedTo
<1>10. /\ m = 4 * k + s.tally /\ Len(s.stream) = 3 * k
       /\ \A c \in 1..k : Symbols(Triple(s.stream, c)) = Four(u, c)
       /\ s.reg24 = Rest(u, 4 * k, s.tally)
  BY <1>5, <1>9, Zenon DEF DecodedBy
<1>11. k = q /\ s.tally = IF r = 0 THEN 0 ELSE r + 1
  <2>1. s.tally \in 0..3
    BY <1>6 DEF RunStates
  <2> QED
    BY <1>1, <1>10, <2>1
<1>12. s.stream \in Seq(Bits8) /\ 3 * q <= Len(v) /\ Len(s.stream) = 3 * q
  BY <1>1, <1>7, <1>10, <1>11 DEF DecodedTo
<1>13. \A i \in 1..(3 * q) : s.stream[i] = v[i]
  <2>1. ASSUME NEW c \in 1..q, NEW j \in 1..4
        PROVE  Symbols(Triple(s.stream, c))[j] = Symbols(Triple(v, c))[j]
    <3>1. /\ 4 * (c - 1) + 1 \in 1..m /\ 4 * (c - 1) + 2 \in 1..m
          /\ 4 * (c - 1) + 3 \in 1..m /\ 4 * (c - 1) + 4 \in 1..m
      BY <1>1
    <3>2. Four(u, c) = <<e[4 * (c - 1) + 1], e[4 * (c - 1) + 2], e[4 * (c - 1) + 3], e[4 * (c - 1) + 4]>>
      BY <1>5, <3>1, Zenon DEF Four
    <3>3. Four(u, c)[j] = e[4 * (c - 1) + j]
      BY <3>2, SMTT(30)
    <3>4. e[4 * (c - 1) + j] = Symbols(Triple(v, c))[j]
      BY <1>3
    <3>5. Symbols(Triple(s.stream, c)) = Four(u, c)
      BY <1>10, <1>11
    <3> QED
      BY <3>3, <3>4, <3>5, Zenon
  <2>2. 3 * q <= Len(s.stream)
    BY <1>1, <1>12
  <2> DEFINE w == s.stream
  <2> HIDE DEF w
  <2>3. w \in Seq(Bits8) /\ 3 * q <= Len(w) /\ 3 * q <= Len(v)
        /\ \A c \in 1..q, j \in 1..4 : Symbols(Triple(w, c))[j] = Symbols(Triple(v, c))[j]
    BY <1>12, <2>1, <2>2, Zenon DEF w
  <2>4. \A i \in 1..(3 * q) : w[i] = v[i]
    BY <1>1, <2>3, StreamIs
  <2> QED
    BY <2>4, Zenon DEF w
<1>14. EndDecode(UnpadStream(s)) = [errno |-> "SUCCESS", result |-> v]
  <2>1. CASE r = 0
    <3>1. s.tally = 0 /\ s.padding = 0
      BY <1>8, <1>11, <2>1
    <3>2. s.stream = v
      <4>1. Len(s.stream) = Len(v)
        BY <1>1, <1>12, <2>1
      <4>2. Len(s.stream) = 3 * q
        BY <1>12
      <4> QED
        BY <1>12, <1>13, <4>1, <4>2, SeqEqual
    <3> QED
      BY <1>6, <1>7, <3>1, <3>2, NoPadIs
  <2>2. CASE r # 0
    <3>1. r \in {1, 2} /\ s.tally = r + 1 /\ s.padding = 3 - r
      BY <1>1, <1>8, <1>11, <2>2
    <3> DEFINE y == IF r = 1 THEN 64 * s.reg24 ELSE s.reg24
    <3>2. y = x
      <4>1. \A j \in 1..(r + 1) : u[4 * q + j] = Symbols(x)[j]
        <5>1. \A j \in 1..(r + 1) : 4 * q + j \in 1..m
          BY <1>1, <3>1
        <5> QED
          BY <1>3, <1>5, <2>2, <5>1
      <4>2. Symbols(x)[4] = 0 /\ (r = 1 => Symbols(x)[3] = 0)
        <5> DEFINE a == v[3 * q + 1]
                   b == IF r = 2 THEN v[3 * q + 2] ELSE 0
        <5>1. 3 * q + 1 \in 1..Len(v) /\ (r = 2 => 3 * q + 2 \in 1..Len(v))
          BY <1>1, <3>1
        <5>2. a \in Bits8 /\ (r = 2 => v[3 * q + 2] \in Bits8)
          BY <5>1, ElementOfSeq
        <5>3. 0 \in Bits8
          BY DEF Bits8
        <5>4. b \in Bits8 /\ (r = 1 => b = 0)
          BY <5>2, <5>3
        <5>5. x = Reg24(a, b, 0)
          BY <1>2, <3>1 DEF EndReg24
        <5> HIDE DEF a, b
        <5> QED
          BY <5>2, <5>4, <5>5, EndSymbols
      <4>3. s.reg24 = Rest(u, 4 * q, r + 1)
        BY <1>10, <1>11, <3>1
      <4> QED
        BY <1>1, <1>3, <2>2, <3>1, <4>1, <4>2, <4>3, EndRegister
    <3>3. EndDecode(UnpadStream(s)) = [errno |-> "SUCCESS", result |-> s.stream \o SubSeq(Bytes(y), 1, r)]
      BY <1>6, <1>7, <3>1, UnpadIs
    <3> HIDE DEF y
    <3>4. s.stream \o SubSeq(Bytes(x), 1, r) = v
      <4> DEFINE w == s.stream
      <4>1. w \in Seq(Bits8) /\ Len(w) = 3 * q /\ \A i \in 1..(3 * q) : w[i] = v[i]
        BY <1>12, <1>13, Zenon
      <4> HIDE DEF w
      <4>2. Len(v) = 3 * q + r /\ q \in Nat /\ r \in {1, 2}
        BY <1>1, <3>1
      <4>3. Completes(w, x, r, v)
        BY <1>2, <4>1, <4>2, LastBytes, Zenon
      <4> QED
        BY <4>3, Zenon DEF w, Completes
    <3> QED
      BY <3>2, <3>3, <3>4, Zenon
  <2> QED
    BY <2>1, <2>2
<1>15. DecodeBase64(e) = EndDecode(UnpadStream(s))
  <2>1. e # <<>>
    BY <1>4
  <2> QED
    BY <2>1, Zenon DEF DecodeBase64, s
<1> QED
  BY <1>14, <1>15, Zenon DEF e

------------------------------------------------------------------------------
(* base64: what decodes is an encoding of the result, up to its last bits *)

LEMMA AgainIs ==
    ASSUME NEW v \in Seq(Bits8), v # <<>>, NEW q \in Nat, NEW r \in 0..2, Len(v) = 3 * q + r,
           NEW x, x = EndReg24(v, q, r),
           NEW u \in Seq(Bits6), Len(u) = 4 * q + (IF r = 0 THEN 0 ELSE r + 1),
           \A c \in 1..q : Symbols(Triple(v, c)) = Four(u, c),
           r # 0 => \A j \in 1..r : Symbols(x)[j] = u[4 * q + j]
    PROVE  EncodesTo(v, u, Unpadded(EncodeBase64(v)))
<1> DEFINE m == 4 * q + (IF r = 0 THEN 0 ELSE r + 1)
           e == EncodeBase64(v)
           w == Unpadded(e)
<1>1. m \in Nat /\ m = 4 * q + (IF r = 0 THEN 0 ELSE r + 1) /\ Len(u) = m
  OBVIOUS
<1> HIDE DEF m, e, w
<1>2. e = EncodeBase64(v) /\ w = Unpadded(e)
  BY Zenon DEF e, w
<1>3. EncodedAs(v, q, r, m, x, e)
  BY <1>1, <1>2, EncodingIs, Zenon
<1>4. /\ e \in Seq(Codes) /\ Len(e) = (IF r = 0 THEN 4 * q ELSE 4 * q + 4)
      /\ m \in Nat /\ m <= Len(e)
      /\ \A i \in 1..Len(e) : e[i] # BadSymbol /\ (e[i] = Pad <=> i > m)
      /\ \A c \in 1..q : \A j \in 1..4 : e[4 * (c - 1) + j] = Symbols(Triple(v, c))[j]
      /\ r # 0 => \A j \in 1..(r + 1) : e[4 * q + j] = Symbols(x)[j]
  BY <1>3, Zenon DEF EncodedAs
<1>5. w \in Seq(Codes) /\ Len(w) = m /\ \A i \in 1..m : w[i] = e[i]
  BY <1>2, <1>4, UnpaddedIs
<1>6. ASSUME NEW i \in 1..(4 * q) PROVE w[i] = u[i]
  <2> DEFINE c == (i + 3) \div 4
             j == i - 4 * (c - 1)
  <2>1. c \in 1..q /\ j \in 1..4 /\ 4 * (c - 1) + j = i /\ i \in 1..m
    BY <1>1
  <2> HIDE DEF c, j
  <2>2. w[i] = Symbols(Triple(v, c))[j]
    BY <1>4, <1>5, <2>1
  <2>3. Symbols(Triple(v, c)) = Four(u, c)
    BY <2>1
  <2>4. Four(u, c)[j] = u[4 * (c - 1) + j]
    <3> DEFINE k == 4 * (c - 1)
    <3>1. Four(u, c) = <<u[k + 1], u[k + 2], u[k + 3], u[k + 4]>>
      BY Zenon DEF Four
    <3> HIDE DEF k
    <3>2. j \in {1, 2, 3, 4}
      BY <2>1
    <3>3. Four(u, c)[j] = u[k + j]
      BY ONLY <3>1, <3>2
    <3> QED
      BY <3>3, Zenon DEF k
  <2> QED
    BY <2>1, <2>2, <2>3, <2>4
<1>7. ASSUME NEW i \in 1..m, i > 4 * q, i < m PROVE w[i] = u[i]
  <2> DEFINE j == i - 4 * q
  <2>1. r # 0 /\ j \in 1..r /\ j \in 1..(r + 1) /\ 4 * q + j = i
    BY <1>1, <1>7
  <2> HIDE DEF j
  <2>2. w[i] = Symbols(x)[j]
    BY <1>4, <1>5, <2>1
  <2> QED
    BY <2>1, <2>2
<1>8. m > 0
  <2>1. Len(v) # 0
    BY EmptySeq
  <2> QED
    BY <1>1, <2>1
<1>9. Front(w) = Front(u)
  <2>1. m - 1 \in 0..Len(w) /\ m - 1 \in 0..Len(u)
    BY <1>1, <1>5, <1>8
  <2> DEFINE f == Front(w)
             g == Front(u)
  <2>2. f = SubSeq(w, 1, m - 1) /\ g = SubSeq(u, 1, m - 1)
    BY <1>1, <1>5 DEF Front
  <2> HIDE DEF f, g
  <2>3. f \in Seq(Codes) /\ Len(f) = m - 1 /\ \A i \in 1..(m - 1) : f[i] = w[i]
    BY <1>5, <2>1, <2>2, FirstPart
  <2>4. g \in Seq(Bits6) /\ Len(g) = m - 1 /\ \A i \in 1..(m - 1) : g[i] = u[i]
    BY <2>1, <2>2, FirstPart
  <2>5. g \in Seq(Codes)
    <3>1. Bits6 \subseteq Codes
      BY DEF Bits6, Codes, Pad
    <3> QED
      BY <2>4, <3>1, SeqMonotonic
  <2>6. ASSUME NEW i \in 1..(m - 1) PROVE w[i] = u[i]
    <3>1. CASE i <= 4 * q
      <4>1. i \in 1..(4 * q)
        BY <1>1, <3>1
      <4> QED
        BY <1>6, <4>1
    <3>2. CASE i > 4 * q
      <4>1. i \in 1..m /\ i > 4 * q /\ i < m
        BY <1>1, <3>2
      <4> QED
        BY <1>7, <4>1
    <3> QED
      BY <1>1, <3>1, <3>2
  <2>7. f = g
    BY <2>3, <2>4, <2>5, <2>6, SeqEqual
  <2> QED
    BY <2>7, Zenon DEF f, g
<1>10. ASSUME Len(u) % 4 = 0 PROVE w = u
  <2>1. m = 4 * q
    BY <1>1, <1>10
  <2>2. u \in Seq(Codes)
    <3>1. Bits6 \subseteq Codes
      BY DEF Bits6, Codes, Pad
    <3> QED
      BY <3>1, SeqMonotonic
  <2> QED
    BY <1>1, <1>5, <1>6, <2>1, <2>2, SeqEqual
<1>11. Len(u) % 4 # 1
  BY <1>1
<1>12. Len(w) = Len(u)
  BY <1>1, <1>5
<1>13. EncodesTo(v, u, w)
  BY <1>9, <1>10, <1>11, <1>12, Zenon DEF EncodesTo
<1> QED
  BY <1>2, <1>13, Zenon

\* The padding is that of one or two bytes when it is accepted.
LEMMA PaddingFits ==
    ASSUME NEW data \in Seq(Codes), NEW s \in RunStates, s.errno = "SUCCESS",
           s.padding = PadsAtEnd(data, Len(data)), EndDecode(UnpadStream(s)).errno = "SUCCESS"
    PROVE  \/ s.tally = 0 /\ s.padding = 0
           \/ s.tally = 2 /\ s.padding = 2
           \/ s.tally = 3 /\ s.padding = 1
<1>1. s.padding \in {0, 1, 2} /\ s.tally \in 0..3
  <2>1. One(data, Len(data) - 1, Len(data)) \in {0, 1} /\ One(data, Len(data), Len(data)) \in {0, 1}
    BY DEF One
  <2>2. s.padding \in {0, 1, 2}
    BY <2>1 DEF PadsAtEnd
  <2> QED
    BY <2>2 DEF RunStates
<1>2. CASE s.padding + s.tally # 0 /\ s.padding + s.tally # 4
  <2>1. UnpadStream(s) = [s EXCEPT !.errno = "B64_BADPAD"]
    BY <1>2 DEF UnpadStream
  <2>2. UnpadStream(s).errno = "B64_BADPAD"
    BY <2>1 DEF RunStates
  <2>3. EndDecode(UnpadStream(s)).errno = "B64_BADPAD"
    BY <2>2 DEF EndDecode
  <2> QED
    BY <2>3
<1>3. CASE s.padding + s.tally = 0
  BY <1>1, <1>3
<1>4. CASE s.padding + s.tally = 4
  BY <1>1, <1>4
<1> QED
  BY <1>2, <1>3, <1>4

\* The register of the symbols that are left, and its bytes.
RestOf24(x, u, k, r) == x \in Bits24 /\ \A j \in 1..(r + 1) : Symbols(x)[j] = u[4 * k + j]

LEMMA RestIs ==
    ASSUME NEW u \in Seq(Bits6), NEW k \in Nat, NEW r \in {1, 2}, Len(u) = 4 * k + (r + 1),
           NEW y, y = Rest(u, 4 * k, r + 1), NEW x, x = IF r = 1 THEN 64 * y ELSE y
    PROVE  RestOf24(x, u, k, r)
<1> DEFINE a == u[4 * k + 1]
           b == u[4 * k + 2]
           c == IF r = 1 THEN 0 ELSE u[4 * k + 3]
<1>1. a \in Bits6 /\ b \in Bits6 /\ c \in Bits6 /\ 0 \in Bits6
  <2>1. 4 * k + 1 \in 1..Len(u) /\ 4 * k + 2 \in 1..Len(u) /\ (r = 2 => 4 * k + 3 \in 1..Len(u))
    OBVIOUS
  <2>2. a \in Bits6 /\ b \in Bits6 /\ (r = 2 => u[4 * k + 3] \in Bits6)
    BY <2>1, ElementOfSeq
  <2>3. 0 \in Bits6
    BY DEF Bits6
  <2> QED
    BY <2>2, <2>3
<1>2. y = IF r = 1 THEN 64 * (64 * a + b) ELSE 64 * (64 * (64 * a + b) + c)
  BY DEF Rest
<1>3. r = 2 => u[4 * k + 3] = c
  OBVIOUS
<1>4. r = 1 => c = 0
  OBVIOUS
<1>5. u[4 * k + 1] = a /\ u[4 * k + 2] = b
  OBVIOUS
<1> HIDE DEF a, b, c
<1>6. x = 64 * (64 * (64 * a + b) + c) + 0
  <2>1. a \in Nat /\ b \in Nat /\ c \in Nat
    BY <1>1 DEF Bits6
  <2> QED
    BY <1>2, <1>4, <2>1
<1>7. x \in Bits24 /\ Symbols(x) = <<a, b, c, 0>>
  BY ONLY <1>1, <1>6, OfSymbols
<1>8. Symbols(x)[1] = a /\ Symbols(x)[2] = b /\ Symbols(x)[3] = c
  BY <1>7
<1>9. \A j \in 1..(r + 1) : j = 1 \/ j = 2 \/ (j = 3 /\ r = 2)
  OBVIOUS
<1> QED
  BY <1>3, <1>5, <1>7, <1>8, <1>9 DEF RestOf24

\* The data that decoding ends with is the stream and what r bytes are left.
EndsWith(v, w, k, r, x) ==
    /\ v \in Seq(Bits8) /\ Len(v) = 3 * k + r /\ v # <<>>
    /\ \A c \in 1..k : Triple(v, c) = Triple(w, c)
    /\ \A j \in 1..r : Symbols(EndReg24(v, k, r))[j] = Symbols(x)[j]

LEMMA ResultIs ==
    ASSUME NEW w \in Seq(Bits8), NEW k \in Nat, Len(w) = 3 * k, NEW r \in {1, 2}, NEW x \in Bits24,
           NEW v, v = w \o SubSeq(Bytes(x), 1, r)
    PROVE  EndsWith(v, w, k, r, x)
<1> DEFINE bytes == Bytes(x)
           p == SubSeq(bytes, 1, r)
<1>1. Len(bytes) = 3 /\ bytes \in Seq(Bits8)
  BY OfBytes
<1> HIDE DEF bytes
<1>2. r \in 0..Len(bytes)
  BY <1>1
<1>3. p = SubSeq(bytes, 1, r)
  OBVIOUS
<1>4. v = w \o p
  BY Zenon DEF bytes
<1> HIDE DEF p
<1>5. p \in Seq(Bits8) /\ Len(p) = r /\ \A j \in 1..r : p[j] = bytes[j]
  <2>1. bytes \in Seq(Bits8)
    BY <1>1
  <2> QED
    BY ONLY <1>2, <1>3, <2>1, FirstPart
<1>6. /\ w \o p \in Seq(Bits8) /\ Len(w \o p) = Len(w) + Len(p)
      /\ \A i \in 1..(Len(w) + Len(p)) : (w \o p)[i] = IF i <= Len(w) THEN w[i] ELSE p[i - Len(w)]
  <2>1. p \in Seq(Bits8)
    BY <1>5
  <2> QED
    BY <2>1, ConcatProperties
<1>7. v \in Seq(Bits8) /\ Len(v) = 3 * k + r
  BY <1>4, <1>5, <1>6
<1>8. \A i \in 1..(3 * k) : v[i] = w[i]
  BY <1>4, <1>5, <1>6
<1>9. v[3 * k + 1] = bytes[1] /\ (r = 2 => v[3 * k + 2] = bytes[2])
  <2>1. /\ 3 * k + 1 \in 1..(Len(w) + Len(p)) /\ ~(3 * k + 1 <= Len(w)) /\ (3 * k + 1) - Len(w) = 1
        /\ r = 2 => /\ 3 * k + 2 \in 1..(Len(w) + Len(p)) /\ ~(3 * k + 2 <= Len(w))
                    /\ (3 * k + 2) - Len(w) = 2
    BY <1>5
  <2>2. v[3 * k + 1] = p[1] /\ (r = 2 => v[3 * k + 2] = p[2])
    BY <1>4, <1>6, <2>1
  <2>3. 1 \in 1..r /\ (r = 2 => 2 \in 1..r)
    OBVIOUS
  <2> QED
    BY <1>5, <2>2, <2>3
<1>10. ASSUME NEW c \in 1..k PROVE Triple(v, c) = Triple(w, c)
  <2>1. 3 * c - 2 \in 1..(3 * k) /\ 3 * c - 1 \in 1..(3 * k) /\ 3 * c \in 1..(3 * k)
    OBVIOUS
  <2> QED
    BY <1>8, <2>1 DEF Triple
<1>11. ASSUME NEW j \in 1..r PROVE Symbols(EndReg24(v, k, r))[j] = Symbols(x)[j]
  <2>1. /\ Symbols(Reg24(bytes[1], bytes[2], 0))[1] = Symbols(x)[1]
        /\ Symbols(Reg24(bytes[1], bytes[2], 0))[2] = Symbols(x)[2]
        /\ Symbols(Reg24(bytes[1], 0, 0))[1] = Symbols(x)[1]
    BY EndBytes, Zenon DEF bytes
  <2>2. CASE r = 1
    <3>1. EndReg24(v, k, r) = Reg24(bytes[1], 0, 0) /\ j = 1
      BY <1>9, <2>2 DEF EndReg24
    <3> QED
      BY <2>1, <3>1
  <2>3. CASE r = 2
    <3>1. EndReg24(v, k, r) = Reg24(bytes[1], bytes[2], 0) /\ (j = 1 \/ j = 2)
      BY <1>9, <2>3 DEF EndReg24
    <3> QED
      BY <2>1, <3>1
  <2> QED
    BY <2>2, <2>3
<1>12. v # <<>>
  <2>1. Len(v) # 0
    BY <1>7
  <2> QED
    BY <2>1
<1> QED
  BY <1>7, <1>10, <1>11, <1>12 DEF EndsWith

LEMMA DecodesToEncoding ==
    ASSUME NEW data \in Seq(Codes), data # <<>>, NEW d, d = DecodeBase64(data), d.errno = "SUCCESS"
    PROVE  EncodesTo(d.result, Unpadded(data), Unpadded(EncodeBase64(d.result)))
<1> DEFINE s == RunDecode(data)
           u == Unpadded(data)
           n == Len(data)
<1>1. s \in RunStates /\ u \in Seq(Codes) /\ StateAfter(s, u, data, n)
  BY RunDecoded
<1>2. d = EndDecode(UnpadStream(s))
  BY Zenon DEF DecodeBase64
<1> HIDE DEF s, u
<1>3. s.errno = "SUCCESS"
  <2> SUFFICES ASSUME s.errno # "SUCCESS" PROVE FALSE
    OBVIOUS
  <2>1. UnpadStream(s) = s
    BY DEF UnpadStream
  <2>2. d.errno = s.errno
    BY <1>2, <2>1 DEF EndDecode
  <2> QED
    BY <2>2
<1>4. DecodedTo(s, u) /\ s.padding = PadsAtEnd(data, n)
  BY <1>1, <1>3, Zenon DEF StateAfter
<1>5. u \in Seq(Bits6) /\ s.stream \in Seq(Bits8)
  BY <1>4, Zenon DEF DecodedTo
<1>6. PICK k \in Nat : DecodedBy(s, u, k)
  BY <1>4, Zenon DEF DecodedTo
<1>7. /\ Len(u) = 4 * k + s.tally /\ Len(s.stream) = 3 * k
      /\ \A c \in 1..k : Symbols(Triple(s.stream, c)) = Four(u, c)
      /\ s.reg24 = Rest(u, 4 * k, s.tally)
  BY <1>6, Zenon DEF DecodedBy
<1>8. \/ s.tally = 0 /\ s.padding = 0
      \/ s.tally = 2 /\ s.padding = 2
      \/ s.tally = 3 /\ s.padding = 1
  BY <1>1, <1>2, <1>3, <1>4, PaddingFits
<1>9. CASE s.tally = 0 /\ s.padding = 0
  <2> DEFINE v == s.stream
  <2>1. d.result = v
    BY <1>1, <1>2, <1>3, <1>9, NoPadIs
  <2>2. /\ v \in Seq(Bits8) /\ Len(v) = 3 * k + 0
        /\ \A c \in 1..k : Symbols(Triple(v, c)) = Four(u, c)
    BY <1>5, <1>7
  <2>3. Len(u) = 4 * k + (IF 0 = 0 THEN 0 ELSE 0 + 1)
    BY <1>7, <1>9
  <2> HIDE DEF v
  <2>4. CASE v = <<>>
    <3>1. Len(u) % 4 = 0
      <4>1. Len(v) = 0
        BY <2>4
      <4> QED
        BY <2>2, <2>3, <4>1
    <3>2. EncodesTo(v, u, Unpadded(EncodeBase64(v)))
      BY <2>4, <3>1 DEF EncodesTo
    <3> QED
      BY <2>1, <3>2, Zenon DEF u
  <2>5. CASE v # <<>>
    <3> DEFINE x == EndReg24(v, k, 0)
    <3> HIDE DEF x
    <3>1. x = EndReg24(v, k, 0) /\ 0 \in 0..2
      BY DEF x
    <3>2. 0 # 0 => \A j \in 1..0 : Symbols(x)[j] = u[4 * k + j]
      OBVIOUS
    <3>3. EncodesTo(v, u, Unpadded(EncodeBase64(v)))
      BY <1>5, <2>2, <2>3, <2>5, <3>1, <3>2, AgainIs, Zenon
    <3> QED
      BY <2>1, <3>3, Zenon DEF u
  <2> QED
    BY <2>4, <2>5
<1>10. CASE s.tally # 0
  <2> DEFINE r == s.tally - 1
             w == s.stream
             x == IF r = 1 THEN 64 * s.reg24 ELSE s.reg24
             v == w \o SubSeq(Bytes(x), 1, r)
  <2>1. r \in {1, 2} /\ s.tally = r + 1 /\ s.padding = 3 - r
    BY <1>8, <1>10
  <2> HIDE DEF r
  <2>2. d.result = v
    <3> DEFINE z == x
    <3> HIDE DEF z
    <3>1. z = IF r = 1 THEN 64 * s.reg24 ELSE s.reg24
      BY Zenon DEF z
    <3>2. EndDecode(UnpadStream(s)) = [errno |-> "SUCCESS", result |-> w \o SubSeq(Bytes(z), 1, r)]
      BY ONLY <1>1, <1>3, <2>1, <3>1, UnpadIs DEF w
    <3>3. v = w \o SubSeq(Bytes(z), 1, r)
      BY Zenon DEF z
    <3> HIDE DEF v, w, x
    <3>4. EndDecode(UnpadStream(s)) = [errno |-> "SUCCESS", result |-> v]
      BY <3>2, <3>3, Zenon
    <3> QED
      BY <1>2, <3>4
  <2>3. w \in Seq(Bits8) /\ Len(w) = 3 * k /\ \A c \in 1..k : Symbols(Triple(w, c)) = Four(u, c)
    BY <1>5, <1>7
  <2>4. Len(u) = 4 * k + (r + 1) /\ s.reg24 = Rest(u, 4 * k, r + 1)
    BY <1>7, <2>1
  <2>5. x \in Bits24 /\ \A j \in 1..(r + 1) : Symbols(x)[j] = u[4 * k + j]
    <3> DEFINE y == s.reg24
    <3>1. y = Rest(u, 4 * k, r + 1)
      BY <2>4
    <3>2. x = IF r = 1 THEN 64 * y ELSE y
      BY Zenon
    <3> HIDE DEF x, y
    <3>3. RestOf24(x, u, k, r)
      BY <1>5, <2>1, <2>4, <3>1, <3>2, RestIs, Zenon
    <3> QED
      BY <3>3, Zenon DEF RestOf24
  <2>6. v = w \o SubSeq(Bytes(x), 1, r)
    BY Zenon
  <2> HIDE DEF v, w, x
  <2>7. /\ v \in Seq(Bits8) /\ Len(v) = 3 * k + r /\ v # <<>>
        /\ \A c \in 1..k : Triple(v, c) = Triple(w, c)
        /\ \A j \in 1..r : Symbols(EndReg24(v, k, r))[j] = Symbols(x)[j]
    <3>1. EndsWith(v, w, k, r, x)
      BY <2>1, <2>3, <2>5, <2>6, ResultIs, Zenon
    <3> QED
      BY <3>1, Zenon DEF EndsWith
  <2> DEFINE y == EndReg24(v, k, r)
  <2> HIDE DEF y
  <2>8. y = EndReg24(v, k, r) /\ r \in 0..2
    BY <2>1 DEF y
  <2>9. Len(u) = 4 * k + (IF r = 0 THEN 0 ELSE r + 1)
    BY <2>1, <2>4
  <2>10. \A c \in 1..k : Symbols(Triple(v, c)) = Four(u, c)
    BY <2>3, <2>7
  <2>11. \A j \in 1..r : Symbols(y)[j] = u[4 * k + j]
    <3> TAKE j \in 1..r
    <3>1. j \in 1..(r + 1)
      BY <2>1
    <3> QED
      BY <2>5, <2>7, <2>8, <3>1
  <2>12. EncodesTo(v, u, Unpadded(EncodeBase64(v)))
    <3>1. v \in Seq(Bits8) /\ Len(v) = 3 * k + r /\ v # <<>>
      BY <2>7
    <3>2. r # 0 => \A j \in 1..r : Symbols(y)[j] = u[4 * k + j]
      BY <2>11
    <3> QED
      BY <1>5, <2>8, <2>9, <2>10, <3>1, <3>2, AgainIs, Zenon
  <2> QED
    BY <2>2, <2>12, Zenon DEF u
<1> QED
  BY <1>8, <1>9, <1>10

LEMMA RefusesBadSymbols ==
    ASSUME NEW data \in Seq(Codes), data # <<>>, NEW i \in 1..Len(data), data[i] = BadSymbol
    PROVE  DecodeBase64(data).errno = "B64_BADSYM"
<1> DEFINE s == RunDecode(data)
<1>1. s \in RunStates /\ StateAfter(s, Unpadded(data), data, Len(data))
  BY RunDecoded
<1>2. DecodeBase64(data) = EndDecode(UnpadStream(s))
  BY Zenon DEF DecodeBase64
<1> HIDE DEF s
<1>3. s.errno # "SUCCESS"
  BY <1>1, Zenon DEF StateAfter
<1>4. s.errno = "B64_BADSYM"
  BY <1>1, <1>3 DEF RunStates
<1>5. UnpadStream(s) = s
  BY <1>3 DEF UnpadStream
<1> QED
  BY <1>2, <1>4, <1>5 DEF EndDecode

LEMMA RefusesCutShort ==
    ASSUME NEW data \in Seq(Codes), data # <<>>, Len(data) % 4 # 0, \A i \in 1..Len(data) : data[i] # Pad
    PROVE  DecodeBase64(data).errno # "SUCCESS"
<1> DEFINE s == RunDecode(data)
           u == Unpadded(data)
           n == Len(data)
<1>1. s \in RunStates /\ StateAfter(s, u, data, n)
  BY RunDecoded
<1>2. DecodeBase64(data) = EndDecode(UnpadStream(s))
  BY Zenon DEF DecodeBase64
<1>3. Len(u) = n
  <2>1. n \in Nat /\ n <= Len(data) /\ \A i \in 1..Len(data) : data[i] = Pad <=> i > n
    OBVIOUS
  <2> QED
    BY <2>1, UnpaddedIs
<1> HIDE DEF s, u
<1>4. SUFFICES ASSUME DecodeBase64(data).errno = "SUCCESS" PROVE FALSE
  OBVIOUS
<1>5. s.errno = "SUCCESS"
  <2>1. s.errno # "SUCCESS" => UnpadStream(s) = s
    BY DEF UnpadStream
  <2> QED
    BY <1>2, <1>4, <2>1 DEF EndDecode
<1>6. DecodedTo(s, u) /\ s.padding = PadsAtEnd(data, n)
  BY <1>1, <1>5, Zenon DEF StateAfter
<1>7. s.padding = 0
  BY <1>6 DEF PadsAtEnd, One
<1>8. s.tally = 0
  <2>1. EndDecode(UnpadStream(s)).errno = "SUCCESS"
    BY <1>2, <1>4
  <2>2. \/ s.tally = 0 /\ s.padding = 0
        \/ s.tally = 2 /\ s.padding = 2
        \/ s.tally = 3 /\ s.padding = 1
    BY <1>1, <1>5, <1>6, <2>1, PaddingFits
  <2> QED
    BY <1>7, <2>2
<1>9. PICK k \in Nat : Len(u) = 4 * k + s.tally
  BY <1>6 DEF DecodedTo, DecodedBy
<1> QED
  BY <1>3, <1>8, <1>9

LEMMA PaddedIs ==
    ASSUME NEW v \in Seq(Bits8), v # <<>>, NEW e, e = EncodeBase64(v)
    PROVE  /\ Len(e) = 4 * ((Len(v) + 2) \div 3)
           /\ \A i \in 1..Len(e) : e[i] = Pad <=> i > Len(e) - ((3 - (Len(v) % 3)) % 3)
<1> DEFINE n == Len(v)
           q == n \div 3
           r == n % 3
           m == 4 * q + (IF r = 0 THEN 0 ELSE r + 1)
           x == EndReg24(v, q, r)
<1>1. n \in Nat /\ q \in Nat /\ r \in 0..2 /\ n = 3 * q + r /\ r = n % 3
  OBVIOUS
<1>2. m = 4 * q + (IF r = 0 THEN 0 ELSE r + 1) /\ x = EndReg24(v, q, r)
  BY Zenon
<1> HIDE DEF n, q, r, m, x
<1>3. EncodedAs(v, q, r, m, x, e)
  BY <1>1, <1>2, EncodingIs, Zenon DEF n
<1>4. /\ Len(e) = (IF r = 0 THEN 4 * q ELSE 4 * q + 4)
      /\ \A i \in 1..Len(e) : e[i] = Pad <=> i > m
  BY <1>3, Zenon DEF EncodedAs
<1>5. (n + 2) \div 3 = IF r = 0 THEN q ELSE q + 1
  BY <1>1
<1>6. (3 - (n % 3)) % 3 = IF r = 0 THEN 0 ELSE 3 - r
  BY <1>1
<1>7. Len(e) - ((3 - (n % 3)) % 3) = m
  BY <1>1, <1>2, <1>4, <1>6
<1>8. Len(e) = 4 * ((n + 2) \div 3)
  BY <1>1, <1>4, <1>5
<1> QED
  BY <1>4, <1>7, <1>8, Zenon DEF n

\* Encoding and then decoding any bytes gives the bytes, and what is accepted
\* for decoding, of any characters, is an encoding up to the bits of its last
\* symbol that stand for nothing: base64.cpp's two directions.
THEOREM Base64Correct == RfcSpec => []Base64AsSpecified
<1>1. InputType => Base64RoundTrip
  <2> SUFFICES ASSUME InputType, subject = "bytes" PROVE Base64RoundTrip
    BY DEF Base64RoundTrip
  <2>1. Values("bytes") = 0..255
    BY DEF Values
  <2>2. input \in Seq(Bits8)
    BY <2>1 DEF InputType, Bits8
  <2>3. CASE input = <<>>
    <3>1. EncodeBase64(input) = NotStored /\ DecodeBase64(input).result = NotStored
      BY <2>3 DEF EncodeBase64, DecodeBase64
    <3> QED
      BY <2>3, <3>1, Zenon DEF Base64RoundTrip
  <2>4. CASE input # <<>>
    <3> DEFINE e == EncodeBase64(input)
    <3>1. DecodeBase64(e) = [errno |-> "SUCCESS", result |-> input]
      BY <2>2, <2>4, DecodesBack, Zenon
    <3>2. /\ Len(e) = 4 * ((Len(input) + 2) \div 3)
          /\ \A i \in 1..Len(e) : e[i] = Pad <=> i > Len(e) - ((3 - (Len(input) % 3)) % 3)
      BY <2>2, <2>4, PaddedIs, Zenon
    <3> QED
      BY <2>4, <3>1, <3>2, Zenon DEF Base64RoundTrip
  <2> QED
    BY <2>3, <2>4
<1>2. InputType => Base64Accepts
  <2> SUFFICES ASSUME InputType, subject = "base64", input # <<>> PROVE DecodesTo(DecodeBase64(input))
    BY Zenon DEF Base64Accepts
  <2> DEFINE d == DecodeBase64(input)
  <2>1. Values("base64") = 0..Pad
    BY DEF Values
  <2>2. input \in Seq(Codes)
    BY <2>1 DEF InputType, Codes
  <2>3. ASSUME BadSymbol \in ToSet(input) PROVE d.errno = "B64_BADSYM"
    <3>1. PICK i \in 1..Len(input) : input[i] = BadSymbol
      BY <2>2, <2>3 DEF ToSet
    <3> QED
      BY <2>2, <3>1, RefusesBadSymbols
  <2>4. ASSUME d.errno = "SUCCESS"
        PROVE  EncodesTo(d.result, Unpadded(input), Unpadded(EncodeBase64(d.result)))
    <3> HIDE DEF d
    <3>1. d = DecodeBase64(input)
      BY Zenon DEF d
    <3> QED
      BY <2>2, <2>4, <3>1, DecodesToEncoding, Zenon
  <2>5. ASSUME Len(input) % 4 # 0, Pad \notin ToSet(input) PROVE d.errno # "SUCCESS"
    <3>1. \A i \in 1..Len(input) : input[i] # Pad
      BY <2>2, <2>5 DEF ToSet
    <3> QED
      BY <2>2, <2>5, <3>1, RefusesCutShort
  <2> QED
    BY <2>3, <2>4, <2>5, Zenon DEF DecodesTo
<1> QED
  BY <1>1, <1>2, InputTypeInvariance, PTL DEF Base64AsSpecified


------------------------------------------------------------------------------
(* utf8: the loops, a byte at a time *)

DeserStates ==
    [ok : BOOLEAN, errno : {"SUCCESS", "UTF8_BADHEAD", "UTF8_BADTRAIL"}, state : 0..3, symbol : Nat,
     result : Seq(Nat)]
StartOfDeserialize(result) ==
    [ok |-> TRUE, errno |-> "SUCCESS", state |-> 0, symbol |-> 0, result |-> result]

LEMMA TrailersAre ==
    ASSUME NEW c \in Bits8
    PROVE  /\ TrailersOf(c) = IF c \in 192..223 THEN 1 ELSE IF c \in 224..239 THEN 2
                              ELSE IF c \in 240..247 THEN 3 ELSE 0
           /\ TrailersOf(c) > 0 => HeadBits(c) \in Nat
<1>1. c \in 0..255
  BY DEF Bits8
<1>2. TrailersOf(c) = IF c \in 192..223 THEN 1 ELSE IF c \in 224..239 THEN 2
                      ELSE IF c \in 240..247 THEN 3 ELSE 0
  BY <1>1 DEF TrailersOf
<1>3. ASSUME TrailersOf(c) > 0 PROVE HeadBits(c) \in Nat
  <2> DEFINE k == TrailersOf(c)
  <2>1. k \in {1, 2, 3}
    BY <1>2, <1>3
  <2> HIDE DEF k
  <2>2. c % 32 \in Nat /\ c % 16 \in Nat /\ c % 8 \in Nat
    BY <1>1
  <2>3. <<32, 16, 8>>[k] \in {32, 16, 8}
    BY <2>1
  <2> QED
    BY <2>2, <2>3 DEF HeadBits, k
<1> QED
  BY <1>2, <1>3

LEMMA DeserializeTurnType ==
    ASSUME NEW s \in DeserStates, NEW c \in Bits8
    PROVE  DeserializeTurn(s, c) \in DeserStates
<1>1. c \in Nat
  BY DEF Bits8
<1>2. /\ s.ok \in BOOLEAN /\ s.errno \in {"SUCCESS", "UTF8_BADHEAD", "UTF8_BADTRAIL"} /\ s.state \in 0..3
      /\ s.symbol \in Nat /\ s.result \in Seq(Nat)
  BY DEF DeserStates
<1>3. ASSUME NEW e \in {"UTF8_BADHEAD", "UTF8_BADTRAIL"} PROVE Failed(s, e) \in DeserStates
  BY DEF Failed, DeserStates
<1>4. ASSUME s.state = 0 PROVE DeserializeHead(s, c) \in DeserStates
  <2>1. CASE c < 128
    <3> DEFINE r == Append(s.result, c)
    <3>1. r \in Seq(Nat)
      BY <1>1, <1>2, AppendProperties
    <3>2. DeserializeHead(s, c) = [s EXCEPT !.result = r]
      <4>1. ~(TrailersOf(c) > 0)
        BY <1>1, <2>1, TrailersAre
      <4> QED
        BY <2>1, <4>1 DEF DeserializeHead
    <3> HIDE DEF r
    <3> QED
      BY <3>1, <3>2 DEF DeserStates
  <2>2. CASE ~(c < 128) /\ TrailersOf(c) > 0
    <3>1. TrailersOf(c) \in 0..3 /\ HeadBits(c) \in Nat
      BY <2>2, TrailersAre
    <3>2. DeserializeHead(s, c) = [s EXCEPT !.state = TrailersOf(c), !.symbol = HeadBits(c)]
      BY <2>2 DEF DeserializeHead
    <3> QED
      BY <3>1, <3>2 DEF DeserStates
  <2>3. CASE ~(c < 128) /\ ~(TrailersOf(c) > 0)
    <3>1. DeserializeHead(s, c) = Failed(s, "UTF8_BADHEAD")
      BY <2>3 DEF DeserializeHead
    <3> QED
      BY <1>3, <3>1
  <2> QED
    BY <2>1, <2>2, <2>3
<1>5. ASSUME s.state # 0 PROVE DeserializeTrailer(s, c) \in DeserStates
  <2>1. CASE c \in 128..191
    <3> DEFINE x == 64 * s.symbol + (c % 64)
               r == IF s.state = 1 THEN Append(s.result, x) ELSE s.result
    <3>1. x \in Nat
      BY <1>1, <1>2
    <3> HIDE DEF x
    <3>2. r \in Seq(Nat)
      BY <1>2, <3>1, AppendProperties
    <3>3. s.state - 1 \in 0..3
      BY <1>2, <1>5
    <3>4. DeserializeTrailer(s, c) = [s EXCEPT !.state = s.state - 1, !.symbol = x, !.result = r]
      BY <2>1 DEF DeserializeTrailer, x
    <3> HIDE DEF r
    <3> QED
      BY <3>1, <3>2, <3>3, <3>4 DEF DeserStates
  <2>2. CASE c \notin 128..191
    <3>1. DeserializeTrailer(s, c) = Failed(s, "UTF8_BADTRAIL")
      BY <2>2, Zenon DEF DeserializeTrailer
    <3> QED
      BY <1>3, <3>1
  <2> QED
    BY <2>1, <2>2
<1> QED
  BY <1>4, <1>5, Zenon DEF DeserializeTurn

LEMMA StartType ==
    ASSUME NEW result \in Seq(Nat)
    PROVE  StartOfDeserialize(result) \in DeserStates
  BY DEF StartOfDeserialize, DeserStates

\* The states that the loop goes through.
Turns(f, bytes, result) ==
    /\ f \in [0..Len(bytes) -> DeserStates]
    /\ f[0] = StartOfDeserialize(result)
    /\ \A i \in 1..Len(bytes) : f[i] = DeserializeTurn(f[i - 1], bytes[i])

LEMMA DeserializeIterates ==
    ASSUME NEW bytes \in Seq(Bits8), NEW result \in Seq(Nat)
    PROVE  \E f : Turns(f, bytes, result) /\ Deserialize(bytes, result) = f[Len(bytes)]
<1> DEFINE n == Len(bytes)
           step == [i \in 1..n |-> [s \in DeserStates |-> DeserializeTurn(s, bytes[i])]]
           start == StartOfDeserialize(result)
           Loops8(f) == f = [i \in 0..n |-> IF i = 0 THEN start ELSE DeserializeTurn(f[i - 1], bytes[i])]
           run == CHOOSE f : Loops8(f)
<1>1. n \in Nat /\ \A i \in 1..n : bytes[i] \in Bits8
  OBVIOUS
<1>2. step \in [1..n -> [DeserStates -> DeserStates]]
  <2>1. ASSUME NEW i \in 1..n
        PROVE  [s \in DeserStates |-> DeserializeTurn(s, bytes[i])] \in [DeserStates -> DeserStates]
    BY <1>1, DeserializeTurnType
  <2> QED
    BY <2>1
<1>3. start \in DeserStates
  BY StartType
<1>4. Deserialize(bytes, result) = run[n]
  BY Zenon DEF Deserialize, StartOfDeserialize
<1> HIDE DEF step, start
<1>5. PICK f : IsIteration(f, DeserStates, start, n, step)
  BY <1>1, <1>2, <1>3, IterationExists, Zenon
<1>6. ASSUME NEW i \in 1..n PROVE f[i] = DeserializeTurn(f[i - 1], bytes[i])
  <2>1. f[i - 1] \in DeserStates /\ f[i] = step[i][f[i - 1]]
    BY <1>1, <1>5 DEF IsIteration
  <2> QED
    BY <2>1 DEF step
<1>7. Loops8(f)
  <2> DEFINE turn(i) == IF i = 0 THEN start ELSE DeserializeTurn(f[i - 1], bytes[i])
  <2>1. f \in [0..n -> DeserStates] /\ f[0] = start
    BY <1>5 DEF IsIteration
  <2>2. ASSUME NEW i \in 0..n PROVE f[i] = turn(i)
    <3>1. i = 0 \/ i \in 1..n
      BY <1>1
    <3> QED
      BY <1>1, <1>6, <2>1, <3>1
  <2> HIDE DEF turn
  <2>3. f = [i \in 0..n |-> turn(i)]
    BY <2>1, <2>2
  <2> QED
    BY <2>3, Zenon DEF turn
<1>8. Loops8(run)
  <2> HIDE DEF Loops8
  <2> QED
    BY <1>7, Zenon
<1> HIDE DEF run
<1>9. run = [i \in 0..n |-> run[i]] /\ run[0] = start
  BY <1>1, <1>8
<1>10. ASSUME NEW i \in 1..n PROVE run[i] = DeserializeTurn(run[i - 1], bytes[i])
  BY <1>1, <1>8, SMTT(30)
<1> HIDE DEF Loops8
<1> DEFINE T == {i \in Nat : i <= n => run[i] \in DeserStates}
<1>11. 0 \in T
  BY <1>3, <1>9
<1>12. ASSUME NEW i \in Nat, i \in T PROVE i + 1 \in T
  <2> SUFFICES ASSUME i + 1 <= n PROVE run[i + 1] \in DeserStates
    OBVIOUS
  <2>1. i + 1 \in 1..n /\ (i + 1) - 1 = i /\ run[i] \in DeserStates
    BY <1>1, <1>12
  <2> QED
    BY <1>1, <1>10, <2>1, DeserializeTurnType
<1> HIDE DEF T
<1>13. \A i \in Nat : i \in T
  BY <1>11, <1>12, SetInduction
<1>14. \A i \in 0..n : run[i] \in DeserStates
  BY <1>1, <1>13 DEF T
<1>15. run \in [0..n -> DeserStates]
  BY <1>9, <1>14
<1>16. Turns(run, bytes, result)
  BY <1>9, <1>10, <1>15, Zenon DEF Turns, start
<1> QED
  BY <1>4, <1>16

LEMMA DeserializeAppend ==
    ASSUME NEW t \in Seq(Bits8), NEW c \in Bits8, NEW result \in Seq(Nat)
    PROVE  /\ Deserialize(t, result) \in DeserStates
           /\ Deserialize(Append(t, c), result) = DeserializeTurn(Deserialize(t, result), c)
<1> DEFINE n == Len(t)
           u == Append(t, c)
<1>1. u \in Seq(Bits8) /\ Len(u) = n + 1 /\ u[n + 1] = c /\ \A i \in 1..n : u[i] = t[i]
  BY AppendProperties
<1>2. n \in Nat
  OBVIOUS
<1> HIDE DEF u
<1>3. PICK f : Turns(f, t, result) /\ Deserialize(t, result) = f[n]
  BY DeserializeIterates
<1>4. PICK g : Turns(g, u, result) /\ Deserialize(u, result) = g[Len(u)]
  BY <1>1, DeserializeIterates
<1>5. /\ f \in [0..n -> DeserStates] /\ f[0] = StartOfDeserialize(result)
      /\ \A i \in 1..n : f[i] = DeserializeTurn(f[i - 1], t[i])
  BY <1>3, Zenon DEF Turns
<1>6. /\ g[0] = StartOfDeserialize(result)
      /\ \A i \in 1..(n + 1) : g[i] = DeserializeTurn(g[i - 1], u[i])
  BY <1>1, <1>4 DEF Turns
<1> HIDE DEF n
<1> DEFINE T == {i \in Nat : i <= n => g[i] = f[i]}
<1>7. 0 \in T
  BY <1>5, <1>6
<1>8. ASSUME NEW i \in Nat, i \in T PROVE i + 1 \in T
  <2> SUFFICES ASSUME i + 1 <= n PROVE g[i + 1] = f[i + 1]
    OBVIOUS
  <2>1. i + 1 \in 1..n /\ i + 1 \in 1..(n + 1) /\ (i + 1) - 1 = i /\ g[i] = f[i]
    BY <1>2, <1>8
  <2>2. g[i + 1] = DeserializeTurn(g[i], u[i + 1]) /\ f[i + 1] = DeserializeTurn(f[i], t[i + 1])
    BY <1>5, <1>6, <2>1
  <2>3. u[i + 1] = t[i + 1]
    BY <1>1, <2>1
  <2> QED
    BY <2>1, <2>2, <2>3, Zenon
<1> HIDE DEF T
<1>9. \A i \in Nat : i \in T
  BY <1>7, <1>8, SetInduction
<1>10. g[n] = f[n]
  BY <1>2, <1>9 DEF T
<1>11. g[n + 1] = DeserializeTurn(g[n], c)
  <2>1. n + 1 \in 1..(n + 1) /\ (n + 1) - 1 = n
    BY <1>2
  <2> QED
    BY <1>1, <1>6, <2>1
<1>12. Deserialize(u, result) = g[n + 1] /\ Deserialize(t, result) = f[n]
  BY <1>1, <1>3, <1>4 DEF n
<1>13. f[n] \in DeserStates
  BY <1>2, <1>5
<1> QED
  BY <1>10, <1>11, <1>12, <1>13, Zenon DEF u

LEMMA DeserializeEmpty ==
    ASSUME NEW result \in Seq(Nat)
    PROVE  Deserialize(<<>>, result) = StartOfDeserialize(result)
<1>1. <<>> \in Seq(Bits8) /\ Len(<<>>) = 0
  OBVIOUS
<1>2. PICK f : Turns(f, <<>>, result) /\ Deserialize(<<>>, result) = f[Len(<<>>)]
  BY <1>1, DeserializeIterates
<1> QED
  BY <1>1, <1>2 DEF Turns

------------------------------------------------------------------------------
(* utf8: the characters of a text *)

Parts8 == Seq(Bits8) \ {<<>>}

\* A byte either is added to the last character or is a character's first.
LEMMA AddByteIs ==
    ASSUME NEW C \in Seq(Parts8), NEW c \in Bits8
    PROVE  /\ AddByte(C, c) \in Seq(Parts8)
           /\ IsTrailer(c) /\ C # <<>> =>
                /\ Len(C) \in Nat \ {0} /\ Len(AddByte(C, c)) = Len(C)
                /\ AddByte(C, c)[Len(C)] = Append(C[Len(C)], c)
                /\ \A i \in 1..(Len(C) - 1) : AddByte(C, c)[i] = C[i]
           /\ ~(IsTrailer(c) /\ C # <<>>) => AddByte(C, c) = Append(C, <<c>>)
<1> DEFINE n == Len(C)
<1>1. <<c>> \in Parts8
  BY DEF Parts8
<1>2. CASE IsTrailer(c) /\ C # <<>>
  <2>1. n \in Nat \ {0} /\ n \in 1..n /\ C[n] \in Parts8 /\ C \in [1..n -> Parts8]
    BY <1>2, EmptySeq
  <2> DEFINE last == Append(C[n], c)
  <2>2. last \in Parts8
    <3>1. C[n] \in Seq(Bits8)
      BY <2>1 DEF Parts8
    <3>2. last \in Seq(Bits8) /\ Len(last) = Len(C[n]) + 1
      BY <3>1, AppendProperties
    <3> HIDE DEF last
    <3>3. last # <<>>
      BY <3>1, <3>2
    <3> QED
      BY <3>2, <3>3 DEF Parts8
  <2> HIDE DEF last
  <2>3. AddByte(C, c) = [C EXCEPT ![n] = last]
    BY <1>2, Zenon DEF AddByte, last
  <2> DEFINE w == [C EXCEPT ![n] = last]
  <2>4. w \in Seq(Parts8) /\ Len(w) = n
    BY <2>1, <2>2, ExceptSeq
  <2>5. w[n] = last /\ \A i \in 1..(n - 1) : w[i] = C[i]
    <3>1. w[n] = last
      BY <2>1, Zenon
    <3>2. ASSUME NEW i \in 1..(n - 1) PROVE w[i] = C[i]
      <4> HIDE DEF n
      <4>1. i \in 1..n /\ i # n
        BY <2>1
      <4> QED
        BY <2>1, <4>1, Zenon
    <3> QED
      BY <3>1, <3>2
  <2> HIDE DEF w
  <2> QED
    BY <1>2, <2>1, <2>3, <2>4, <2>5 DEF w, last
<1>3. CASE ~(IsTrailer(c) /\ C # <<>>)
  <2>1. AddByte(C, c) = Append(C, <<c>>)
    BY <1>3, Zenon DEF AddByte
  <2>2. Append(C, <<c>>) \in Seq(Parts8)
    BY <1>1, AppendProperties
  <2> QED
    BY <1>3, <2>1, <2>2
<1> QED
  BY <1>2, <1>3

\* The characters after each byte.
Splits(f, bytes) ==
    /\ f \in [0..Len(bytes) -> Seq(Parts8)]
    /\ f[0] = <<>>
    /\ \A i \in 1..Len(bytes) : f[i] = AddByte(f[i - 1], bytes[i])

LEMMA CharactersIterate ==
    ASSUME NEW bytes \in Seq(Bits8)
    PROVE  \E f : Splits(f, bytes) /\ Characters(bytes) = f[Len(bytes)]
<1> DEFINE n == Len(bytes)
           step == [i \in 1..n |-> [C \in Seq(Parts8) |-> AddByte(C, bytes[i])]]
           Grows(f) == f = [i \in 0..n |-> IF i = 0 THEN <<>> ELSE AddByte(f[i - 1], bytes[i])]
           chars == CHOOSE f : Grows(f)
<1>1. n \in Nat /\ \A i \in 1..n : bytes[i] \in Bits8
  OBVIOUS
<1>2. step \in [1..n -> [Seq(Parts8) -> Seq(Parts8)]]
  <2>1. ASSUME NEW i \in 1..n
        PROVE  [C \in Seq(Parts8) |-> AddByte(C, bytes[i])] \in [Seq(Parts8) -> Seq(Parts8)]
    BY <1>1, AddByteIs
  <2> QED
    BY <2>1
<1>3. <<>> \in Seq(Parts8)
  OBVIOUS
<1>4. Characters(bytes) = chars[n]
  BY Zenon DEF Characters
<1> HIDE DEF step
<1>5. PICK f : IsIteration(f, Seq(Parts8), <<>>, n, step)
  BY <1>1, <1>2, <1>3, IterationExists, Zenon
<1>6. ASSUME NEW i \in 1..n PROVE f[i] = AddByte(f[i - 1], bytes[i])
  <2>1. f[i - 1] \in Seq(Parts8) /\ f[i] = step[i][f[i - 1]]
    BY <1>1, <1>5 DEF IsIteration
  <2> QED
    BY <2>1 DEF step
<1>7. Grows(f)
  <2> DEFINE turn(i) == IF i = 0 THEN <<>> ELSE AddByte(f[i - 1], bytes[i])
  <2>1. f \in [0..n -> Seq(Parts8)] /\ f[0] = <<>>
    BY <1>5 DEF IsIteration
  <2>2. ASSUME NEW i \in 0..n PROVE f[i] = turn(i)
    <3>1. i = 0 \/ i \in 1..n
      BY <1>1
    <3> QED
      BY <1>1, <1>6, <2>1, <3>1
  <2> HIDE DEF turn
  <2>3. f = [i \in 0..n |-> turn(i)]
    BY <2>1, <2>2
  <2> QED
    BY <2>3, Zenon DEF turn
<1>8. Grows(chars)
  <2> HIDE DEF Grows
  <2> QED
    BY <1>7, Zenon
<1> HIDE DEF chars
<1>9. chars = [i \in 0..n |-> chars[i]] /\ chars[0] = <<>>
  BY <1>1, <1>8
<1>10. ASSUME NEW i \in 1..n PROVE chars[i] = AddByte(chars[i - 1], bytes[i])
  BY <1>1, <1>8
<1> HIDE DEF Grows
<1> DEFINE T == {i \in Nat : i <= n => chars[i] \in Seq(Parts8)}
<1>11. 0 \in T
  BY <1>3, <1>9
<1>12. ASSUME NEW i \in Nat, i \in T PROVE i + 1 \in T
  <2> SUFFICES ASSUME i + 1 <= n PROVE chars[i + 1] \in Seq(Parts8)
    OBVIOUS
  <2>1. i + 1 \in 1..n /\ (i + 1) - 1 = i /\ chars[i] \in Seq(Parts8)
    BY <1>1, <1>12
  <2> QED
    <3>1. chars[i + 1] = AddByte(chars[i], bytes[i + 1]) /\ bytes[i + 1] \in Bits8
      BY <1>1, <1>10, <2>1
    <3>2. AddByte(chars[i], bytes[i + 1]) \in Seq(Parts8)
      BY <2>1, <3>1, AddByteIs
    <3> QED
      BY <3>1, <3>2, Zenon
<1> HIDE DEF T
<1>13. \A i \in Nat : i \in T
  BY <1>11, <1>12, SetInduction
<1>14. \A i \in 0..n : chars[i] \in Seq(Parts8)
  BY <1>1, <1>13 DEF T
<1>15. chars \in [0..n -> Seq(Parts8)]
  BY <1>9, <1>14
<1>16. Splits(chars, bytes)
  BY <1>9, <1>10, <1>15, Zenon DEF Splits
<1> QED
  BY <1>4, <1>16

LEMMA CharactersAppend ==
    ASSUME NEW t \in Seq(Bits8), NEW c \in Bits8
    PROVE  /\ Characters(t) \in Seq(Parts8)
           /\ Characters(Append(t, c)) = AddByte(Characters(t), c)
<1> DEFINE n == Len(t)
           u == Append(t, c)
<1>1. u \in Seq(Bits8) /\ Len(u) = n + 1 /\ u[n + 1] = c /\ \A i \in 1..n : u[i] = t[i]
  BY AppendProperties
<1>2. n \in Nat
  OBVIOUS
<1> HIDE DEF u
<1>3. PICK f : Splits(f, t) /\ Characters(t) = f[n]
  BY CharactersIterate
<1>4. PICK g : Splits(g, u) /\ Characters(u) = g[Len(u)]
  BY <1>1, CharactersIterate
<1>5. /\ f \in [0..n -> Seq(Parts8)] /\ f[0] = <<>>
      /\ \A i \in 1..n : f[i] = AddByte(f[i - 1], t[i])
  BY <1>3, Zenon DEF Splits
<1>6. /\ g[0] = <<>>
      /\ \A i \in 1..(n + 1) : g[i] = AddByte(g[i - 1], u[i])
  BY <1>1, <1>4 DEF Splits
<1> HIDE DEF n
<1> DEFINE T == {i \in Nat : i <= n => g[i] = f[i]}
<1>7. 0 \in T
  BY <1>5, <1>6
<1>8. ASSUME NEW i \in Nat, i \in T PROVE i + 1 \in T
  <2> SUFFICES ASSUME i + 1 <= n PROVE g[i + 1] = f[i + 1]
    OBVIOUS
  <2>1. i + 1 \in 1..n /\ i + 1 \in 1..(n + 1) /\ (i + 1) - 1 = i /\ g[i] = f[i]
    BY <1>2, <1>8
  <2>2. g[i + 1] = AddByte(g[i], u[i + 1]) /\ f[i + 1] = AddByte(f[i], t[i + 1])
    BY <1>5, <1>6, <2>1
  <2>3. u[i + 1] = t[i + 1]
    BY <1>1, <2>1
  <2> QED
    BY <2>1, <2>2, <2>3, Zenon
<1> HIDE DEF T
<1>9. \A i \in Nat : i \in T
  BY <1>7, <1>8, SetInduction
<1>10. g[n] = f[n]
  BY <1>2, <1>9 DEF T
<1>11. g[n + 1] = AddByte(g[n], c)
  <2>1. n + 1 \in 1..(n + 1) /\ (n + 1) - 1 = n
    BY <1>2
  <2> QED
    BY <1>1, <1>6, <2>1
<1>12. Characters(u) = g[n + 1] /\ Characters(t) = f[n]
  BY <1>1, <1>3, <1>4 DEF n
<1>13. f[n] \in Seq(Parts8)
  BY <1>2, <1>5
<1> QED
  BY <1>10, <1>11, <1>12, <1>13, Zenon DEF u

LEMMA CharactersEmpty == Characters(<<>>) = <<>>
<1>1. <<>> \in Seq(Bits8) /\ Len(<<>>) = 0
  OBVIOUS
<1>2. PICK f : Splits(f, <<>>) /\ Characters(<<>>) = f[Len(<<>>)]
  BY <1>1, CharactersIterate
<1> QED
  BY <1>1, <1>2 DEF Splits

LEMMA CharactersFlatten ==
    \A bytes \in Seq(Bits8) : FlattenSeq(Characters(bytes)) = bytes
<1> DEFINE T == {t \in Seq(Bits8) : FlattenSeq(Characters(t)) = t}
<1>1. <<>> \in T
  BY CharactersEmpty, Zenon, EmptySeq DEF FlattenSeq
<1>2. ASSUME NEW t \in Seq(Bits8), NEW c \in Bits8, t \in T PROVE Append(t, c) \in T
  <2> DEFINE C == Characters(t)
             D == AddByte(C, c)
             n == Len(C)
  <2>1. C \in Seq(Parts8) /\ Characters(Append(t, c)) = D /\ FlattenSeq(C) = t
    BY <1>2, CharactersAppend
  <2> HIDE DEF C
  <2>2. Parts8 \subseteq Seq(Bits8)
    BY DEF Parts8
  <2>3. C \in Seq(Seq(Bits8))
    BY <2>1, <2>2, SeqMonotonic
  <2>4. FlattenSeq(D) = Append(t, c)
    <3>1. CASE IsTrailer(c) /\ C # <<>>
      <4> DEFINE last == C[n]
      <4>1. PICK front \in Seq(Seq(Bits8)), l \in Seq(Bits8) : C = Append(front, l)
        BY <2>3, <3>1, SequenceEmptyOrAppend
      <4>2. Len(C) = Len(front) + 1 /\ C[Len(C)] = l /\ \A i \in 1..Len(front) : C[i] = front[i]
        BY <4>1, AppendProperties
      <4> DEFINE longer == Append(l, c)
      <4>3. longer \in Seq(Bits8) /\ longer = l \o <<c>>
        BY AppendProperties, AppendIsConcat
      <4>4. D = Append(front, longer)
        <5>1. /\ D \in Seq(Parts8) /\ Len(D) = Len(C) /\ D[Len(C)] = longer
              /\ \A i \in 1..(Len(C) - 1) : D[i] = C[i]
          BY <2>1, <3>1, <4>2, AddByteIs
        <5> HIDE DEF D, longer
        <5> DEFINE E == Append(front, longer)
        <5>2. /\ E \in Seq(Seq(Bits8)) /\ Len(E) = Len(front) + 1 /\ E[Len(front) + 1] = longer
              /\ \A i \in 1..Len(front) : E[i] = front[i]
          BY <4>3, AppendProperties
        <5>3. D \in Seq(Seq(Bits8))
          BY <2>2, <5>1, SeqMonotonic
        <5> HIDE DEF E
        <5>4. Len(D) = Len(E) /\ \A i \in 1..Len(D) : D[i] = E[i]
          <6>1. Len(front) \in Nat /\ Len(C) = Len(front) + 1 /\ Len(D) = Len(front) + 1 /\ Len(E) = Len(front) + 1
            BY <4>2, <5>1, <5>2
          <6>2. ASSUME NEW i \in 1..Len(front) PROVE D[i] = E[i]
            <7>1. i \in 1..(Len(C) - 1)
              BY <6>1
            <7>2. D[i] = C[i] /\ C[i] = front[i] /\ E[i] = front[i]
              BY <4>2, <5>1, <5>2, <7>1, Zenon
            <7> QED
              BY <7>2
          <6>3. D[Len(front) + 1] = E[Len(front) + 1]
            BY <5>1, <5>2, <6>1
          <6> HIDE DEF C
          <6>4. ASSUME NEW i \in 1..Len(D) PROVE D[i] = E[i]
            <7>1. i \in 1..Len(front) \/ i = Len(front) + 1
              BY <6>1
            <7> QED
              BY <6>2, <6>3, <7>1
          <6> QED
            BY <6>1, <6>4
        <5>5. D = E
          BY <5>2, <5>3, <5>4, SeqEqual
        <5> QED
          BY <5>5 DEF E
      <4> HIDE DEF longer, D
      <4>5. FlattenSeq(D) = FlattenSeq(front) \o longer /\ t = FlattenSeq(front) \o l
        BY <2>1, <4>1, <4>3, <4>4, FlattenAppend, Zenon
      <4> DEFINE w == FlattenSeq(front)
      <4>6. w \in Seq(Bits8)
        <5>1. PICK g \in [0..Len(front) -> Seq(Bits8)] : FlattenSeq(front) = g[Len(front)]
          BY FlattenJoins
        <5>2. Len(front) \in 0..Len(front)
          BY <4>1
        <5> QED
          BY <5>1, <5>2
      <4> HIDE DEF w
      <4>7. w \o (l \o <<c>>) = (w \o l) \o <<c>>
        BY <4>6, ConcatAssociative
      <4>8. t = w \o l /\ FlattenSeq(D) = w \o longer
        BY <4>5 DEF w
      <4>9. Append(t, c) = t \o <<c>>
        BY AppendIsConcat
      <4> QED
        BY <4>3, <4>7, <4>8, <4>9
    <3>2. CASE ~(IsTrailer(c) /\ C # <<>>)
      <4>1. D = Append(C, <<c>>)
        BY <2>1, <3>2, AddByteIs
      <4>2. <<c>> \in Seq(Bits8)
        OBVIOUS
      <4> HIDE DEF D
      <4>3. FlattenSeq(D) = t \o <<c>>
        BY <2>1, <2>3, <4>1, <4>2, FlattenAppend
      <4> QED
        BY <4>3, AppendIsConcat
    <3> QED
      BY <3>1, <3>2
  <2> QED
    BY <2>1, <2>4, AppendProperties
<1> HIDE DEF T
<1>3. \A s \in Seq(Bits8) : s \in T
  BY <1>1, <1>2, AppendInduction
<1> QED
  BY <1>3 DEF T

------------------------------------------------------------------------------
(* utf8: what deserializing has made of the characters so far *)

HeadOf(c) == IF c < 128 THEN c ELSE HeadBits(c)
Sixes(bits, c) == 64 * bits + (c % 64)
SymbolOf(char) ==
    IF Len(char) = 1 THEN HeadOf(char[1])
    ELSE IF Len(char) = 2 THEN Sixes(HeadOf(char[1]), char[2])
    ELSE IF Len(char) = 3 THEN Sixes(Sixes(HeadOf(char[1]), char[2]), char[3])
    ELSE Sixes(Sixes(Sixes(HeadOf(char[1]), char[2]), char[3]), char[4])

LEMMA LengthsAre ==
    ASSUME NEW c \in Bits8
    PROVE  /\ LengthOf(c) \in 0..4 /\ TrailersOf(c) \in 0..3
           /\ c < 128 => LengthOf(c) = 1
           /\ TrailersOf(c) > 0 => ~(c < 128) /\ LengthOf(c) = TrailersOf(c) + 1
           /\ ~(c < 128) /\ ~(TrailersOf(c) > 0) => LengthOf(c) = 0
           /\ IsTrailer(c) => ~(c < 128) /\ ~(TrailersOf(c) > 0)
<1>1. c \in 0..255
  BY DEF Bits8
<1>2. TrailersOf(c) = IF c \in 192..223 THEN 1 ELSE IF c \in 224..239 THEN 2
                      ELSE IF c \in 240..247 THEN 3 ELSE 0
  BY TrailersAre
<1>3. LengthOf(c) = IF c < 128 THEN 1 ELSE IF c \in 192..223 THEN 2 ELSE IF c \in 224..239 THEN 3
                    ELSE IF c \in 240..247 THEN 4 ELSE 0
  BY <1>1 DEF LengthOf
<1> QED
  BY <1>1, <1>2, <1>3 DEF IsTrailer

LEMMA LongerChar ==
    ASSUME NEW char \in Parts8, NEW c \in Bits8
    PROVE  /\ Append(char, c) \in Parts8 /\ Len(Append(char, c)) = Len(char) + 1
           /\ Len(char) \in Nat \ {0} /\ char[1] \in Bits8 /\ Append(char, c)[1] = char[1]
           /\ Len(char) \in 1..3 => SymbolOf(Append(char, c)) = Sixes(SymbolOf(char), c)
<1> DEFINE l == Append(char, c)
<1>1. char \in Seq(Bits8) /\ Len(char) \in Nat \ {0}
  BY EmptySeq DEF Parts8
<1>2. l \in Seq(Bits8) /\ Len(l) = Len(char) + 1 /\ l[Len(char) + 1] = c /\ \A i \in 1..Len(char) : l[i] = char[i]
  BY <1>1, AppendProperties
<1> HIDE DEF l
<1>3. l # <<>> /\ char[1] \in Bits8 /\ l[1] = char[1]
  BY <1>1, <1>2
<1>4. CASE Len(char) = 1
  <2>1. Len(l) = 2 /\ l[2] = c
    BY <1>2, <1>4
  <2>2. SymbolOf(l) = Sixes(HeadOf(l[1]), l[2])
    BY <2>1 DEF SymbolOf
  <2>3. SymbolOf(char) = HeadOf(char[1])
    BY <1>4 DEF SymbolOf
  <2> QED
    BY <1>1, <1>2, <1>3, <2>1, <2>2, <2>3, Zenon DEF Parts8, l
<1>5. CASE Len(char) = 2
  <2>1. Len(l) = 3 /\ l[3] = c /\ l[2] = char[2]
    BY <1>2, <1>5
  <2>2. SymbolOf(l) = Sixes(Sixes(HeadOf(l[1]), l[2]), l[3])
    BY <2>1 DEF SymbolOf
  <2>3. SymbolOf(char) = Sixes(HeadOf(char[1]), char[2])
    BY <1>5 DEF SymbolOf
  <2> QED
    BY <1>1, <1>2, <1>3, <2>1, <2>2, <2>3, Zenon DEF Parts8, l
<1>6. CASE Len(char) = 3
  <2>1. Len(l) = 4 /\ l[4] = c /\ l[3] = char[3] /\ l[2] = char[2]
    BY <1>2, <1>6
  <2>2. SymbolOf(l) = Sixes(Sixes(Sixes(HeadOf(l[1]), l[2]), l[3]), l[4])
    BY <2>1 DEF SymbolOf
  <2>3. SymbolOf(char) = Sixes(Sixes(HeadOf(char[1]), char[2]), char[3])
    BY <1>6 DEF SymbolOf
  <2> QED
    BY <1>1, <1>2, <1>3, <2>1, <2>2, <2>3, Zenon DEF Parts8, l
<1>7. Len(char) \in 1..3 => Len(char) = 1 \/ Len(char) = 2 \/ Len(char) = 3
  OBVIOUS
<1> QED
  BY <1>1, <1>2, <1>3, <1>4, <1>5, <1>6, <1>7, Zenon DEF Parts8, l

\* What a turn makes of each kind of byte.
LEMMA TurnIs ==
    ASSUME NEW s \in DeserStates, NEW c \in Bits8, s.ok, NEW d, d = DeserializeTurn(s, c)
    PROVE  /\ s.state = 0 /\ c < 128 => d.ok /\ d.state = 0 /\ d.result = Append(s.result, c)
           /\ s.state = 0 /\ TrailersOf(c) > 0 =>
                d.ok /\ d.state = TrailersOf(c) /\ d.symbol = HeadBits(c) /\ d.result = s.result
           /\ s.state = 0 /\ ~(c < 128) /\ ~(TrailersOf(c) > 0) => ~d.ok /\ d.errno = "UTF8_BADHEAD"
           /\ s.state # 0 /\ IsTrailer(c) =>
                /\ d.ok /\ d.state = s.state - 1 /\ d.symbol = Sixes(s.symbol, c)
                /\ d.result = IF s.state = 1 THEN Append(s.result, Sixes(s.symbol, c)) ELSE s.result
           /\ s.state # 0 /\ ~IsTrailer(c) => ~d.ok /\ d.errno = "UTF8_BADTRAIL"
<1>1. /\ s = [s EXCEPT !.ok = s.ok]
      /\ DOMAIN s = {"ok", "errno", "state", "symbol", "result"}
  BY DEF DeserStates
<1>2. TrailersOf(c) > 0 => ~(c < 128)
  BY LengthsAre
<1>3. CASE s.state = 0 /\ c < 128
  <2>1. DeserializeHead(s, c) = [s EXCEPT !.result = Append(s.result, c)]
    BY <1>2, <1>3 DEF DeserializeHead
  <2>2. d = [s EXCEPT !.result = Append(s.result, c)]
    BY <1>3, <2>1, Zenon DEF DeserializeTurn
  <2>3. ~(TrailersOf(c) > 0)
    BY <1>2, <1>3
  <2> QED
    BY <1>1, <1>3, <2>2, <2>3
<1>4. CASE s.state = 0 /\ TrailersOf(c) > 0
  <2>1. DeserializeHead(s, c) = [s EXCEPT !.state = TrailersOf(c), !.symbol = HeadBits(c)]
    BY <1>2, <1>4 DEF DeserializeHead
  <2>2. d = [s EXCEPT !.state = TrailersOf(c), !.symbol = HeadBits(c)]
    BY <1>4, <2>1, Zenon DEF DeserializeTurn
  <2> QED
    BY <1>1, <1>2, <1>4, <2>2
<1>5. CASE s.state = 0 /\ ~(c < 128) /\ ~(TrailersOf(c) > 0)
  <2>1. DeserializeHead(s, c) = Failed(s, "UTF8_BADHEAD")
    BY <1>5 DEF DeserializeHead
  <2>2. d = [s EXCEPT !.ok = FALSE, !.errno = "UTF8_BADHEAD"]
    BY <1>5, <2>1, Zenon DEF DeserializeTurn, Failed
  <2> QED
    BY <1>1, <1>5, <2>2
<1>6. CASE s.state # 0 /\ IsTrailer(c)
  <2> DEFINE x == Sixes(s.symbol, c)
             r == IF s.state = 1 THEN Append(s.result, x) ELSE s.result
  <2>1. DeserializeTrailer(s, c) = [s EXCEPT !.state = s.state - 1, !.symbol = x, !.result = r]
    BY <1>6 DEF DeserializeTrailer, IsTrailer, Sixes
  <2>2. d = [s EXCEPT !.state = s.state - 1, !.symbol = x, !.result = r]
    BY <1>6, <2>1, Zenon DEF DeserializeTurn
  <2> HIDE DEF x, r
  <2>3. d.ok /\ d.state = s.state - 1 /\ d.symbol = x /\ d.result = r
    BY <1>1, <2>2
  <2> QED
    BY <1>6, <2>3, Zenon DEF x, r
<1>7. CASE s.state # 0 /\ ~IsTrailer(c)
  <2>1. d = [s EXCEPT !.ok = FALSE, !.errno = "UTF8_BADTRAIL"]
    BY <1>7, Zenon DEF DeserializeTurn, DeserializeTrailer, Failed, IsTrailer
  <2> QED
    BY <1>1, <1>7, <2>1
<1> QED
  BY <1>3, <1>4, <1>5, <1>6, <1>7, Zenon

\* A character with its head and exactly the trailers that the head asks for.
Right(char) == Len(char) = LengthOf(char[1])

\* All the bytes are taken: every character but the last is right, and "state"
\* is what the last one lacks.
Accepted(C, d) ==
    /\ d.ok
    /\ \A i \in 1..(Len(C) - 1) : Right(C[i])
    /\ d.state = IF C = <<>> THEN 0 ELSE LengthOf(C[Len(C)][1]) - Len(C[Len(C)])
    /\ d.state # 0 => d.symbol = SymbolOf(C[Len(C)])
    /\ Len(d.result) = IF d.state = 0 THEN Len(C) ELSE Len(C) - 1
    /\ \A i \in 1..Len(d.result) : d.result[i] = SymbolOf(C[i])

\* The bytes are refused for character w: it is cut short, or too long.
Misfit(C, d, w) ==
    \/ Len(C[w]) < LengthOf(C[w][1]) /\ w < Len(C) /\ d.errno = "UTF8_BADTRAIL"
    \/ Len(C[w]) > LengthOf(C[w][1]) /\ d.errno = "UTF8_BADHEAD"
RefusedFor(C, d, w) ==
    /\ ~d.ok
    /\ w \in 1..Len(C)
    /\ \A i \in 1..(w - 1) : Right(C[i])
    /\ Misfit(C, d, w)

AfterBytes(C, d) == Accepted(C, d) \/ \E w \in 1..Len(C) : RefusedFor(C, d, w)

LEMMA StaysRefused ==
    ASSUME NEW C \in Seq(Parts8), NEW c \in Bits8, NEW d, NEW w \in 1..Len(C), RefusedFor(C, d, w)
    PROVE  AfterBytes(AddByte(C, c), d)
<1> DEFINE D == AddByte(C, c)
           n == Len(C)
<1>1. n \in Nat \ {0} /\ w \in 1..n /\ C # <<>>
  BY EmptySeq
<1>2. /\ ~d.ok
      /\ \A i \in 1..(w - 1) : Right(C[i])
      /\ Misfit(C, d, w)
  BY DEF RefusedFor
<1>3. CASE IsTrailer(c)
  <2>1. Len(D) = n /\ D[n] = Append(C[n], c) /\ \A i \in 1..(n - 1) : D[i] = C[i]
    BY <1>1, <1>3, AddByteIs
  <2> HIDE DEF D
  <2>2. \A i \in 1..(w - 1) : Right(D[i])
    <3> SUFFICES ASSUME NEW i \in 1..(w - 1) PROVE Right(D[i])
      OBVIOUS
    <3>1. i \in 1..(n - 1)
      BY <1>1
    <3> QED
      BY <1>2, <2>1, <3>1
  <2>3. Misfit(D, d, w)
    <3>1. CASE w < n
      <4>1. w \in 1..(n - 1)
        BY <1>1, <3>1
      <4>2. D[w] = C[w]
        BY <2>1, <4>1
      <4> QED
        BY <1>2, <2>1, <4>2, Zenon DEF Misfit
    <3>2. CASE w = n
      <4>1. C[n] \in Parts8
        BY <1>1
      <4>2. /\ Len(D[n]) = Len(C[n]) + 1 /\ Len(C[n]) \in Nat /\ C[n][1] \in Bits8 /\ D[n][1] = C[n][1]
        <5> DEFINE l == C[n]
        <5> HIDE DEF l
        <5>1. l \in Parts8 /\ D[n] = Append(l, c)
          BY <2>1, <4>1 DEF l
        <5>2. /\ Len(Append(l, c)) = Len(l) + 1 /\ Len(l) \in Nat
              /\ l[1] \in Bits8 /\ Append(l, c)[1] = l[1]
          BY <5>1, LongerChar
        <5> QED
          BY <5>1, <5>2, Zenon DEF l
      <4>3. LengthOf(C[n][1]) \in 0..4
        BY <4>2, LengthsAre
      <4>4. Len(C[w]) > LengthOf(C[w][1]) /\ d.errno = "UTF8_BADHEAD"
        BY <1>1, <1>2, <3>2 DEF Misfit
      <4>5. Len(D[w]) > LengthOf(D[w][1])
        BY <3>2, <4>2, <4>3, <4>4
      <4> QED
        BY <4>4, <4>5 DEF Misfit
    <3> QED
      BY <1>1, <3>1, <3>2
  <2>4. w \in 1..Len(D) /\ RefusedFor(D, d, w)
    BY <1>1, <1>2, <2>1, <2>2, <2>3 DEF RefusedFor
  <2> QED
    BY <2>4, Zenon DEF AfterBytes, D
<1>4. CASE ~IsTrailer(c)
  <2>1. D = Append(C, <<c>>)
    BY <1>4, AddByteIs
  <2>2. <<c>> \in Parts8
    BY DEF Parts8
  <2> HIDE DEF D
  <2>3. Len(D) = n + 1 /\ \A i \in 1..n : D[i] = C[i]
    BY <2>1, <2>2, AppendProperties
  <2>4. \A i \in 1..(w - 1) : Right(D[i])
    <3> SUFFICES ASSUME NEW i \in 1..(w - 1) PROVE Right(D[i])
      OBVIOUS
    <3>1. i \in 1..n
      BY <1>1
    <3> QED
      BY <1>2, <2>3, <3>1
  <2>5. D[w] = C[w] /\ (w < n => w < Len(D)) /\ w \in 1..Len(D)
    BY <1>1, <2>3
  <2>6. Misfit(D, d, w)
    BY <1>2, <2>5, Zenon DEF Misfit
  <2>7. RefusedFor(D, d, w)
    BY <1>2, <2>4, <2>5, <2>6, Zenon DEF RefusedFor
  <2> QED
    BY <2>5, <2>7, Zenon DEF AfterBytes, D
<1> QED
  BY <1>3, <1>4

\* What an accepted text says of its last character.
LEMMA LastChar ==
    ASSUME NEW C \in Seq(Parts8), NEW d \in DeserStates, Accepted(C, d), C # <<>>
    PROVE  /\ Len(C) \in Nat \ {0} /\ C[Len(C)] \in Parts8 /\ C[Len(C)][1] \in Bits8
           /\ Len(C[Len(C)]) \in 1..4 /\ LengthOf(C[Len(C)][1]) \in 1..4
           /\ d.state = LengthOf(C[Len(C)][1]) - Len(C[Len(C)])
<1> DEFINE n == Len(C)
           l == C[n]
<1>1. n \in Nat \ {0} /\ l \in Parts8
  <2>1. n \in Nat \ {0}
    BY EmptySeq
  <2> QED
    BY <2>1
<1>2. Len(l) \in Nat \ {0} /\ l[1] \in Bits8
  <2>1. 0 \in Bits8
    BY DEF Bits8
  <2> HIDE DEF l
  <2> QED
    BY <1>1, <2>1, LongerChar
<1>3. LengthOf(l[1]) \in 0..4
  BY <1>2, LengthsAre
<1>4. d.state = LengthOf(l[1]) - Len(l) /\ d.state \in 0..3
  BY DEF Accepted, DeserStates
<1>5. Len(l) \in 1..4 /\ LengthOf(l[1]) \in 1..4
  <2> DEFINE p == Len(l)
             q == LengthOf(l[1])
  <2>1. p \in Nat \ {0} /\ q \in 0..4 /\ d.state = q - p /\ d.state \in 0..3
    BY <1>2, <1>3, <1>4
  <2> HIDE DEF p, q
  <2>2. p \in 1..4 /\ q \in 1..4
    BY <2>1
  <2> QED
    BY <2>2 DEF p, q
<1> HIDE DEF l
<1> QED
  BY <1>1, <1>2, <1>4, <1>5 DEF l

\* A trailer is added to a character that lacks one, or is one too many.
LEMMA StepOnTrailer ==
    ASSUME NEW C \in Seq(Parts8), NEW d \in DeserStates, Accepted(C, d), C # <<>>,
           NEW c \in Bits8, IsTrailer(c), NEW e \in DeserStates, e = DeserializeTurn(d, c)
    PROVE  AfterBytes(AddByte(C, c), e)
<1> DEFINE D == AddByte(C, c)
           n == Len(C)
           l == C[n]
<1>1. /\ n \in Nat \ {0} /\ l \in Parts8 /\ l[1] \in Bits8 /\ Len(l) \in 1..4
      /\ LengthOf(l[1]) \in 1..4 /\ d.state = LengthOf(l[1]) - Len(l)
  BY LastChar
<1>2. D \in Seq(Parts8) /\ Len(D) = n /\ D[n] = Append(l, c) /\ \A i \in 1..(n - 1) : D[i] = C[i]
  BY AddByteIs
<1>3. /\ d.ok
      /\ \A i \in 1..(n - 1) : Right(C[i])
      /\ d.state # 0 => d.symbol = SymbolOf(l)
      /\ Len(d.result) = IF d.state = 0 THEN n ELSE n - 1
      /\ \A i \in 1..Len(d.result) : d.result[i] = SymbolOf(C[i])
  BY DEF Accepted
<1>4. /\ d.state \in 0..3 /\ e.state \in 0..3 /\ d.symbol \in Nat
      /\ d.result \in Seq(Nat) /\ e.result \in Seq(Nat)
  BY DEF DeserStates
<1>5. ~(c < 128) /\ ~(TrailersOf(c) > 0)
  BY LengthsAre
<1> HIDE DEF D, l
<1> DEFINE m == Append(l, c)
<1>6. /\ Len(m) = Len(l) + 1 /\ m[1] = l[1]
      /\ Len(l) \in 1..3 => SymbolOf(m) = Sixes(SymbolOf(l), c)
  BY <1>1, LongerChar
<1> HIDE DEF m
<1>7. D[n] = m
  BY <1>2 DEF m
<1>8. \A i \in 1..(n - 1) : Right(D[i])
  BY <1>2, <1>3
<1> HIDE DEF n
<1>9. CASE d.state = 0
  <2>1. ~e.ok /\ e.errno = "UTF8_BADHEAD"
    BY <1>3, <1>5, <1>9, TurnIs
  <2>2. Len(m) > LengthOf(m[1])
    BY <1>1, <1>6, <1>9
  <2>3. n \in 1..Len(D) /\ RefusedFor(D, e, n)
    BY <1>1, <1>2, <1>7, <1>8, <2>1, <2>2 DEF RefusedFor, Misfit
  <2> QED
    BY <2>3, Zenon DEF AfterBytes, D
<1>10. CASE d.state # 0
  <2> DEFINE x == Sixes(d.symbol, c)
  <2>1. /\ e.ok /\ e.state = d.state - 1 /\ e.symbol = x
        /\ e.result = IF d.state = 1 THEN Append(d.result, x) ELSE d.result
    BY <1>3, <1>10, TurnIs
  <2>2. Len(l) \in 1..3
    <3> DEFINE p == Len(l)
               q == LengthOf(l[1])
    <3>1. p \in 1..4 /\ q \in 1..4 /\ d.state = q - p
      BY <1>1
    <3> HIDE DEF p, q
    <3>2. p \in 1..3
      BY <1>4, <1>10, <3>1
    <3> QED
      BY <3>2 DEF p
  <2>3. SymbolOf(m) = x
    BY <1>3, <1>6, <1>10, <2>2
  <2>4. x \in Nat
    <3>1. c \in 0..255
      BY DEF Bits8
    <3> QED
      BY <1>4, <3>1 DEF Sixes
  <2> HIDE DEF x
  <2>5. e.state = LengthOf(m[1]) - Len(m)
    BY <1>1, <1>6, <2>1
  <2>6. /\ Len(e.result) = IF e.state = 0 THEN n ELSE n - 1
        /\ \A i \in 1..Len(e.result) : e.result[i] = SymbolOf(D[i])
    <3>1. Len(d.result) = n - 1 /\ \A i \in 1..(n - 1) : d.result[i] = SymbolOf(C[i])
      BY <1>3, <1>10
    <3>2. \A i \in 1..(n - 1) : d.result[i] = SymbolOf(D[i])
      BY <1>2, <3>1
    <3>3. CASE d.state = 1
      <4>1. e.result = Append(d.result, x)
        BY <2>1, <3>3
      <4>2. Len(e.result) = (n - 1) + 1 /\ e.result[(n - 1) + 1] = x /\ \A i \in 1..(n - 1) : e.result[i] = d.result[i]
        BY <1>4, <2>4, <3>1, <4>1, AppendProperties
      <4>3. Len(e.result) = n /\ e.result[n] = x /\ e.state = 0
        BY <1>1, <2>1, <3>3, <4>2
      <4>4. ASSUME NEW i \in 1..n PROVE e.result[i] = SymbolOf(D[i])
        <5>1. i \in 1..(n - 1) \/ i = n
          BY <1>1
        <5>2. ASSUME i \in 1..(n - 1) PROVE e.result[i] = SymbolOf(D[i])
          BY <3>2, <4>2, <5>2, Zenon
        <5> QED
          BY <1>7, <2>3, <4>3, <5>1, <5>2
      <4> QED
        BY <4>3, <4>4
    <3>4. CASE d.state # 1
      <4>1. e.result = d.result /\ e.state # 0
        BY <1>4, <2>1, <3>4
      <4> QED
        BY <3>1, <3>2, <4>1
    <3> QED
      BY <3>3, <3>4
  <2>7. D # <<>>
    BY <1>1, <1>2, EmptySeq
  <2>8. Accepted(D, e)
    BY <1>2, <1>7, <1>8, <2>1, <2>3, <2>5, <2>6, <2>7 DEF Accepted
  <2> QED
    BY <2>8 DEF AfterBytes, D
<1> QED
  BY <1>9, <1>10

\* A byte that begins a character, or should have been a trailer.
LEMMA StepOnHead ==
    ASSUME NEW C \in Seq(Parts8), NEW d \in DeserStates, Accepted(C, d),
           NEW c \in Bits8, ~IsTrailer(c) \/ C = <<>>, NEW e \in DeserStates, e = DeserializeTurn(d, c)
    PROVE  AfterBytes(AddByte(C, c), e)
<1> DEFINE D == AddByte(C, c)
           n == Len(C)
           m == <<c>>
<1>1. n \in Nat /\ (C = <<>> <=> n = 0)
  BY EmptySeq
<1>2. m \in Parts8 /\ Len(m) = 1 /\ m[1] = c
  BY DEF Parts8
<1>3. /\ d.ok
      /\ \A i \in 1..(n - 1) : Right(C[i])
      /\ Len(d.result) = IF d.state = 0 THEN n ELSE n - 1
      /\ \A i \in 1..Len(d.result) : d.result[i] = SymbolOf(C[i])
      /\ C = <<>> => d.state = 0
  BY DEF Accepted
<1>4. /\ d.state \in 0..3 /\ e.state \in 0..3
      /\ d.result \in Seq(Nat) /\ e.result \in Seq(Nat)
  BY DEF DeserStates
<1>5. D = Append(C, m)
  BY AddByteIs
<1> HIDE DEF D
<1>6. D \in Seq(Parts8) /\ Len(D) = n + 1 /\ D[n + 1] = m /\ \A i \in 1..n : D[i] = C[i]
  BY <1>2, <1>5, AppendProperties
<1> HIDE DEF m
<1>7. c \in Nat
  BY DEF Bits8
<1>8. Len(D[n + 1]) = 1 /\ D[n + 1][1] = c
  BY <1>2, <1>6, Zenon
<1>9. CASE d.state # 0
  <2>1. C # <<>> /\ ~IsTrailer(c)
    BY <1>3, <1>9
  <2>2. ~e.ok /\ e.errno = "UTF8_BADTRAIL"
    BY <1>3, <1>9, <2>1, TurnIs
  <2>3. /\ Len(C[n]) \in 1..4 /\ LengthOf(C[n][1]) \in 1..4 /\ d.state = LengthOf(C[n][1]) - Len(C[n])
    BY <2>1, LastChar
  <2> HIDE DEF n
  <2>4. n \in 1..n /\ n \in 1..(n + 1) /\ n < n + 1
    BY <1>1, <2>1
  <2>5. D[n] = C[n]
    BY <1>6, <2>4
  <2>6. Len(D[n]) < LengthOf(D[n][1])
    BY <1>4, <1>9, <2>3, <2>5
  <2>7. \A i \in 1..(n - 1) : Right(D[i])
    <3> SUFFICES ASSUME NEW i \in 1..(n - 1) PROVE Right(D[i])
      OBVIOUS
    <3>1. i \in 1..n
      BY <1>1
    <3> QED
      BY <1>3, <1>6, <3>1
  <2>8. n \in 1..Len(D) /\ RefusedFor(D, e, n)
    BY <1>6, <2>2, <2>4, <2>6, <2>7 DEF RefusedFor, Misfit
  <2> QED
    BY <2>8, Zenon DEF AfterBytes, D
<1>10. CASE d.state = 0
  <2>1. \A i \in 1..n : Right(C[i])
    <3>1. CASE C = <<>>
      BY <1>1, <3>1
    <3>2. CASE C # <<>>
      <4>1. /\ Len(C[n]) \in 1..4 /\ LengthOf(C[n][1]) \in 1..4 /\ d.state = LengthOf(C[n][1]) - Len(C[n])
        BY <3>2, LastChar
      <4>2. Right(C[n])
        BY <1>10, <4>1 DEF Right
      <4> HIDE DEF n
      <4>3. \A i \in 1..n : i \in 1..(n - 1) \/ i = n
        BY <1>1
      <4> QED
        BY <1>3, <4>2, <4>3
    <3> QED
      BY <3>1, <3>2
  <2> HIDE DEF n
  <2>2. \A i \in 1..((n + 1) - 1) : Right(D[i])
    <3>1. (n + 1) - 1 = n
      BY <1>1
    <3> QED
      BY <1>6, <2>1, <3>1
  <2>3. Len(d.result) = n /\ \A i \in 1..n : d.result[i] = SymbolOf(D[i])
    BY <1>3, <1>6, <1>10
  <2>4. D # <<>> /\ n + 1 \in 1..Len(D)
    BY <1>1, <1>6, EmptySeq
  <2>5. CASE c < 128
    <3>1. e.ok /\ e.state = 0 /\ e.result = Append(d.result, c)
      BY <1>3, <1>10, <2>5, TurnIs
    <3>2. LengthOf(c) = 1
      BY <2>5, LengthsAre
    <3>3. SymbolOf(m) = c
      BY <1>2, <2>5 DEF SymbolOf, HeadOf
    <3>4. Len(e.result) = n + 1 /\ e.result[n + 1] = c /\ \A i \in 1..n : e.result[i] = d.result[i]
      BY <1>4, <1>7, <2>3, <3>1, AppendProperties
    <3>5. ASSUME NEW i \in 1..(n + 1) PROVE e.result[i] = SymbolOf(D[i])
      <4>1. i \in 1..n \/ i = n + 1
        BY <1>1
      <4> QED
        BY <1>6, <2>3, <3>3, <3>4, <4>1
    <3>6. e.state = LengthOf(D[n + 1][1]) - Len(D[n + 1])
      BY <1>8, <3>1, <3>2
    <3>7. Accepted(D, e)
      BY <1>6, <2>2, <2>4, <3>1, <3>4, <3>5, <3>6 DEF Accepted
    <3> QED
      BY <3>7 DEF AfterBytes, D
  <2>6. CASE TrailersOf(c) > 0
    <3>1. e.ok /\ e.state = TrailersOf(c) /\ e.symbol = HeadBits(c) /\ e.result = d.result
      BY <1>3, <1>10, <2>6, TurnIs
    <3>2. LengthOf(c) = TrailersOf(c) + 1 /\ ~(c < 128) /\ TrailersOf(c) \in 1..3
      BY <2>6, LengthsAre
    <3>3. SymbolOf(m) = HeadBits(c)
      BY <1>2, <3>2 DEF SymbolOf, HeadOf
    <3>4. e.state = LengthOf(D[n + 1][1]) - Len(D[n + 1]) /\ e.state # 0
      BY <1>8, <3>1, <3>2
    <3>5. Len(e.result) = n /\ n = (n + 1) - 1
      BY <1>1, <2>3, <3>1
    <3>6. Accepted(D, e)
      BY <1>6, <2>2, <2>3, <2>4, <3>1, <3>3, <3>4, <3>5 DEF Accepted
    <3> QED
      BY <3>6 DEF AfterBytes, D
  <2>7. CASE ~(c < 128) /\ ~(TrailersOf(c) > 0)
    <3>1. ~e.ok /\ e.errno = "UTF8_BADHEAD"
      BY <1>3, <1>10, <2>7, TurnIs
    <3>2. LengthOf(c) = 0
      BY <2>7, LengthsAre
    <3>3. Len(D[n + 1]) > LengthOf(D[n + 1][1])
      BY <1>8, <3>2
    <3>4. RefusedFor(D, e, n + 1)
      BY <2>2, <2>4, <3>1, <3>3 DEF RefusedFor, Misfit
    <3> QED
      BY <2>4, <3>4, Zenon DEF AfterBytes, D
  <2> QED
    BY <2>5, <2>6, <2>7
<1> QED
  BY <1>9, <1>10

LEMMA AlwaysAfterBytes ==
    \A t \in Seq(Bits8) :
        /\ Characters(t) \in Seq(Parts8) /\ Deserialize(t, <<>>) \in DeserStates
        /\ AfterBytes(Characters(t), Deserialize(t, <<>>))
<1> DEFINE T == {t \in Seq(Bits8) : AfterBytes(Characters(t), Deserialize(t, <<>>))}
<1>1. <<>> \in Seq(Nat)
  OBVIOUS
<1>2. <<>> \in T
  <2> DEFINE d == Deserialize(<<>>, <<>>)
  <2>1. d.ok /\ d.state = 0 /\ d.result = <<>>
    <3>1. d = StartOfDeserialize(<<>>)
      BY <1>1, DeserializeEmpty
    <3> HIDE DEF d
    <3> QED
      BY <3>1 DEF StartOfDeserialize
  <2> HIDE DEF d
  <2>2. Accepted(<<>>, d)
    BY <2>1 DEF Accepted
  <2>3. Characters(<<>>) = <<>> /\ <<>> \in Seq(Bits8)
    BY CharactersEmpty
  <2> QED
    BY <2>2, <2>3, Zenon DEF AfterBytes, d
<1>3. ASSUME NEW t \in Seq(Bits8), NEW c \in Bits8, t \in T PROVE Append(t, c) \in T
  <2> DEFINE C == Characters(t)
             d == Deserialize(t, <<>>)
             u == Append(t, c)
             e == Deserialize(u, <<>>)
  <2>1. C \in Seq(Parts8) /\ Characters(u) = AddByte(C, c)
    BY CharactersAppend
  <2>2. d \in DeserStates /\ e = DeserializeTurn(d, c)
    BY <1>1, DeserializeAppend
  <2>3. AfterBytes(C, d) /\ u \in Seq(Bits8)
    BY <1>3, AppendProperties
  <2> HIDE DEF C, d, e, u
  <2>4. e \in DeserStates
    BY <2>2, DeserializeTurnType
  <2>5. AfterBytes(AddByte(C, c), e)
    <3>1. CASE Accepted(C, d)
      <4>1. CASE IsTrailer(c) /\ C # <<>>
        BY <2>1, <2>2, <2>4, <3>1, <4>1, StepOnTrailer
      <4>2. CASE ~(IsTrailer(c) /\ C # <<>>)
        BY <2>1, <2>2, <2>4, <3>1, <4>2, StepOnHead
      <4> QED
        BY <4>1, <4>2
    <3>2. CASE ~Accepted(C, d)
      <4>1. PICK w \in 1..Len(C) : RefusedFor(C, d, w)
        BY <2>3, <3>2 DEF AfterBytes
      <4>2. e = d
        BY <2>2, <4>1, Zenon DEF RefusedFor, DeserializeTurn
      <4>3. AfterBytes(AddByte(C, c), d)
        BY <2>1, <4>1, StaysRefused
      <4> QED
        BY <4>2, <4>3
    <3> QED
      BY <3>1, <3>2
  <2> QED
    BY <2>1, <2>3, <2>5, Zenon DEF u, e
<1> HIDE DEF T
<1>4. \A s \in Seq(Bits8) : s \in T
  BY <1>2, <1>3, AppendInduction
<1> SUFFICES ASSUME NEW t \in Seq(Bits8)
             PROVE  /\ Characters(t) \in Seq(Parts8) /\ Deserialize(t, <<>>) \in DeserStates
                    /\ AfterBytes(Characters(t), Deserialize(t, <<>>))
  OBVIOUS
<1>5. Characters(t) \in Seq(Parts8)
  <2>1. PICK f : Splits(f, t) /\ Characters(t) = f[Len(t)]
    BY CharactersIterate
  <2>2. Len(t) \in 0..Len(t)
    OBVIOUS
  <2> QED
    BY <2>1, <2>2 DEF Splits
<1>6. Deserialize(t, <<>>) \in DeserStates
  <2>1. PICK f : Turns(f, t, <<>>) /\ Deserialize(t, <<>>) = f[Len(t)]
    BY <1>1, DeserializeIterates
  <2>2. Len(t) \in 0..Len(t)
    OBVIOUS
  <2> QED
    BY <2>1, <2>2 DEF Turns
<1>7. AfterBytes(Characters(t), Deserialize(t, <<>>))
  BY <1>4 DEF T
<1> QED
  BY <1>5, <1>6, <1>7

\* The bytes after a character's first are trailers.
Trailed(char) == \A j \in 2..Len(char) : IsTrailer(char[j])

LEMMA CharactersTrailed ==
    \A t \in Seq(Bits8) : \A i \in 1..Len(Characters(t)) : Trailed(Characters(t)[i])
<1> DEFINE AllTrailed(C) == \A i \in 1..Len(C) : Trailed(C[i])
           T == {t \in Seq(Bits8) : AllTrailed(Characters(t))}
<1>1. <<>> \in T
  <2>1. <<>> \in Seq(Bits8) /\ Len(<<>>) = 0
    OBVIOUS
  <2>2. AllTrailed(<<>>)
    BY <2>1
  <2> HIDE DEF AllTrailed
  <2> QED
    BY <2>1, <2>2, CharactersEmpty
<1>2. ASSUME NEW t \in Seq(Bits8), NEW c \in Bits8, t \in T PROVE Append(t, c) \in T
  <2> DEFINE C == Characters(t)
             D == AddByte(C, c)
             n == Len(C)
  <2>1. C \in Seq(Parts8) /\ Characters(Append(t, c)) = D /\ AllTrailed(C)
    BY <1>2, CharactersAppend
  <2>2. Append(t, c) \in Seq(Bits8)
    BY AppendProperties
  <2> HIDE DEF C
  <2>3. AllTrailed(D)
    <3>1. CASE IsTrailer(c) /\ C # <<>>
      <4>1. /\ n \in Nat \ {0} /\ Len(D) = n /\ D[n] = Append(C[n], c)
            /\ \A i \in 1..(n - 1) : D[i] = C[i]
        BY <2>1, <3>1, AddByteIs
      <4> DEFINE l == C[n]
                 m == Append(l, c)
      <4>2. l \in Seq(Bits8) /\ Trailed(l)
        <5>1. n \in 1..n
          BY <4>1
        <5> QED
          BY <2>1, <5>1 DEF Parts8
      <4> HIDE DEF D, l
      <4>3. Len(m) = Len(l) + 1 /\ m[Len(l) + 1] = c /\ \A j \in 1..Len(l) : m[j] = l[j]
        BY <4>2, AppendProperties
      <4> HIDE DEF m
      <4>4. ASSUME NEW j \in 2..Len(m) PROVE IsTrailer(m[j])
        <5>1. Len(l) \in Nat
          BY <4>2
        <5>2. (j \in 2..Len(l) /\ j \in 1..Len(l)) \/ j = Len(l) + 1
          BY <4>3, <5>1
        <5> QED
          BY <3>1, <4>2, <4>3, <5>2 DEF Trailed
      <4> HIDE DEF n
      <4>5. ASSUME NEW i \in 1..Len(D) PROVE Trailed(D[i])
        <5>1. (i \in 1..(n - 1) /\ i \in 1..n) \/ i = n
          BY <4>1
        <5>2. Trailed(m)
          BY <4>4 DEF Trailed
        <5>3. D[n] = m
          BY <4>1 DEF m, l
        <5>4. \A k \in 1..n : Trailed(C[k])
          BY <2>1 DEF n
        <5> QED
          BY <4>1, <5>1, <5>2, <5>3, <5>4
      <4> QED
        BY <4>5
    <3>2. CASE ~(IsTrailer(c) /\ C # <<>>)
      <4>1. D = Append(C, <<c>>)
        BY <2>1, <3>2, AddByteIs
      <4>2. <<c>> \in Parts8 /\ Trailed(<<c>>)
        BY DEF Parts8, Trailed
      <4> HIDE DEF D
      <4>3. Len(D) = n + 1 /\ D[n + 1] = <<c>> /\ \A i \in 1..n : D[i] = C[i]
        BY <2>1, <4>1, <4>2, AppendProperties
      <4>4. n \in Nat
        BY <2>1
      <4>5. ASSUME NEW i \in 1..Len(D) PROVE Trailed(D[i])
        <5>1. i \in 1..n \/ i = n + 1
          BY <4>3, <4>4
        <5> QED
          BY <2>1, <4>2, <4>3, <5>1
      <4> QED
        BY <4>5
    <3> QED
      BY <3>1, <3>2
  <2> HIDE DEF AllTrailed, D
  <2> QED
    BY <2>1, <2>2, <2>3
<1> HIDE DEF T
<1>3. \A s \in Seq(Bits8) : s \in T
  BY <1>1, <1>2, AppendInduction
<1> QED
  BY <1>3 DEF T

\* A text of right characters only is accepted for what they stand for.
LEMMA AllRight ==
    ASSUME NEW C \in Seq(Parts8), NEW d \in DeserStates, AfterBytes(C, d), \A i \in 1..Len(C) : Right(C[i])
    PROVE  d.ok /\ d.result = [i \in 1..Len(C) |-> SymbolOf(C[i])]
<1> DEFINE n == Len(C)
           x(i) == SymbolOf(C[i])
<1>1. n \in Nat /\ d.result \in Seq(Nat)
  BY DEF DeserStates
<1>2. ASSUME NEW w \in 1..n, RefusedFor(C, d, w) PROVE FALSE
  <2>1. Misfit(C, d, w) /\ Right(C[w])
    BY <1>2 DEF RefusedFor
  <2>2. C[w] \in Parts8
    OBVIOUS
  <2>3. Len(C[w]) \in Nat
    BY <2>2 DEF Parts8
  <2> QED
    BY <2>1, <2>3 DEF Misfit, Right
<1>3. Accepted(C, d)
  BY <1>2 DEF AfterBytes
<1>4. d.state = 0
  <2>1. CASE C = <<>>
    BY <1>3, <2>1 DEF Accepted
  <2>2. CASE C # <<>>
    <3>1. n \in 1..n /\ Len(C[n]) \in 1..4 /\ d.state = LengthOf(C[n][1]) - Len(C[n])
      BY <1>3, <2>2, LastChar
    <3>2. Right(C[n])
      BY <3>1
    <3> QED
      BY <3>1, <3>2 DEF Right
  <2> QED
    BY <2>1, <2>2
<1>5. Len(d.result) = n /\ \A i \in 1..n : d.result[i] = x(i)
  BY <1>3, <1>4 DEF Accepted
<1>6. d.ok
  BY <1>3 DEF Accepted
<1> DEFINE r == d.result
<1>7. r \in Seq(Nat) /\ Len(r) = n /\ \A i \in 1..n : r[i] = x(i)
  BY <1>1, <1>5
<1> HIDE DEF r, x, n
<1>8. r = [i \in 1..n |-> x(i)]
  <2>1. r = [i \in 1..n |-> r[i]]
    BY <1>1, <1>7
  <2> QED
    BY <1>7, <2>1
<1> QED
  BY <1>6, <1>8, Zenon DEF r, x, n

Wrong(C) ==
    {i \in DOMAIN C : \/ Len(C[i]) > LengthOf(C[i][1])
                      \/ Len(C[i]) < LengthOf(C[i][1]) /\ i < Len(C)}

\* A text is refused for the first character that is wrong.
LEMMA FirstWrong ==
    ASSUME NEW C \in Seq(Parts8), NEW d \in DeserStates, AfterBytes(C, d)
    PROVE  /\ d.ok <=> Wrong(C) = {}
           /\ ~d.ok => d.errno = IF Len(C[Min(Wrong(C))]) < LengthOf(C[Min(Wrong(C))][1])
                                 THEN "UTF8_BADTRAIL" ELSE "UTF8_BADHEAD"
<1> DEFINE n == Len(C)
<1>1. n \in Nat /\ DOMAIN C = 1..n
  OBVIOUS
<1>2. ASSUME NEW i \in 1..n PROVE Len(C[i]) \in Nat /\ LengthOf(C[i][1]) \in 0..4
  <2> DEFINE l == C[i]
  <2>1. l \in Parts8 /\ 0 \in Bits8
    BY <1>1 DEF Bits8
  <2> HIDE DEF l
  <2>2. Len(l) \in Nat /\ l[1] \in Bits8
    BY <2>1, LongerChar
  <2>3. LengthOf(l[1]) \in 0..4
    BY <2>2, LengthsAre
  <2> QED
    BY <2>2, <2>3 DEF l
<1>3. ASSUME NEW i \in 1..n, Right(C[i]) PROVE i \notin Wrong(C)
  BY <1>2, <1>3 DEF Right, Wrong
<1>4. CASE Accepted(C, d)
  <2>1. ASSUME NEW i \in Wrong(C) PROVE FALSE
    <3>1. i \in 1..n
      BY <1>1 DEF Wrong
    <3>2. i \notin 1..(n - 1)
      BY <1>3, <1>4, <3>1 DEF Accepted
    <3>3. i = n
      <4> HIDE DEF n
      <4> QED
        BY <1>1, <3>1, <3>2
    <3>4. C # <<>>
      BY <1>1, <3>1, EmptySeq
    <3>5. d.state = LengthOf(C[n][1]) - Len(C[n]) /\ d.state \in 0..3
      BY <1>4, <3>4, LastChar DEF DeserStates
    <3>6. Len(C[n]) > LengthOf(C[n][1])
      BY <1>1, <3>3 DEF Wrong
    <3>7. Len(C[n]) \in Nat /\ LengthOf(C[n][1]) \in 0..4
      BY <1>2, <3>1, <3>3
    <3> QED
      BY <3>5, <3>6, <3>7
  <2>2. d.ok
    BY <1>4 DEF Accepted
  <2> QED
    BY <2>1, <2>2
<1>5. ASSUME NEW w \in 1..n, RefusedFor(C, d, w)
      PROVE  /\ ~d.ok /\ Wrong(C) # {}
             /\ d.errno = IF Len(C[Min(Wrong(C))]) < LengthOf(C[Min(Wrong(C))][1])
                          THEN "UTF8_BADTRAIL" ELSE "UTF8_BADHEAD"
  <2>1. ~d.ok /\ (\A i \in 1..(w - 1) : Right(C[i])) /\ Misfit(C, d, w)
    BY <1>5 DEF RefusedFor
  <2>2. w \in Wrong(C)
    BY <1>1, <2>1 DEF Wrong, Misfit
  <2>3. ASSUME NEW i \in Wrong(C) PROVE w <= i
    <3>1. i \in 1..n
      BY <1>1 DEF Wrong
    <3>2. i \notin 1..(w - 1)
      BY <1>3, <2>1, <3>1
    <3> QED
      BY <3>1, <3>2
  <2>4. ASSUME NEW i \in Wrong(C), \A j \in Wrong(C) : i <= j PROVE i = w
    <3>1. i \in 1..n /\ i <= w /\ w <= i
      BY <1>1, <2>2, <2>3, <2>4 DEF Wrong
    <3> QED
      BY <3>1
  <2>5. Min(Wrong(C)) = w
    <3> DEFINE W == Wrong(C)
    <3> HIDE DEF W
    <3>1. w \in W /\ (\A j \in W : w <= j) /\ \A i \in W : (\A j \in W : i <= j) => i = w
      BY <2>2, <2>3, <2>4, Zenon DEF W
    <3>2. (CHOOSE i \in W : \A j \in W : i <= j) = w
      BY <3>1, Zenon
    <3> QED
      BY <3>2, Zenon DEF W, Min
  <2>6. d.errno = IF Len(C[w]) < LengthOf(C[w][1]) THEN "UTF8_BADTRAIL" ELSE "UTF8_BADHEAD"
    BY <1>2, <2>1 DEF Misfit
  <2> QED
    BY <2>1, <2>2, <2>5, <2>6, Zenon
<1> QED
  BY <1>4, <1>5, Zenon DEF AfterBytes

------------------------------------------------------------------------------
(* utf8: a symbol and its bytes *)

IsSymbol(s) == s <= 1114111 /\ (s < 55296 \/ s > 57343)

LEMMA EstimateIs ==
    ASSUME NEW s \in Nat
    PROVE  /\ IsSymbol(s) => EstimateBufSize(s) = IF s <= 127 THEN 1 ELSE IF s <= 2047 THEN 2
                                                  ELSE IF s <= 65535 THEN 3 ELSE 4
           /\ ~IsSymbol(s) => EstimateBufSize(s) = 0
  BY SMT DEF EstimateBufSize, IsSymbol, IsSurrogate

\* What a head and its trailers stand for.
LEMMA HeadIs ==
    ASSUME NEW c \in Bits8
    PROVE  /\ c < 128 => HeadOf(c) = c
           /\ c \in 192..223 => HeadOf(c) = c - 192
           /\ c \in 224..239 => HeadOf(c) = c - 224
           /\ c \in 240..247 => HeadOf(c) = c - 240
<1>1. c \in 0..255
  BY DEF Bits8
<1>2. TrailersOf(c) = IF c \in 192..223 THEN 1 ELSE IF c \in 224..239 THEN 2
                      ELSE IF c \in 240..247 THEN 3 ELSE 0
  BY TrailersAre
<1>3. CASE c < 128
  BY <1>3 DEF HeadOf
<1>4. CASE c \in 192..223
  <2>1. HeadOf(c) = c % 32
    BY <1>2, <1>4 DEF HeadOf, HeadBits
  <2> QED
    BY <1>4, <2>1
<1>5. CASE c \in 224..239
  <2>1. HeadOf(c) = c % 16
    BY <1>2, <1>5 DEF HeadOf, HeadBits
  <2> QED
    BY <1>5, <2>1
<1>6. CASE c \in 240..247
  <2>1. HeadOf(c) = c % 8
    BY <1>2, <1>6 DEF HeadOf, HeadBits
  <2> QED
    BY <1>6, <2>1
<1> QED
  BY <1>1, <1>3, <1>4, <1>5, <1>6

\* The symbols of three and of four bytes.
Threes(s) == s > 2047 /\ s <= 65535 /\ IsSymbol(s)
Fours(s) == s > 65535 /\ s <= 1114111

\* What is wanted of the bytes of a symbol.
Encodes(s, char) ==
    /\ Encode(s) = char
    /\ char \in Parts8 /\ Trailed(char) /\ ~IsTrailer(char[1])
    /\ SymbolOf(char) = s
    /\ Len(char) = EstimateBufSize(s) /\ Right(char)

LEMMA IsPart ==
    ASSUME NEW char \in Seq(Bits8), NEW k \in Nat \ {0}, Len(char) = k
    PROVE  char \in Parts8
  BY EmptySeq DEF Parts8

LEMMA OneByte ==
    ASSUME NEW a \in 0..127
    PROVE  IsSymbol(a) /\ Encodes(a, <<a>>)
<1> DEFINE char == <<a>>
<1>1. a \in Bits8 /\ a < 128 /\ a \in Nat
  BY DEF Bits8
<1>2. char \in Parts8 /\ Trailed(char) /\ Len(char) = 1 /\ char[1] = a
  BY <1>1 DEF Parts8, Trailed
<1>3. LengthOf(a) = 1 /\ HeadOf(a) = a /\ ~IsTrailer(a)
  BY <1>1, LengthsAre, HeadIs DEF IsTrailer
<1>4. Encode(a) = char /\ IsSymbol(a)
  BY DEF Encode, IsSymbol
<1>5. EstimateBufSize(a) = 1
  BY <1>1, <1>4, EstimateIs
<1> HIDE DEF char
<1>6. SymbolOf(char) = a
  BY <1>2, <1>3 DEF SymbolOf
<1> QED
  BY <1>2, <1>3, <1>4, <1>5, <1>6, Zenon DEF Encodes, Right, char

LEMMA TwoBytes ==
    ASSUME NEW h \in 0..31, NEW b \in 0..63, NEW s, s = 64 * h + b, s > 127
    PROVE  IsSymbol(s) /\ Encodes(s, <<192 + h, 128 + b>>)
<1> DEFINE x == 192 + h
           y == 128 + b
           char == <<x, y>>
<1>1. x \in Bits8 /\ y \in Bits8 /\ x \in 192..223 /\ y \in 128..191
  BY DEF Bits8
<1>2. s \in Nat /\ s > 127 /\ s <= 2047 /\ IsSymbol(s)
  BY DEF IsSymbol
<1>3. Encode(s) = <<192 + s \div 64, TrailerByte(s)>>
  BY <1>2 DEF Encode
<1>4. s \div 64 = h /\ s % 64 = b
  OBVIOUS
<1>5. Encode(s) = char
  BY <1>3, <1>4 DEF TrailerByte
<1>6. EstimateBufSize(s) = 2
  BY <1>2, EstimateIs
<1>7. HeadOf(x) = h /\ LengthOf(x) = 2 /\ ~IsTrailer(x)
  BY <1>1, HeadIs, LengthsAre, TrailersAre DEF IsTrailer
<1>8. Sixes(h, y) = s
  <2>1. y % 64 = b
    OBVIOUS
  <2> QED
    BY <2>1 DEF Sixes
<1>9. IsTrailer(y)
  BY <1>1 DEF IsTrailer
<1> HIDE DEF x, y
<1>10. char \in Parts8 /\ Len(char) = 2 /\ char[1] = x /\ char[2] = y
  <2>1. char \in Seq(Bits8)
    BY <1>1
  <2>2. Len(char) = 2 /\ char[1] = x /\ char[2] = y
    OBVIOUS
  <2> HIDE DEF char
  <2>3. char \in Parts8
    BY <2>1, <2>2, IsPart
  <2> QED
    BY <2>2, <2>3
<1> HIDE DEF char
<1>11. Trailed(char)
  BY <1>9, <1>10 DEF Trailed
<1>12. SymbolOf(char) = s
  BY <1>7, <1>8, <1>10 DEF SymbolOf
<1>13. Encodes(s, char)
  BY <1>5, <1>6, <1>7, <1>10, <1>11, <1>12, Zenon DEF Encodes, Right
<1>14. IsSymbol(s)
  BY <1>2
<1> QED
  BY <1>13, <1>14, Zenon DEF char, x, y

LEMMA ThreeBytes ==
    ASSUME NEW h \in 0..15, NEW b \in 0..63, NEW c \in 0..63,
           NEW s, s = 64 * (64 * h + b) + c, Threes(s)
    PROVE  IsSymbol(s) /\ Encodes(s, <<224 + h, 128 + b, 128 + c>>)
<1> DEFINE x == 224 + h
           y == 128 + b
           z == 128 + c
           r == 64 * h + b
           char == <<x, y, z>>
<1>1. /\ x \in Bits8 /\ y \in Bits8 /\ z \in Bits8
      /\ x \in 224..239 /\ y \in 128..191 /\ z \in 128..191
  BY DEF Bits8
<1>2. s \in Nat /\ s > 2047 /\ s <= 65535
  BY DEF Threes
<1>3. Encode(s) = <<224 + s \div 4096, TrailerByte(s \div 64), TrailerByte(s)>>
  BY <1>2 DEF Encode
<1>4. s \div 64 = r /\ s % 64 = c
  OBVIOUS
<1>5. r % 64 = b
  OBVIOUS
<1>6. s \div 4096 = h
  OBVIOUS
<1>7. Encode(s) = char
  <2>1. Encode(s) = <<224 + h, TrailerByte(r), TrailerByte(s)>>
    BY <1>3, <1>4, <1>6
  <2>2. TrailerByte(r) = y /\ TrailerByte(s) = z
    BY <1>4, <1>5 DEF TrailerByte
  <2> QED
    BY <2>1, <2>2, Zenon
<1>8. EstimateBufSize(s) = 3
  BY <1>2, EstimateIs DEF Threes
<1>9. HeadOf(x) = h /\ LengthOf(x) = 3 /\ ~IsTrailer(x)
  BY <1>1, HeadIs, LengthsAre, TrailersAre DEF IsTrailer
<1>10. Sixes(h, y) = r /\ Sixes(r, z) = s
  <2>1. y % 64 = b /\ z % 64 = c
    OBVIOUS
  <2> QED
    BY <2>1 DEF Sixes
<1>11. IsTrailer(y) /\ IsTrailer(z)
  BY <1>1 DEF IsTrailer
<1> HIDE DEF x, y, z, r
<1>12. char \in Parts8 /\ Len(char) = 3 /\ char[1] = x /\ char[2] = y /\ char[3] = z
  <2>1. char \in Seq(Bits8)
    BY <1>1
  <2>2. Len(char) = 3 /\ char[1] = x /\ char[2] = y /\ char[3] = z
    OBVIOUS
  <2> HIDE DEF char
  <2>3. char \in Parts8
    BY <2>1, <2>2, IsPart
  <2> QED
    BY <2>2, <2>3
<1> HIDE DEF char
<1>13. Trailed(char)
  BY <1>11, <1>12 DEF Trailed
<1>14. SymbolOf(char) = s
  BY <1>9, <1>10, <1>12 DEF SymbolOf
<1>15. Encodes(s, char)
  BY <1>7, <1>8, <1>9, <1>12, <1>13, <1>14, Zenon DEF Encodes, Right
<1>16. IsSymbol(s)
  BY DEF Threes
<1> QED
  BY <1>15, <1>16, Zenon DEF char, x, y, z

LEMMA FourBytes ==
    ASSUME NEW h \in 0..7, NEW b \in 0..63, NEW c \in 0..63, NEW d \in 0..63,
           NEW s, s = 64 * (64 * (64 * h + b) + c) + d, Fours(s)
    PROVE  IsSymbol(s) /\ Encodes(s, <<240 + h, 128 + b, 128 + c, 128 + d>>)
<1> DEFINE w == 240 + h
           x == 128 + b
           y == 128 + c
           z == 128 + d
           q == 64 * h + b
           r == 64 * q + c
           char == <<w, x, y, z>>
<1>1. /\ w \in Bits8 /\ x \in Bits8 /\ y \in Bits8 /\ z \in Bits8
      /\ w \in 240..247 /\ x \in 128..191 /\ y \in 128..191 /\ z \in 128..191
  BY DEF Bits8
<1>2. s \in Nat /\ s > 65535 /\ s <= 1114111
  BY DEF Fours
<1>3. Encode(s) = <<240 + s \div 262144, TrailerByte(s \div 4096), TrailerByte(s \div 64), TrailerByte(s)>>
  BY <1>2 DEF Encode
<1>4. s \div 64 = r /\ s % 64 = d
  OBVIOUS
<1>5. s \div 4096 = q /\ r % 64 = c
  OBVIOUS
<1>6. s \div 262144 = h /\ q % 64 = b
  OBVIOUS
<1>7. Encode(s) = char
  <2>1. Encode(s) = <<240 + h, TrailerByte(q), TrailerByte(r), TrailerByte(s)>>
    BY <1>3, <1>4, <1>5, <1>6
  <2>2. TrailerByte(q) = x /\ TrailerByte(r) = y /\ TrailerByte(s) = z
    BY <1>4, <1>5, <1>6 DEF TrailerByte
  <2> QED
    BY <2>1, <2>2, Zenon
<1>8. IsSymbol(s)
  BY <1>2 DEF IsSymbol
<1>9. EstimateBufSize(s) = 4
  BY <1>2, <1>8, EstimateIs
<1>10. HeadOf(w) = h /\ LengthOf(w) = 4 /\ ~IsTrailer(w)
  BY <1>1, HeadIs, LengthsAre, TrailersAre DEF IsTrailer
<1>11. Sixes(h, x) = q /\ Sixes(q, y) = r /\ Sixes(r, z) = s
  <2>1. x % 64 = b /\ y % 64 = c /\ z % 64 = d
    OBVIOUS
  <2> QED
    BY <2>1 DEF Sixes
<1>12. IsTrailer(x) /\ IsTrailer(y) /\ IsTrailer(z)
  BY <1>1 DEF IsTrailer
<1> HIDE DEF w, x, y, z, q, r
<1>13. char \in Parts8 /\ Len(char) = 4 /\ char[1] = w /\ char[2] = x /\ char[3] = y /\ char[4] = z
  <2>1. char \in Seq(Bits8)
    BY <1>1
  <2>2. Len(char) = 4 /\ char[1] = w /\ char[2] = x /\ char[3] = y /\ char[4] = z
    OBVIOUS
  <2> HIDE DEF char
  <2>3. char \in Parts8
    BY <2>1, <2>2, IsPart
  <2> QED
    BY <2>2, <2>3
<1> HIDE DEF char
<1>14. Trailed(char)
  BY <1>12, <1>13 DEF Trailed
<1>15. SymbolOf(char) = s
  BY <1>10, <1>11, <1>13 DEF SymbolOf
<1>16. Encodes(s, char)
  BY <1>7, <1>9, <1>10, <1>13, <1>14, <1>15, Zenon DEF Encodes, Right
<1> QED
  BY <1>16, <1>8, Zenon DEF char, w, x, y, z

LEMMA SymbolEncodes ==
    ASSUME NEW s \in Nat, IsSymbol(s)
    PROVE  Encodes(s, Encode(s))
<1> DEFINE p == s \div 64
           q == p \div 64
           r == q \div 64
<1>1. p \in Nat /\ s % 64 \in 0..63 /\ s = 64 * p + (s % 64)
  OBVIOUS
<1>2. q \in Nat /\ p % 64 \in 0..63 /\ p = 64 * q + (p % 64)
  BY <1>1
<1>3. r \in Nat /\ q % 64 \in 0..63 /\ q = 64 * r + (q % 64)
  BY <1>2
<1>4. s <= 1114111
  BY DEF IsSymbol
<1> DEFINE sl == s % 64
           pl == p % 64
           ql == q % 64
<1> HIDE DEF p, q, r, sl, pl, ql
<1>5. p \in Nat /\ sl \in 0..63 /\ s = 64 * p + sl
  BY <1>1 DEF sl, p
<1>6. q \in Nat /\ pl \in 0..63 /\ p = 64 * q + pl
  BY <1>2 DEF pl, q
<1>7. r \in Nat /\ ql \in 0..63 /\ q = 64 * r + ql
  BY <1>3 DEF ql, r
<1> SUFFICES \E char : Encodes(s, char)
  BY Zenon DEF Encodes
<1>8. CASE s <= 127
  <2>1. s \in 0..127
    BY <1>8
  <2>2. Encodes(s, <<s>>)
    BY <2>1, OneByte
  <2> QED
    BY <2>2
<1>9. CASE s > 127 /\ s <= 2047
  <2>1. p \in 0..31 /\ s > 127
    BY <1>5, <1>9
  <2>2. Encodes(s, <<192 + p, 128 + sl>>)
    BY <1>5, <2>1, TwoBytes
  <2> QED
    BY <2>2
<1>10. CASE s > 2047 /\ s <= 65535
  <2>1. q \in 0..15
    BY <1>5, <1>6, <1>10
  <2>2. s = 64 * (64 * q + pl) + sl
    BY <1>5, <1>6
  <2>3. Threes(s)
    BY <1>10 DEF Threes
  <2>4. Encodes(s, <<224 + q, 128 + pl, 128 + sl>>)
    <3>1. sl \in 0..63 /\ pl \in 0..63
      BY <1>5, <1>6
    <3> QED
      BY ONLY <2>1, <2>2, <2>3, <3>1, ThreeBytes, ZenonT(30)
  <2> QED
    BY <2>4
<1>11. CASE s > 65535
  <2>1. r \in 0..7
    BY <1>4, <1>5, <1>6, <1>7
  <2>2. s = 64 * (64 * (64 * r + ql) + pl) + sl
    BY <1>5, <1>6, <1>7
  <2>3. Fours(s)
    BY <1>4, <1>11 DEF Fours
  <2>4. Encodes(s, <<240 + r, 128 + ql, 128 + pl, 128 + sl>>)
    <3>1. sl \in 0..63 /\ pl \in 0..63 /\ ql \in 0..63
      BY <1>5, <1>6, <1>7
    <3> QED
      BY ONLY <2>1, <2>2, <2>3, <3>1, FourBytes, ZenonT(30)
  <2> QED
    BY <2>4
<1> QED
  BY <1>8, <1>9, <1>10, <1>11

\* A character that RFC 3629 allows is that of a symbol.
LEMMA AllowedEncodes ==
    ASSUME NEW char \in Parts8, Trailed(char), IsUtf8(char)
    PROVE  \E s \in Nat : IsSymbol(s) /\ Encodes(s, char)
<1> DEFINE a == char[1]
<1>1. char \in Seq(Bits8) /\ Len(char) \in Nat \ {0}
  BY EmptySeq DEF Parts8
<1>2. a \in Bits8 /\ a \in 0..255
  <2>1. 1 \in 1..Len(char)
    BY <1>1
  <2>2. a \in Bits8
    BY <1>1, <2>1
  <2> QED
    BY <2>2 DEF Bits8
<1>3. /\ Len(char) = LengthOf(a)
      /\ a \in 0..127 \/ a \in 194..244
      /\ Len(char) > 1 => /\ a = 224 => char[2] >= 160
                          /\ a = 237 => char[2] <= 159
                          /\ a = 240 => char[2] >= 144
                          /\ a = 244 => char[2] <= 143
  BY DEF IsUtf8
<1>4. \A j \in 2..Len(char) : char[j] \in 128..191
  BY DEF Trailed, IsTrailer
<1>5. LengthOf(a) = IF a < 128 THEN 1 ELSE IF a \in 192..223 THEN 2 ELSE IF a \in 224..239 THEN 3
                    ELSE IF a \in 240..247 THEN 4 ELSE 0
  BY <1>2 DEF LengthOf
<1> HIDE DEF a
<1>6. /\ Len(char) = 2 => a \in 194..223
      /\ Len(char) = 3 => a \in 224..239
      /\ Len(char) = 4 => a \in 240..244
  <2>1. Len(char) = LengthOf(a) /\ (a <= 127 \/ (a >= 194 /\ a <= 244))
    BY <1>2, <1>3
  <2> QED
    BY <1>2, <1>5, <2>1
<1>7. CASE Len(char) = 1
  <2>1. char = <<a>>
    BY <1>1, <1>7 DEF a
  <2>2. a \in 0..127 /\ a \in Nat
    BY <1>2, <1>3, <1>5, <1>7
  <2> QED
    BY <2>1, <2>2, OneByte
<1>8. CASE Len(char) = 2
  <2> DEFINE h == a - 192
             b == char[2] - 128
             s == 64 * h + b
  <2>1. a \in 194..223 /\ char[2] \in 128..191
    <3>1. a \in 194..223
      BY <1>8, <1>6
    <3>2. 2 \in 2..Len(char)
      BY <1>8
    <3> QED
      BY <1>4, <3>1, <3>2
  <2>2. h \in 0..31 /\ b \in 0..63 /\ s \in Nat /\ s > 127
    BY <2>1
  <2>3. char = <<192 + h, 128 + b>>
    <3>1. char = <<a, char[2]>>
      BY <1>1, <1>8 DEF a
    <3>2. a = 192 + h /\ char[2] = 128 + b
      BY <2>1
    <3> HIDE DEF h, b
    <3> QED
      BY <3>1, <3>2, Zenon
  <2> HIDE DEF h, b
  <2>4. IsSymbol(s) /\ Encodes(s, <<192 + h, 128 + b>>)
    BY <2>2, TwoBytes
  <2> HIDE DEF s
  <2> QED
    BY <2>2, <2>3, <2>4, Zenon
<1>9. CASE Len(char) = 3
  <2> DEFINE h == a - 224
             b == char[2] - 128
             c == char[3] - 128
             s == 64 * (64 * h + b) + c
  <2>1. a \in 224..239 /\ char[2] \in 128..191 /\ char[3] \in 128..191
    <3>1. a \in 224..239
      BY <1>9, <1>6
    <3>2. 2 \in 2..Len(char) /\ 3 \in 2..Len(char)
      BY <1>9
    <3> QED
      BY <1>4, <3>1, <3>2
  <2>2. h \in 0..15 /\ b \in 0..63 /\ c \in 0..63
    BY <2>1
  <2>3. (h = 0 => b >= 32) /\ (h = 13 => b <= 31)
    BY <1>3, <1>9, <2>1
  <2>4. char = <<224 + h, 128 + b, 128 + c>>
    <3>1. char = <<a, char[2], char[3]>>
      BY <1>1, <1>9 DEF a
    <3>2. a = 224 + h /\ char[2] = 128 + b /\ char[3] = 128 + c
      BY <2>1
    <3> HIDE DEF h, b, c
    <3> QED
      BY <3>1, <3>2, Zenon
  <2> HIDE DEF h, b, c
  <2>5. s \in Nat /\ Threes(s)
    BY <2>2, <2>3, SMT DEF Threes, IsSymbol
  <2>6. IsSymbol(s) /\ Encodes(s, <<224 + h, 128 + b, 128 + c>>)
    BY <2>2, <2>5, ThreeBytes
  <2> HIDE DEF s
  <2> QED
    BY <2>4, <2>5, <2>6, Zenon
<1>10. CASE Len(char) = 4
  <2> DEFINE h == a - 240
             b == char[2] - 128
             c == char[3] - 128
             d == char[4] - 128
             s == 64 * (64 * (64 * h + b) + c) + d
  <2>1. a \in 240..244 /\ char[2] \in 128..191 /\ char[3] \in 128..191 /\ char[4] \in 128..191
    <3>1. a \in 240..244
      BY <1>10, <1>6
    <3>2. 2 \in 2..Len(char) /\ 3 \in 2..Len(char) /\ 4 \in 2..Len(char)
      BY <1>10
    <3> QED
      BY <1>4, <3>1, <3>2
  <2>2. h \in 0..4 /\ b \in 0..63 /\ c \in 0..63 /\ d \in 0..63
    BY <2>1
  <2>3. (h = 0 => b >= 16) /\ (h = 4 => b <= 15)
    BY <1>3, <1>10, <2>1
  <2>4. char = <<240 + h, 128 + b, 128 + c, 128 + d>>
    <3>1. char = <<a, char[2], char[3], char[4]>>
      BY <1>1, <1>10 DEF a
    <3>2. a = 240 + h /\ char[2] = 128 + b /\ char[3] = 128 + c /\ char[4] = 128 + d
      BY <2>1
    <3> HIDE DEF h, b, c, d
    <3> QED
      BY <3>1, <3>2, Zenon
  <2> HIDE DEF h, b, c, d
  <2>5. s \in Nat /\ Fours(s)
    BY <2>2, <2>3, SMT DEF Fours
  <2>6. IsSymbol(s) /\ Encodes(s, <<240 + h, 128 + b, 128 + c, 128 + d>>)
    <3>1. /\ h \in 0..7 /\ b \in 0..63 /\ c \in 0..63 /\ d \in 0..63
          /\ s = 64 * (64 * (64 * h + b) + c) + d /\ Fours(s)
      BY <2>2, <2>5
    <3> HIDE DEF s
    <3> QED
      BY ONLY <3>1, FourBytes, ZenonT(30)
  <2> HIDE DEF s
  <2> QED
    BY <2>4, <2>5, <2>6, Zenon
<1> QED
  BY <1>1, <1>3, <1>5, <1>7, <1>8, <1>9, <1>10

------------------------------------------------------------------------------
(* utf8: there and back *)

\* What the characters of a text are cut into again.
Chars8 == {y \in Parts8 : Trailed(y) /\ ~IsTrailer(y[1])}

LEMMA CharacterAppended ==
    ASSUME NEW y \in Chars8, NEW t \in Seq(Bits8)
    PROVE  Characters(t \o y) = Append(Characters(t), y)
<1> DEFINE Adds(z) == \A u \in Seq(Bits8) : Characters(u \o z) = Append(Characters(u), z)
           T == {z \in Seq(Bits8) : z \in Chars8 => Adds(z)}
<1>1. <<>> \in T
  BY DEF Chars8, Parts8
<1>2. ASSUME NEW w \in Seq(Bits8), NEW c \in Bits8, w \in T PROVE Append(w, c) \in T
  <2> DEFINE z == Append(w, c)
  <2>1. z \in Seq(Bits8) /\ Len(z) = Len(w) + 1 /\ z[Len(w) + 1] = c /\ \A i \in 1..Len(w) : z[i] = w[i]
    BY AppendProperties
  <2>2. z = w \o <<c>>
    BY AppendIsConcat
  <2> HIDE DEF z
  <2>3. ASSUME z \in Chars8, NEW u \in Seq(Bits8) PROVE Characters(u \o z) = Append(Characters(u), z)
    <3> DEFINE C == Characters(u)
               v == u \o w
    <3>1. Trailed(z) /\ ~IsTrailer(z[1])
      BY <2>3 DEF Chars8
    <3>2. v \in Seq(Bits8) /\ u \o z = Append(v, c)
      <4>1. v \in Seq(Bits8) /\ u \o z = v \o <<c>>
        BY <2>2, ConcatProperties, ConcatAssociative
      <4> HIDE DEF v
      <4> QED
        BY <4>1, AppendIsConcat
    <3>3. C \in Seq(Parts8) /\ Characters(u \o z) = AddByte(Characters(v), c)
      <4> HIDE DEF v
      <4> QED
        BY <3>2, CharactersAppend
    <3> HIDE DEF C
    <3>4. CASE w = <<>>
      <4>1. v = u /\ z = <<c>>
        BY <2>1, <3>4
      <4>2. ~IsTrailer(c)
        BY <3>1, <4>1
      <4>3. AddByte(C, c) = Append(C, <<c>>)
        BY <3>3, <4>2, AddByteIs
      <4> QED
        BY <3>3, <4>1, <4>3, Zenon DEF C
    <3>5. CASE w # <<>>
      <4>1. Len(w) \in Nat \ {0}
        BY <3>5, EmptySeq
      <4>2. IsTrailer(c)
        <5>1. Len(w) + 1 \in 2..Len(z)
          BY <2>1, <4>1
        <5> QED
          BY <2>1, <3>1, <5>1 DEF Trailed
      <4>3. w \in Chars8
        <5>1. ~IsTrailer(w[1])
          BY <2>1, <3>1, <4>1
        <5>2. Trailed(w)
          <6> SUFFICES ASSUME NEW j \in 2..Len(w) PROVE IsTrailer(w[j])
            BY DEF Trailed
          <6>1. j \in 2..Len(z) /\ j \in 1..Len(w)
            BY <2>1, <4>1
          <6> QED
            BY <2>1, <3>1, <6>1 DEF Trailed
        <5>3. w \in Parts8
          BY <3>5 DEF Parts8
        <5> QED
          BY <5>1, <5>2, <5>3 DEF Chars8
      <4> DEFINE D == Append(C, w)
                 E == AddByte(D, c)
                 F == Append(C, z)
                 n == Len(C)
      <4>4. Characters(v) = D
        BY <1>2, <4>3 DEF C
      <4>5. w \in Parts8 /\ z \in Parts8
        BY <2>3, <4>3 DEF Chars8
      <4>6. D \in Seq(Parts8) /\ Len(D) = n + 1 /\ D[n + 1] = w /\ \A i \in 1..n : D[i] = C[i]
        BY <3>3, <4>5, AppendProperties
      <4>7. F \in Seq(Parts8) /\ Len(F) = n + 1 /\ F[n + 1] = z /\ \A i \in 1..n : F[i] = C[i]
        BY <3>3, <4>5, AppendProperties
      <4>8. n \in Nat
        BY <3>3
      <4> HIDE DEF D, F, n
      <4>9. D # <<>>
        BY <4>6, <4>8, EmptySeq
      <4>10. /\ E \in Seq(Parts8) /\ Len(E) = Len(D) /\ E[Len(D)] = Append(D[Len(D)], c)
             /\ \A i \in 1..(Len(D) - 1) : E[i] = D[i]
        BY <4>2, <4>6, <4>9, AddByteIs
      <4> HIDE DEF E
      <4>11. Len(E) = n + 1 /\ E[n + 1] = z /\ \A i \in 1..n : E[i] = D[i]
        <5>1. (n + 1) - 1 = n
          BY <4>8
        <5> QED
          BY <4>6, <4>10, <5>1 DEF z
      <4>12. ASSUME NEW i \in 1..(n + 1) PROVE E[i] = F[i]
        <5>1. i \in 1..n \/ i = n + 1
          BY <4>8
        <5> QED
          BY <4>6, <4>7, <4>11, <5>1
      <4>13. E = F
        BY <4>7, <4>10, <4>11, <4>12, SeqEqual
      <4> QED
        BY <3>3, <4>4, <4>13, Zenon DEF E, F, C
    <3> QED
      BY <3>4, <3>5
  <2> QED
    BY <2>1, <2>3 DEF z
<1> HIDE DEF T, Adds
<1>3. \A z \in Seq(Bits8) : z \in T
  BY <1>1, <1>2, AppendInduction
<1>4. y \in T
  BY <1>3 DEF Chars8, Parts8
<1> QED
  BY <1>4 DEF T, Adds

LEMMA CharactersOfParts ==
    ASSUME NEW E \in Seq(Chars8)
    PROVE  FlattenSeq(E) \in Seq(Bits8) /\ Characters(FlattenSeq(E)) = E
<1> DEFINE T == {F \in Seq(Chars8) : FlattenSeq(F) \in Seq(Bits8) /\ Characters(FlattenSeq(F)) = F}
<1>1. <<>> \in T
  <2>1. FlattenSeq(<<>>) = <<>>
    BY EmptySeq DEF FlattenSeq
  <2>2. Characters(FlattenSeq(<<>>)) = <<>>
    BY <2>1, CharactersEmpty, Zenon
  <2>3. <<>> \in Seq(Chars8) /\ <<>> \in Seq(Bits8)
    OBVIOUS
  <2> QED
    BY <2>1, <2>2, <2>3, Zenon
<1>2. ASSUME NEW F \in Seq(Chars8), NEW y \in Chars8, F \in T PROVE Append(F, y) \in T
  <2> DEFINE t == FlattenSeq(F)
             G == Append(F, y)
  <2>1. Chars8 \subseteq Seq(Bits8)
    BY DEF Chars8, Parts8
  <2>2. F \in Seq(Seq(Bits8)) /\ y \in Seq(Bits8)
    BY <2>1, SeqMonotonic
  <2>3. FlattenSeq(G) = t \o y
    BY <2>2, FlattenAppend
  <2>4. t \in Seq(Bits8) /\ Characters(t) = F
    BY <1>2
  <2> HIDE DEF t
  <2>5. Characters(t \o y) = G
    BY <2>4, CharacterAppended
  <2>6. t \o y \in Seq(Bits8) /\ G \in Seq(Chars8)
    BY <2>2, <2>4, ConcatProperties, AppendProperties
  <2> HIDE DEF G
  <2>7. G \in T
    BY <2>3, <2>5, <2>6
  <2> QED
    BY <2>7 DEF G
<1> HIDE DEF T
<1>3. \A F \in Seq(Chars8) : F \in T
  BY <1>1, <1>2, AppendInduction
<1> QED
  BY <1>3 DEF T

\* What is serialized of symbols only.
LEMMA SerializeIs ==
    ASSUME NEW symbols \in Seq(Nat), NEW result,
           NEW E, E = [i \in 1..Len(symbols) |-> Encode(symbols[i])]
    PROVE  /\ (\A i \in 1..Len(symbols) : IsSymbol(symbols[i])) =>
                 Serialize(symbols, result) =
                     [ok |-> TRUE, errno |-> "SUCCESS", result |-> result \o FlattenSeq(E)]
           /\ ~(\A i \in 1..Len(symbols) : IsSymbol(symbols[i])) =>
                 Serialize(symbols, result) = [ok |-> FALSE, errno |-> "UTF8_BADSYM", result |-> result]
<1> DEFINE n == Len(symbols)
<1>1. DOMAIN symbols = 1..n
  OBVIOUS
<1>2. ASSUME NEW i \in 1..n PROVE EstimateBufSize(symbols[i]) = 0 <=> ~IsSymbol(symbols[i])
  <2> DEFINE x == symbols[i]
  <2>1. x \in Nat
    OBVIOUS
  <2> HIDE DEF x
  <2>2. EstimateBufSize(x) = 0 <=> ~IsSymbol(x)
    BY <2>1, EstimateIs
  <2> QED
    BY <2>2 DEF x
<1> HIDE DEF n
<1>3. (\E i \in DOMAIN symbols : EstimateBufSize(symbols[i]) = 0) <=> ~(\A i \in 1..n : IsSymbol(symbols[i]))
  BY <1>1, <1>2, Zenon
<1>4. E = [i \in DOMAIN symbols |-> Encode(symbols[i])]
  BY <1>1, Zenon DEF n
<1> QED
  BY <1>3, <1>4, Zenon DEF Serialize, n

\* The bytes of symbols are their characters.
SpellsOut(E, symbols) ==
    \A i \in 1..Len(symbols) : /\ E[i] = Encode(symbols[i]) /\ Right(E[i])
                               /\ SymbolOf(E[i]) = symbols[i]
                               /\ Len(E[i]) = EstimateBufSize(symbols[i])

LEMMA EncodedSymbols ==
    ASSUME NEW symbols \in Seq(Nat), \A i \in 1..Len(symbols) : IsSymbol(symbols[i]),
           NEW E, E = [i \in 1..Len(symbols) |-> Encode(symbols[i])]
    PROVE  E \in Seq(Chars8) /\ Len(E) = Len(symbols) /\ SpellsOut(E, symbols)
<1> DEFINE n == Len(symbols)
<1>1. n \in Nat /\ \A i \in 1..n : symbols[i] \in Nat /\ IsSymbol(symbols[i])
  OBVIOUS
<1>2. \A i \in 1..n : Encodes(symbols[i], Encode(symbols[i]))
  <2> SUFFICES ASSUME NEW i \in 1..n PROVE Encodes(symbols[i], Encode(symbols[i]))
    OBVIOUS
  <2> DEFINE x == symbols[i]
  <2>1. x \in Nat /\ IsSymbol(x)
    BY <1>1
  <2> HIDE DEF x
  <2>2. Encodes(x, Encode(x))
    BY <2>1, SymbolEncodes
  <2> QED
    BY <2>2 DEF x
<1> HIDE DEF n
<1>3. \A i \in 1..n : /\ Encode(symbols[i]) \in Chars8 /\ Right(Encode(symbols[i]))
                      /\ SymbolOf(Encode(symbols[i])) = symbols[i]
                      /\ Len(Encode(symbols[i])) = EstimateBufSize(symbols[i])
  BY <1>2, Zenon DEF Encodes, Chars8
<1>4. E = [i \in 1..n |-> Encode(symbols[i])]
  BY DEF n
<1>5. \A i \in 1..n : E[i] = Encode(symbols[i])
  BY <1>4, Zenon
<1>6. \A i \in 1..n : E[i] \in Chars8
  BY <1>3, <1>5, Zenon
<1>7. E \in [1..n -> Chars8]
  BY <1>4, <1>6
<1>8. E \in Seq(Chars8) /\ Len(E) = n
  BY <1>1, <1>7
<1>9. \A i \in 1..n : /\ E[i] = Encode(symbols[i]) /\ Right(E[i])
                      /\ SymbolOf(E[i]) = symbols[i]
                      /\ Len(E[i]) = EstimateBufSize(symbols[i])
  BY <1>3, <1>5, Zenon
<1> QED
  BY <1>8, <1>9, Zenon DEF n, SpellsOut

\* The bytes of symbols deserialize to the symbols.
LEMMA DeserializesBack ==
    ASSUME NEW symbols \in Seq(Nat), \A i \in 1..Len(symbols) : IsSymbol(symbols[i]),
           NEW E, E = [i \in 1..Len(symbols) |-> Encode(symbols[i])]
    PROVE  FlattenSeq(E) \in Seq(Bits8) /\ Deserialize(FlattenSeq(E), <<>>).result = symbols
<1> DEFINE n == Len(symbols)
           t == FlattenSeq(E)
           d == Deserialize(t, <<>>)
<1>1. /\ E \in Seq(Chars8) /\ Len(E) = n
      /\ \A i \in 1..n : Right(E[i]) /\ SymbolOf(E[i]) = symbols[i]
  <2>1. E \in Seq(Chars8) /\ Len(E) = n /\ SpellsOut(E, symbols)
    BY EncodedSymbols
  <2> QED
    BY <2>1, Zenon DEF SpellsOut
<1>2. t \in Seq(Bits8) /\ Characters(t) = E
  BY <1>1, CharactersOfParts
<1> HIDE DEF t
<1>3. E \in Seq(Parts8) /\ d \in DeserStates /\ AfterBytes(E, d)
  BY <1>2, AlwaysAfterBytes
<1> HIDE DEF d
<1>4. d.result = [i \in 1..Len(E) |-> SymbolOf(E[i])]
  BY <1>1, <1>3, AllRight
<1>5. symbols = [i \in 1..n |-> symbols[i]]
  OBVIOUS
<1> HIDE DEF n
<1>6. d.result = symbols
  BY <1>1, <1>4, <1>5
<1> QED
  BY <1>2, <1>6 DEF t, d

LEMMA RoundTripHolds ==
    ASSUME NEW symbols \in Seq(Nat), NEW s, s = Serialize(symbols, Before)
    PROVE  /\ s.ok <=> \A i \in 1..Len(symbols) : IsSymbol(symbols[i])
           /\ ~s.ok => s.result = Before
           /\ s.ok => /\ Deserialize(Tail(s.result), <<>>).result = symbols
                      /\ \A i \in 1..Len(symbols) : Len(Encode(symbols[i])) = EstimateBufSize(symbols[i])
           /\ Len(symbols) = 1 => SerializeSymbol(symbols[1], Before) = s
<1> DEFINE E == [i \in 1..Len(symbols) |-> Encode(symbols[i])]
           All == \A i \in 1..Len(symbols) : IsSymbol(symbols[i])
           t == FlattenSeq(E)
<1>1. /\ All => s = [ok |-> TRUE, errno |-> "SUCCESS", result |-> Before \o t]
      /\ ~All => s = [ok |-> FALSE, errno |-> "UTF8_BADSYM", result |-> Before]
  BY SerializeIs, Zenon
<1> HIDE DEF t, All
<1>2. s.ok <=> All
  BY <1>1
<1>3. ~s.ok => s.result = Before
  BY <1>1
<1>4. ASSUME All
      PROVE  /\ Deserialize(Tail(s.result), <<>>).result = symbols
             /\ \A i \in 1..Len(symbols) : Len(Encode(symbols[i])) = EstimateBufSize(symbols[i])
  <2>1. t \in Seq(Bits8) /\ Deserialize(t, <<>>).result = symbols
    BY <1>4, DeserializesBack, Zenon DEF t, All
  <2>2. \A i \in 1..Len(symbols) : E[i] = Encode(symbols[i]) /\ Len(E[i]) = EstimateBufSize(symbols[i])
    <3>1. \A i \in 1..Len(symbols) : IsSymbol(symbols[i])
      BY <1>4 DEF All
    <3>2. E = [i \in 1..Len(symbols) |-> Encode(symbols[i])]
      OBVIOUS
    <3> HIDE DEF E
    <3>3. SpellsOut(E, symbols)
      BY ONLY symbols \in Seq(Nat), <3>1, <3>2, EncodedSymbols
    <3> QED
      BY <3>3, Zenon DEF SpellsOut
  <2>3. Tail(Before \o t) = t
    <3> DEFINE v == Before \o t
    <3>1. Before \in Seq(Nat) /\ t \in Seq(Nat) /\ Len(Before) = 1
      <4>1. Bits8 \subseteq Nat
        BY DEF Bits8
      <4>2. t \in Seq(Nat)
        BY <2>1, <4>1, SeqMonotonic
      <4>3. Before \in Seq(Nat) /\ Len(Before) = 1
        BY DEF Before
      <4> QED
        BY <4>2, <4>3
    <3>2. /\ v \in Seq(Nat) /\ Len(v) = 1 + Len(t)
          /\ \A i \in 1..(1 + Len(t)) : v[i] = IF i <= 1 THEN Before[i] ELSE t[i - 1]
      <4>1. /\ v \in Seq(Nat) /\ Len(v) = Len(Before) + Len(t)
            /\ \A i \in 1..(Len(Before) + Len(t)) : v[i] = IF i <= Len(Before) THEN Before[i] ELSE t[i - Len(Before)]
        BY <3>1, ConcatProperties, Zenon
      <4> HIDE DEF v
      <4> QED
        BY <3>1, <4>1
    <3>3. Len(t) \in Nat
      BY <2>1
    <3> HIDE DEF v
    <3>4. v # <<>>
      BY <3>2, <3>3, EmptySeq
    <3>5. Tail(v) \in Seq(Nat) /\ Len(Tail(v)) = Len(v) - 1 /\ \A i \in 1..Len(Tail(v)) : Tail(v)[i] = v[i + 1]
      BY <3>2, <3>4, HeadTailProperties
    <3>6. Len(Tail(v)) = Len(t)
      BY <3>2, <3>3, <3>5
    <3>7. ASSUME NEW i \in 1..Len(Tail(v)) PROVE Tail(v)[i] = t[i]
      <4>1. i + 1 \in 1..(1 + Len(t)) /\ ~(i + 1 <= 1) /\ (i + 1) - 1 = i
        BY <3>3, <3>6
      <4>2. v[i + 1] = t[i]
        BY <3>2, <4>1
      <4> QED
        BY <3>5, <4>2
    <3>8. Tail(v) = t
      BY <3>1, <3>5, <3>6, <3>7, SeqEqual
    <3> QED
      BY <3>8 DEF v
  <2>4. s.result = Before \o t
    BY <1>1, <1>4
  <2> QED
    BY <2>1, <2>2, <2>3, <2>4, Zenon
<1>5. ASSUME Len(symbols) = 1 PROVE SerializeSymbol(symbols[1], Before) = s
  <2> DEFINE x == symbols[1]
  <2>1. x \in Nat /\ (All <=> IsSymbol(x))
    <3>1. 1..Len(symbols) = {1}
      BY <1>5
    <3>2. x \in Nat
      BY ONLY <1>5, symbols \in Seq(Nat), SMTT(30)
    <3> QED
      BY <3>1, <3>2, Zenon DEF All
  <2>2. E = <<Encode(x)>>
    <3> HIDE DEF All
    <3> QED
      BY ONLY <1>5, symbols \in Seq(Nat), SMTT(30)
  <2> HIDE DEF x, E
  <2>3. IsSymbol(x) => t = Encode(x)
    <3> SUFFICES ASSUME IsSymbol(x) PROVE t = Encode(x)
      OBVIOUS
    <3> DEFINE y == Encode(x)
    <3>1. y \in Seq(Bits8)
      BY <2>1, SymbolEncodes DEF Encodes, Parts8
    <3> HIDE DEF y
    <3>2. <<>> \in Seq(Seq(Bits8)) /\ Append(<<>>, y) = <<y>>
      BY <3>1
    <3>3. FlattenSeq(<<y>>) = FlattenSeq(<<>>) \o y
      BY <3>1, <3>2, FlattenAppend
    <3>4. FlattenSeq(<<>>) = <<>>
      BY EmptySeq DEF FlattenSeq
    <3>5. <<>> \o y = y
      BY <3>1, ConcatEmptySeq
    <3> QED
      BY <2>2, <3>3, <3>4, <3>5, Zenon DEF y, t
  <2>4. (x > 1114111 \/ IsSurrogate(x)) <=> ~IsSymbol(x)
    BY <2>1, SMT DEF IsSymbol, IsSurrogate
  <2>5. CASE IsSymbol(x)
    <3>1. ~(x > 1114111 \/ IsSurrogate(x))
      BY <2>4, <2>5, SMT
    <3>2. SerializeSymbol(x, Before) = [ok |-> TRUE, errno |-> "SUCCESS", result |-> Before \o Encode(x)]
      BY <3>1, SMT DEF SerializeSymbol
    <3> QED
      BY <1>1, <2>1, <2>3, <2>5, <3>2, Zenon DEF x
  <2>6. CASE ~IsSymbol(x)
    <3>1. x > 1114111 \/ IsSurrogate(x)
      BY <2>4, <2>6, SMT
    <3>2. SerializeSymbol(x, Before) = [ok |-> FALSE, errno |-> "UTF8_BADSYM", result |-> Before]
      BY <3>1, SMT DEF SerializeSymbol
    <3> QED
      BY <1>1, <2>1, <2>6, <3>2, Zenon DEF x
  <2> QED
    BY <2>5, <2>6
<1> QED
  BY <1>2, <1>3, <1>4, <1>5, Zenon DEF All

\* What RFC 3629 allows is accepted, and serializes to itself.
LEMMA AllowedIsAccepted ==
    ASSUME NEW bytes \in Seq(Bits8), NEW C, C = Characters(bytes), \A i \in 1..Len(C) : IsUtf8(C[i]),
           NEW d, d = Deserialize(bytes, <<>>)
    PROVE  d.ok /\ Serialize(d.result, <<>>).result = bytes
<1> DEFINE n == Len(C)
           r == d.result
           E == [i \in 1..Len(r) |-> Encode(r[i])]
<1>1. C \in Seq(Parts8) /\ d \in DeserStates /\ AfterBytes(C, d) /\ FlattenSeq(C) = bytes
  BY AlwaysAfterBytes, CharactersFlatten
<1>2. \A i \in 1..n : Trailed(C[i])
  BY CharactersTrailed
<1>3. n \in Nat
  BY <1>1
<1>4. ASSUME NEW i \in 1..n
      PROVE  /\ Right(C[i]) /\ IsSymbol(SymbolOf(C[i])) /\ SymbolOf(C[i]) \in Nat
             /\ Encode(SymbolOf(C[i])) = C[i]
  <2> DEFINE char == C[i]
  <2>1. char \in Parts8 /\ Trailed(char) /\ IsUtf8(char)
    BY <1>1, <1>2
  <2> HIDE DEF char
  <2>2. PICK s \in Nat : IsSymbol(s) /\ Encodes(s, char)
    BY <2>1, AllowedEncodes
  <2>3. Right(char) /\ SymbolOf(char) = s /\ Encode(s) = char
    BY <2>2, Zenon DEF Encodes
  <2> QED
    BY <2>2, <2>3 DEF char
<1>5. d.ok /\ r = [i \in 1..n |-> SymbolOf(C[i])]
  BY <1>1, <1>4, AllRight
<1> HIDE DEF r, n
<1>6. \A i \in 1..n : r[i] = SymbolOf(C[i])
  BY <1>5, Zenon
<1>7. r \in Seq(Nat) /\ Len(r) = n
  BY <1>1, <1>3, <1>5 DEF DeserStates, r
<1>8. \A i \in 1..Len(r) : IsSymbol(r[i])
  BY <1>4, <1>6, <1>7
<1>9. Serialize(r, <<>>) = [ok |-> TRUE, errno |-> "SUCCESS", result |-> <<>> \o FlattenSeq(E)]
  BY <1>7, <1>8, SerializeIs, Zenon
<1>10. E = C
  <2>1. \A i \in 1..n : Encode(r[i]) = C[i]
    BY <1>4, <1>6
  <2>2. C = [i \in 1..n |-> C[i]]
    BY <1>1 DEF n
  <2>3. [i \in 1..n |-> Encode(r[i])] = C
    BY <2>1, <2>2
  <2> QED
    BY <1>7, <2>3, Zenon
<1> HIDE DEF E
<1>11. <<>> \o FlattenSeq(E) = bytes
  BY <1>1, <1>10, ConcatEmptySeq
<1> QED
  BY <1>5, <1>9, <1>11 DEF r

\* The two halves of the definition, each for its inputs.
LEMMA RoundTripAsSpecified ==
    ASSUME InputType, subject = "symbols"
    PROVE  Utf8RoundTrip
<1>1. Values("symbols") = Nat
  BY DEF Values
<1>2. input \in Seq(Nat) /\ DOMAIN input = 1..Len(input)
  BY <1>1 DEF InputType
<1> DEFINE s == Serialize(input, Before)
<1>3. /\ s.ok <=> \A i \in DOMAIN input : IsSymbol(input[i])
      /\ ~s.ok => s.result = Before
      /\ s.ok => /\ Deserialize(Tail(s.result), <<>>).result = input
                 /\ \A i \in DOMAIN input : Len(Encode(input[i])) = EstimateBufSize(input[i])
      /\ Len(input) = 1 => SerializeSymbol(input[1], Before) = s
  <2> HIDE DEF s
  <2>1. s = Serialize(input, Before)
    BY DEF s
  <2>2. /\ s.ok <=> \A i \in 1..Len(input) : IsSymbol(input[i])
        /\ ~s.ok => s.result = Before
        /\ s.ok => /\ Deserialize(Tail(s.result), <<>>).result = input
                   /\ \A i \in 1..Len(input) : Len(Encode(input[i])) = EstimateBufSize(input[i])
        /\ Len(input) = 1 => SerializeSymbol(input[1], Before) = s
    BY <1>2, <2>1, RoundTripHolds, Zenon
  <2> QED
    BY <1>2, <2>2, Zenon
<1>4. Utf8RoundTrip <=> (subject = "symbols" =>
          /\ s.ok <=> \A i \in DOMAIN input : IsSymbol(input[i])
          /\ ~s.ok => s.result = Before
          /\ s.ok => /\ Deserialize(Tail(s.result), <<>>).result = input
                     /\ \A i \in DOMAIN input : Len(Encode(input[i])) = EstimateBufSize(input[i])
          /\ Len(input) = 1 => SerializeSymbol(input[1], Before) = s)
  BY SMT DEF Utf8RoundTrip, IsSymbol
<1> HIDE DEF s
<1> QED
  BY <1>3, <1>4, Zenon

LEMMA AcceptsAsSpecified ==
    ASSUME InputType, subject = "utf8"
    PROVE  Utf8Accepts
<1>1. Values("utf8") = Bits8
  BY DEF Values, Bits8
<1>2. input \in Seq(Bits8)
  BY <1>1 DEF InputType
<1> DEFINE C == Characters(input)
           d == Deserialize(input, <<>>)
           W == Wrong(C)
<1>3. C \in Seq(Parts8) /\ d \in DeserStates /\ AfterBytes(C, d)
  BY <1>2, AlwaysAfterBytes
<1>4. (\A i \in DOMAIN C : IsUtf8(C[i])) => d.ok /\ Serialize(d.result, <<>>).result = input
  <2>1. DOMAIN C = 1..Len(C)
    BY <1>3
  <2> QED
    BY <1>2, <2>1, AllowedIsAccepted, Zenon
<1>5. /\ d.ok <=> W = {}
      /\ ~d.ok => d.errno = IF Len(C[Min(W)]) < LengthOf(C[Min(W)][1]) THEN "UTF8_BADTRAIL" ELSE "UTF8_BADHEAD"
  <2> HIDE DEF C, d
  <2> QED
    BY <1>3, FirstWrong, Zenon
<1> QED
  BY <1>4, <1>5, Zenon DEF Utf8Accepts, Wrong

\* Of symbols and of bytes, for texts of any length: what is serialized
\* deserializes to itself, what RFC 3629 allows is accepted and serializes to
\* itself, and what is refused is refused for the first character that is
\* longer than its head says, or is cut short by another one.
THEOREM Utf8Correct == RfcSpec => []Utf8AsSpecified
<1>1. InputType => Utf8AsSpecified
  <2>1. subject # "symbols" => Utf8RoundTrip
    BY SMT DEF Utf8RoundTrip
  <2>2. subject # "utf8" => Utf8Accepts
    BY SMT DEF Utf8Accepts
  <2> QED
    BY RoundTripAsSpecified, AcceptsAsSpecified, <2>1, <2>2, Zenon DEF Utf8AsSpecified
<1> QED
  BY <1>1, InputTypeInvariance, PTL

------------------------------------------------------------------------------
(* Escapes: the loops over a text *)

\* One turn of each of the four loops, and the values they go through together.
MeaningNext(t, i, out) == IF InEscape(t, i) THEN out ELSE Append(out, StandsFor(t, i))
DelimitersNext(c, out) == IF c \in reserved THEN Append(out, c) ELSE out

StartOfLoops == [decode |-> StartOfDecode, decoded |-> [escape |-> <<>>, out |-> <<>>],
                 meaning |-> <<>>, delimiters |-> <<>>]
Turn(t, i, s) == [decode |-> DecodeNext(s.decode, t[i], FALSE), decoded |-> DecodedNext(s.decoded, t[i]),
                  meaning |-> MeaningNext(t, i, s.meaning),
                  delimiters |-> DelimitersNext(t[i], s.delimiters)]

IsRun(f, t) ==
    f = [i \in 0..Len(t) |-> IF i = 0 THEN StartOfLoops ELSE Turn(t, i, f[i - 1])]

\* The loops' values exist, for a text of any length.
LEMMA RunExists ==
    ASSUME NEW t \in Seq(Nat)
    PROVE  \E f : IsRun(f, t)
<1> DEFINE Upto(f, m) == f = [i \in 0..m |-> IF i = 0 THEN StartOfLoops ELSE Turn(t, i, f[i - 1])]
           T == {m \in Nat : \E f : Upto(f, m)}
<1>1. 0 \in T
  <2> DEFINE f == [i \in 0..0 |-> StartOfLoops]
  <2>1. Upto(f, 0)
    OBVIOUS
  <2> HIDE DEF Upto
  <2> QED
    BY <2>1
<1>2. ASSUME NEW m \in Nat, m \in T PROVE m + 1 \in T
  <2>1. PICK f : Upto(f, m)
    BY <1>2
  <2>2. \A i \in 0..m : f[i] = IF i = 0 THEN StartOfLoops ELSE Turn(t, i, f[i - 1])
    BY <2>1
  <2> DEFINE last == Turn(t, m + 1, f[m])
             h == [i \in 0..(m + 1) |-> IF i = m + 1 THEN last ELSE f[i]]
  <2> HIDE DEF Upto, T, last
  <2>3. \A i \in 0..m : h[i] = f[i]
    OBVIOUS
  <2>4. h[m + 1] = last /\ h = [i \in 0..(m + 1) |-> h[i]]
    OBVIOUS
  <2> HIDE DEF h
  <2>5. ASSUME NEW i \in 0..(m + 1)
        PROVE  h[i] = IF i = 0 THEN StartOfLoops ELSE Turn(t, i, h[i - 1])
    <3>1. CASE i = m + 1
      <4>1. i - 1 = m /\ i # 0 /\ h[m] = f[m]
        BY <2>3, <3>1
      <4> QED
        BY <2>4, <3>1, <4>1, Zenon DEF last
    <3>2. CASE i # m + 1
      <4>1. i \in 0..m /\ (i # 0 => i - 1 \in 0..m)
        BY <3>2
      <4>2. h[i] = f[i] /\ (i # 0 => h[i - 1] = f[i - 1])
        BY <2>3, <4>1
      <4> QED
        BY <2>2, <4>1, <4>2, Zenon
    <3> QED
      BY <3>1, <3>2
  <2>6. Upto(h, m + 1)
    BY <2>4, <2>5, Zenon DEF Upto
  <2> QED
    BY <2>6 DEF T
<1> HIDE DEF T
<1>3. Len(t) \in T
  BY <1>1, <1>2, SetInduction, LenProperties
<1> QED
  BY <1>3 DEF T, IsRun

\* The loops end with what the operators return.
EndsAs(F, t) ==
    /\ F[0] = StartOfLoops
    /\ \A i \in 1..Len(t) : /\ F[i].decode = DecodeNext(F[i - 1].decode, t[i], FALSE)
                            /\ F[i].decoded = DecodedNext(F[i - 1].decoded, t[i])
                            /\ F[i].meaning = MeaningNext(t, i, F[i - 1].meaning)
                            /\ F[i].delimiters = DelimitersNext(t[i], F[i - 1].delimiters)
    /\ F[Len(t)].decode = EndOfDecode(t, FALSE)
    /\ F[Len(t)].decoded = EndOfDecoded(t)
    /\ F[Len(t)].meaning = Meaning(t)
    /\ F[Len(t)].delimiters = Delimiters(t)

\* The four loops have a common run that ends with what the operators return.
LEMMA RunEnds ==
    ASSUME NEW t \in Seq(Nat)
    PROVE  \E F : EndsAs(F, t)
<1> DEFINE n == Len(t)
<1>1. n \in Nat
  OBVIOUS
<1>2. PICK F : IsRun(F, t)
  BY RunExists
<1> USE DEF IsRun
<1>3. F[0] = StartOfLoops
  BY <1>2, <1>1
<1>4. \A i \in 1..n : F[i] = Turn(t, i, F[i - 1])
  BY <1>2, <1>1
<1>5. \A i \in 1..n : /\ F[i].decode = DecodeNext(F[i - 1].decode, t[i], FALSE)
                     /\ F[i].decoded = DecodedNext(F[i - 1].decoded, t[i])
                     /\ F[i].meaning = MeaningNext(t, i, F[i - 1].meaning)
                     /\ F[i].delimiters = DelimitersNext(t[i], F[i - 1].delimiters)
  <2> SUFFICES ASSUME NEW i \in 1..n
               PROVE  /\ F[i].decode = DecodeNext(F[i - 1].decode, t[i], FALSE)
                      /\ F[i].decoded = DecodedNext(F[i - 1].decoded, t[i])
                      /\ F[i].meaning = MeaningNext(t, i, F[i - 1].meaning)
                      /\ F[i].delimiters = DelimitersNext(t[i], F[i - 1].delimiters)
    BY Zenon
  <2> DEFINE s == F[i - 1]
  <2>1. F[i] = Turn(t, i, s)
    BY <1>4
  <2> HIDE DEF s
  <2>2. /\ F[i].decode = DecodeNext(s.decode, t[i], FALSE)
        /\ F[i].decoded = DecodedNext(s.decoded, t[i])
        /\ F[i].meaning = MeaningNext(t, i, s.meaning)
        /\ F[i].delimiters = DelimitersNext(t[i], s.delimiters)
    <3> DEFINE x == Turn(t, i, s)
    <3>1. /\ x.decode = DecodeNext(s.decode, t[i], FALSE)
          /\ x.decoded = DecodedNext(s.decoded, t[i])
          /\ x.meaning = MeaningNext(t, i, s.meaning)
          /\ x.delimiters = DelimitersNext(t[i], s.delimiters)
      BY DEF Turn
    <3>2. F[i] = x
      BY <2>1
    <3> HIDE DEF x
    <3> QED
      BY <3>1, <3>2
  <2> QED
    BY <2>2, Zenon DEF s
<1> HIDE DEF n
<1>6. F[n].decode = EndOfDecode(t, FALSE)
  <2> DEFINE Is(f) == f = [i \in 0..n |-> IF i = 0 THEN StartOfDecode ELSE DecodeNext(f[i - 1], t[i], FALSE)]
             f == [i \in 0..n |-> F[i].decode]
             chosen == CHOOSE g : Is(g)
  <2>1. EndOfDecode(t, FALSE) = chosen[n]
    BY Zenon DEF EndOfDecode, n
  <2>2. Is(f)
    <3>1. ASSUME NEW i \in 0..n PROVE f[i] = IF i = 0 THEN StartOfDecode ELSE DecodeNext(f[i - 1], t[i], FALSE)
      <4>1. CASE i = 0
        BY <1>3, <4>1 DEF StartOfLoops
      <4>2. CASE i # 0
        <5>1. i \in 1..n /\ i - 1 \in 0..n
          BY <1>1, <4>2
        <5>2. F[i].decode = DecodeNext(F[i - 1].decode, t[i], FALSE)
          BY <1>5, <5>1, Zenon
        <5> QED
          BY <4>2, <5>1, <5>2, Zenon
      <4> QED
        BY <4>1, <4>2
    <3>2. f = [i \in 0..n |-> f[i]]
      OBVIOUS
    <3> HIDE DEF f
    <3> QED
      BY <3>1, <3>2, Zenon
  <2> HIDE DEF f, Is
  <2>3. Is(chosen)
    BY <2>2, Zenon
  <2>4. /\ chosen[0] = f[0]
        /\ \A i \in 1..n : chosen[i - 1] = f[i - 1] => chosen[i] = f[i]
    <3> HIDE DEF chosen
    <3>1. 0 \in 0..n
      BY <1>1
    <3>2. \A i \in 1..n : i \in 0..n /\ i # 0
      BY <1>1
    <3> USE <2>2, <2>3 DEF Is
    <3>3. chosen[0] = StartOfDecode /\ f[0] = StartOfDecode
      BY <3>1, Zenon
    <3> QED
      BY <3>2, <3>3, Zenon
  <2> HIDE DEF chosen
  <2>5. chosen[n] = f[n]
    BY <1>1, <2>4, LoopsAgree, Zenon
  <2>6. f[n] = F[n].decode
    BY <1>1 DEF f
  <2> QED
    BY <2>1, <2>5, <2>6, Zenon
<1>7. F[n].decoded = EndOfDecoded(t)
  <2> DEFINE Is(f) == f = [i \in 0..n |-> IF i = 0 THEN [escape |-> <<>>, out |-> <<>>] ELSE DecodedNext(f[i - 1], t[i])]
             f == [i \in 0..n |-> F[i].decoded]
             chosen == CHOOSE g : Is(g)
  <2>1. EndOfDecoded(t) = chosen[n]
    BY Zenon DEF EndOfDecoded, n
  <2>2. Is(f)
    <3>1. ASSUME NEW i \in 0..n PROVE f[i] = IF i = 0 THEN [escape |-> <<>>, out |-> <<>>] ELSE DecodedNext(f[i - 1], t[i])
      <4>1. CASE i = 0
        BY <1>3, <4>1 DEF StartOfLoops
      <4>2. CASE i # 0
        <5>1. i \in 1..n /\ i - 1 \in 0..n
          BY <1>1, <4>2
        <5>2. F[i].decoded = DecodedNext(F[i - 1].decoded, t[i])
          BY <1>5, <5>1, Zenon
        <5> QED
          BY <4>2, <5>1, <5>2, Zenon
      <4> QED
        BY <4>1, <4>2
    <3>2. f = [i \in 0..n |-> f[i]]
      OBVIOUS
    <3> HIDE DEF f
    <3> QED
      BY <3>1, <3>2, Zenon
  <2> HIDE DEF f, Is
  <2>3. Is(chosen)
    BY <2>2, Zenon
  <2>4. /\ chosen[0] = f[0]
        /\ \A i \in 1..n : chosen[i - 1] = f[i - 1] => chosen[i] = f[i]
    <3> HIDE DEF chosen
    <3>1. 0 \in 0..n
      BY <1>1
    <3>2. \A i \in 1..n : i \in 0..n /\ i # 0
      BY <1>1
    <3> USE <2>2, <2>3 DEF Is
    <3>3. chosen[0] = [escape |-> <<>>, out |-> <<>>] /\ f[0] = [escape |-> <<>>, out |-> <<>>]
      BY <3>1, Zenon
    <3> QED
      BY <3>2, <3>3, Zenon
  <2> HIDE DEF chosen
  <2>5. chosen[n] = f[n]
    BY <1>1, <2>4, LoopsAgree, Zenon
  <2>6. f[n] = F[n].decoded
    BY <1>1 DEF f
  <2> QED
    BY <2>1, <2>5, <2>6, Zenon
<1>8. F[n].meaning = Meaning(t)
  <2> DEFINE Is(f) == f = [i \in 0..n |-> IF i = 0 THEN <<>> ELSE MeaningNext(t, i, f[i - 1])]
             f == [i \in 0..n |-> F[i].meaning]
             chosen == CHOOSE g : Is(g)
  <2>1. Meaning(t) = chosen[n]
    BY Zenon DEF Meaning, MeaningNext, n
  <2>2. Is(f)
    <3>1. ASSUME NEW i \in 0..n PROVE f[i] = IF i = 0 THEN <<>> ELSE MeaningNext(t, i, f[i - 1])
      <4>1. CASE i = 0
        BY <1>3, <4>1 DEF StartOfLoops
      <4>2. CASE i # 0
        <5>1. i \in 1..n /\ i - 1 \in 0..n
          BY <1>1, <4>2
        <5>2. F[i].meaning = MeaningNext(t, i, F[i - 1].meaning)
          BY <1>5, <5>1, Zenon
        <5> QED
          BY <4>2, <5>1, <5>2, Zenon
      <4> QED
        BY <4>1, <4>2
    <3>2. f = [i \in 0..n |-> f[i]]
      OBVIOUS
    <3> HIDE DEF f
    <3> QED
      BY <3>1, <3>2, Zenon
  <2> HIDE DEF f, Is
  <2>3. Is(chosen)
    BY <2>2, Zenon
  <2>4. /\ chosen[0] = f[0]
        /\ \A i \in 1..n : chosen[i - 1] = f[i - 1] => chosen[i] = f[i]
    <3> HIDE DEF chosen
    <3>1. 0 \in 0..n
      BY <1>1
    <3>2. \A i \in 1..n : i \in 0..n /\ i # 0
      BY <1>1
    <3> USE <2>2, <2>3 DEF Is
    <3>3. chosen[0] = <<>> /\ f[0] = <<>>
      BY <3>1, Zenon
    <3> QED
      BY <3>2, <3>3, Zenon
  <2> HIDE DEF chosen
  <2>5. chosen[n] = f[n]
    BY <1>1, <2>4, LoopsAgree, Zenon
  <2>6. f[n] = F[n].meaning
    BY <1>1 DEF f
  <2> QED
    BY <2>1, <2>5, <2>6, Zenon
<1>9. F[n].delimiters = Delimiters(t)
  <2> DEFINE Is(f) == f = [i \in 0..n |-> IF i = 0 THEN <<>> ELSE DelimitersNext(t[i], f[i - 1])]
             f == [i \in 0..n |-> F[i].delimiters]
             chosen == CHOOSE g : Is(g)
  <2>1. Delimiters(t) = chosen[n]
    BY Zenon DEF Delimiters, DelimitersNext, n
  <2>2. Is(f)
    <3>1. ASSUME NEW i \in 0..n PROVE f[i] = IF i = 0 THEN <<>> ELSE DelimitersNext(t[i], f[i - 1])
      <4>1. CASE i = 0
        BY <1>3, <4>1 DEF StartOfLoops
      <4>2. CASE i # 0
        <5>1. i \in 1..n /\ i - 1 \in 0..n
          BY <1>1, <4>2
        <5>2. F[i].delimiters = DelimitersNext(t[i], F[i - 1].delimiters)
          BY <1>5, <5>1, Zenon
        <5> QED
          BY <4>2, <5>1, <5>2, Zenon
      <4> QED
        BY <4>1, <4>2
    <3>2. f = [i \in 0..n |-> f[i]]
      OBVIOUS
    <3> HIDE DEF f
    <3> QED
      BY <3>1, <3>2, Zenon
  <2> HIDE DEF f, Is
  <2>3. Is(chosen)
    BY <2>2, Zenon
  <2>4. /\ chosen[0] = f[0]
        /\ \A i \in 1..n : chosen[i - 1] = f[i - 1] => chosen[i] = f[i]
    <3> HIDE DEF chosen
    <3>1. 0 \in 0..n
      BY <1>1
    <3>2. \A i \in 1..n : i \in 0..n /\ i # 0
      BY <1>1
    <3> USE <2>2, <2>3 DEF Is
    <3>3. chosen[0] = <<>> /\ f[0] = <<>>
      BY <3>1, Zenon
    <3> QED
      BY <3>2, <3>3, Zenon
  <2> HIDE DEF chosen
  <2>5. chosen[n] = f[n]
    BY <1>1, <2>4, LoopsAgree, Zenon
  <2>6. f[n] = F[n].delimiters
    BY <1>1 DEF f
  <2> QED
    BY <2>1, <2>5, <2>6, Zenon
<1> QED
  BY <1>3, <1>5, <1>6, <1>7, <1>8, <1>9, Zenon DEF EndsAs, n

\* Of a longer text the loops make one turn more.
LEMMA LoopsAppend ==
    ASSUME NEW t \in Seq(Nat), NEW c \in Nat
    PROVE  /\ EndOfDecode(Append(t, c), FALSE) = DecodeNext(EndOfDecode(t, FALSE), c, FALSE)
           /\ EndOfDecoded(Append(t, c)) = DecodedNext(EndOfDecoded(t), c)
           /\ Delimiters(Append(t, c)) = DelimitersNext(c, Delimiters(t))
<1> DEFINE n == Len(t)
           u == Append(t, c)
<1>1. /\ n \in Nat /\ u \in Seq(Nat) /\ Len(u) = n + 1 /\ u[n + 1] = c
      /\ \A i \in 1..n : u[i] = t[i]
  BY AppendProperties
<1> HIDE DEF u
<1>2. PICK F : EndsAs(F, t)
  BY RunEnds
<1>3. PICK G : EndsAs(G, u)
  BY <1>1, RunEnds
<1> DEFINE f == [i \in 0..n |-> <<F[i].decode, F[i].decoded, F[i].delimiters>>]
           g == [i \in 0..n |-> <<G[i].decode, G[i].decoded, G[i].delimiters>>]
<1>4. \A i \in 1..n : /\ F[i].decode = DecodeNext(F[i - 1].decode, t[i], FALSE)
                      /\ F[i].decoded = DecodedNext(F[i - 1].decoded, t[i])
                      /\ F[i].delimiters = DelimitersNext(t[i], F[i - 1].delimiters)
  BY <1>2, Zenon DEF EndsAs
<1>5. \A i \in 1..(n + 1) : /\ G[i].decode = DecodeNext(G[i - 1].decode, u[i], FALSE)
                            /\ G[i].decoded = DecodedNext(G[i - 1].decoded, u[i])
                            /\ G[i].delimiters = DelimitersNext(u[i], G[i - 1].delimiters)
  <2>1. \A i \in 1..Len(u) : /\ G[i].decode = DecodeNext(G[i - 1].decode, u[i], FALSE)
                             /\ G[i].decoded = DecodedNext(G[i - 1].decoded, u[i])
                             /\ G[i].delimiters = DelimitersNext(u[i], G[i - 1].delimiters)
    BY <1>3, Zenon DEF EndsAs
  <2> QED
    BY <1>1, <2>1, Zenon
<1>6. F[0] = G[0]
  BY <1>2, <1>3, Zenon DEF EndsAs
<1> HIDE DEF n
<1>7. f[0] = g[0]
  BY <1>1, <1>6
<1>8. ASSUME NEW i \in 1..n, f[i - 1] = g[i - 1] PROVE f[i] = g[i]
  <2>1. i \in 0..n /\ i - 1 \in 0..n /\ i \in 1..(n + 1)
    BY <1>1
  <2>2. /\ F[i - 1].decode = G[i - 1].decode /\ F[i - 1].decoded = G[i - 1].decoded
        /\ F[i - 1].delimiters = G[i - 1].delimiters
    BY <1>8, <2>1
  <2>3. u[i] = t[i]
    BY <1>1
  <2>4. /\ F[i].decode = G[i].decode /\ F[i].decoded = G[i].decoded
        /\ F[i].delimiters = G[i].delimiters
    BY <1>4, <1>5, <2>1, <2>2, <2>3, Zenon
  <2> QED
    BY <2>1, <2>4
<1> HIDE DEF f, g
<1>9. f[n] = g[n]
  BY <1>1, <1>7, <1>8, LoopsAgree, Zenon
<1>10. /\ F[n].decode = G[n].decode /\ F[n].decoded = G[n].decoded
       /\ F[n].delimiters = G[n].delimiters
  BY <1>1, <1>9 DEF f, g
<1>11. /\ F[n].decode = EndOfDecode(t, FALSE) /\ F[n].decoded = EndOfDecoded(t)
       /\ F[n].delimiters = Delimiters(t)
  BY <1>2, Zenon DEF EndsAs, n
<1>12. /\ G[n + 1].decode = EndOfDecode(u, FALSE) /\ G[n + 1].decoded = EndOfDecoded(u)
       /\ G[n + 1].delimiters = Delimiters(u)
  BY <1>1, <1>3, Zenon DEF EndsAs
<1>13. n + 1 \in 1..(n + 1) /\ (n + 1) - 1 = n
  BY <1>1
<1>14. /\ G[n + 1].decode = DecodeNext(G[n].decode, c, FALSE)
       /\ G[n + 1].decoded = DecodedNext(G[n].decoded, c)
       /\ G[n + 1].delimiters = DelimitersNext(c, G[n].delimiters)
  BY <1>1, <1>5, <1>13, Zenon
<1> QED
  BY <1>10, <1>11, <1>12, <1>14, Zenon DEF u

\* Of the empty text the loops make no turn.
LEMMA LoopsStart ==
    /\ EndOfDecode(<<>>, FALSE) = StartOfDecode
    /\ EndOfDecoded(<<>>) = [escape |-> <<>>, out |-> <<>>]
    /\ Meaning(<<>>) = <<>> /\ Delimiters(<<>>) = <<>>
<1>1. <<>> \in Seq(Nat) /\ Len(<<>>) = 0
  OBVIOUS
<1>2. PICK F : EndsAs(F, <<>>)
  BY <1>1, RunEnds
<1>3. /\ F[0].decode = EndOfDecode(<<>>, FALSE) /\ F[0].decoded = EndOfDecoded(<<>>)
      /\ F[0].meaning = Meaning(<<>>) /\ F[0].delimiters = Delimiters(<<>>)
      /\ F[0] = StartOfLoops
  BY <1>1, <1>2, Zenon DEF EndsAs
<1> QED
  BY <1>3 DEF StartOfLoops

\* What a text means does not depend on what comes after it, if its escapes are whole.
LEMMA MeaningOfStart ==
    ASSUME NEW t \in Seq(Nat), NEW u \in Seq(Nat), WellEncoded(t), Len(t) <= Len(u),
           \A i \in 1..Len(t) : u[i] = t[i], NEW G, EndsAs(G, u)
    PROVE  G[Len(t)].meaning = Meaning(t)
<1> DEFINE n == Len(t)
<1>1. n \in Nat /\ \A i \in 1..n : i \in 1..Len(u) /\ u[i] = t[i]
  OBVIOUS
<1>2. PICK F : EndsAs(F, t)
  BY RunEnds
<1>3. F[0] = G[0] /\ F[n].meaning = Meaning(t)
  BY <1>2, Zenon DEF EndsAs
<1>4. ASSUME NEW i \in 1..n, NEW out PROVE MeaningNext(t, i, out) = MeaningNext(u, i, out)
  <2>1. InEscape(t, i) <=> InEscape(u, i)
    <3>1. ASSUME NEW k \in {1, 2}, i > k PROVE t[i - k] = u[i - k]
      <4>1. i - k \in 1..n
        BY <3>1
      <4> QED
        BY <1>1, <4>1
    <3> QED
      BY <3>1, Zenon DEF InEscape
  <2>2. StandsFor(t, i) = StandsFor(u, i)
    <3>1. t[i] = Percent => /\ i + 1 \in 1..n /\ i + 2 \in 1..n
      BY <1>1 DEF WellEncoded
    <3>2. u[i] = t[i] /\ (t[i] = Percent => u[i + 1] = t[i + 1] /\ u[i + 2] = t[i + 2])
      BY <1>1, <3>1
    <3> QED
      BY <3>2, Zenon DEF StandsFor
  <2> QED
    BY <2>1, <2>2, Zenon DEF MeaningNext
<1>5. \A i \in 1..n : F[i].meaning = MeaningNext(t, i, F[i - 1].meaning)
  BY <1>2, Zenon DEF EndsAs
<1>6. \A i \in 1..n : G[i].meaning = MeaningNext(u, i, G[i - 1].meaning)
  BY <1>1, Zenon DEF EndsAs
<1> HIDE DEF n
<1> DEFINE f == [i \in 0..n |-> F[i].meaning]
           g == [i \in 0..n |-> G[i].meaning]
<1>7. f[0] = g[0]
  BY <1>1, <1>3
<1>8. ASSUME NEW i \in 1..n, f[i - 1] = g[i - 1] PROVE f[i] = g[i]
  <2>1. i \in 0..n /\ i - 1 \in 0..n
    BY <1>1
  <2>2. F[i - 1].meaning = G[i - 1].meaning
    BY <1>8, <2>1
  <2>3. F[i].meaning = G[i].meaning
    BY <1>4, <1>5, <1>6, <2>2, Zenon
  <2> QED
    BY <2>1, <2>3
<1> HIDE DEF f, g
<1>9. f[n] = g[n]
  BY <1>1, <1>7, <1>8, LoopsAgree, Zenon
<1> QED
  BY <1>1, <1>3, <1>9 DEF f, g, n

------------------------------------------------------------------------------
(* Escapes: one more character, or one more escape *)

\* The last two characters of a text with whole escapes start none.
LEMMA WholeEnds ==
    ASSUME NEW t \in Seq(Nat), WellEncoded(t), NEW i \in 1..Len(t), i + 2 > Len(t)
    PROVE  t[i] # Percent
  BY DEF WellEncoded

\* A character that is no percent sign stands for itself.
LEMMA AddCharacter ==
    ASSUME NEW t \in Seq(Nat), WellEncoded(t), NEW c \in Nat, c # Percent
    PROVE  /\ WellEncoded(Append(t, c))
           /\ Meaning(Append(t, c)) = Append(Meaning(t), c)
<1> DEFINE n == Len(t)
           u == Append(t, c)
<1>1. /\ n \in Nat /\ u \in Seq(Nat) /\ Len(u) = n + 1 /\ u[n + 1] = c
      /\ \A i \in 1..n : u[i] = t[i]
  BY AppendProperties
<1> HIDE DEF u
<1>2. WellEncoded(u)
  <2> SUFFICES ASSUME NEW i \in 1..Len(u), u[i] = Percent
               PROVE  i + 2 <= Len(u) /\ {u[i + 1], u[i + 2]} \subseteq HEXDIG
    BY Zenon DEF WellEncoded
  <2>1. i \in 1..n /\ t[i] = Percent
    BY <1>1
  <2>2. i + 2 <= n /\ {t[i + 1], t[i + 2]} \subseteq HEXDIG
    BY <2>1, Zenon DEF WellEncoded
  <2>3. i + 1 \in 1..n /\ i + 2 \in 1..n /\ i + 2 <= Len(u)
    BY <1>1, <2>1, <2>2
  <2> QED
    BY <1>1, <2>2, <2>3, Zenon
<1>3. PICK G : EndsAs(G, u)
  BY <1>1, RunEnds
<1>4. G[n].meaning = Meaning(t)
  BY <1>1, <1>3, MeaningOfStart
<1>5. n + 1 \in 1..Len(u) /\ (n + 1) - 1 = n
  BY <1>1
<1>6. G[n + 1].meaning = MeaningNext(u, n + 1, G[n].meaning) /\ G[n + 1].meaning = Meaning(u)
  <2>1. G[n + 1].meaning = MeaningNext(u, n + 1, G[(n + 1) - 1].meaning)
    BY <1>3, <1>5, Zenon DEF EndsAs
  <2>2. G[Len(u)].meaning = Meaning(u)
    BY <1>3, Zenon DEF EndsAs
  <2> QED
    BY <1>1, <1>5, <2>1, <2>2, Zenon
<1>7. ~InEscape(u, n + 1)
  <2> SUFFICES ASSUME NEW k \in {1, 2}, n + 1 > k PROVE u[(n + 1) - k] # Percent
    BY Zenon DEF InEscape
  <2>1. (n + 1) - k \in 1..n /\ ((n + 1) - k) + 2 > n
    BY <1>1
  <2>2. t[(n + 1) - k] # Percent
    BY <2>1, WholeEnds
  <2> QED
    BY <1>1, <2>1, <2>2, Zenon
<1>8. StandsFor(u, n + 1) = c
  BY <1>1, Zenon DEF StandsFor
<1> QED
  BY <1>2, <1>4, <1>6, <1>7, <1>8, Zenon DEF MeaningNext, u

\* A text with an escape added.
Escaping(t, x, y) == Append(Append(Append(t, Percent), x), y)

\* An added escape stands for the byte its digits name.
LEMMA AddEscape ==
    ASSUME NEW t \in Seq(Nat), WellEncoded(t), NEW x \in HEXDIG, NEW y \in HEXDIG
    PROVE  /\ WellEncoded(Escaping(t, x, y))
           /\ Meaning(Escaping(t, x, y)) = Append(Meaning(t), 16 * HexValue(x) + HexValue(y))
<1> DEFINE n == Len(t)
           u == Escaping(t, x, y)
<1>1. x \in Nat /\ y \in Nat /\ Percent \in Nat /\ x # Percent /\ y # Percent
  BY DEF HEXDIG, DIGIT, Percent
<1>2. /\ n \in Nat /\ u \in Seq(Nat) /\ Len(u) = n + 3
      /\ u[n + 1] = Percent /\ u[n + 2] = x /\ u[n + 3] = y
      /\ \A i \in 1..n : u[i] = t[i]
  <2> DEFINE v == Append(t, Percent)
             w == Append(v, x)
  <2>1. v \in Seq(Nat) /\ Len(v) = n + 1 /\ v[n + 1] = Percent /\ \A i \in 1..n : v[i] = t[i]
    BY <1>1, AppendProperties
  <2> HIDE DEF v
  <2>2. /\ w \in Seq(Nat) /\ Len(w) = (n + 1) + 1 /\ w[(n + 1) + 1] = x
        /\ \A i \in 1..(n + 1) : w[i] = v[i]
    BY <1>1, <2>1, AppendProperties
  <2> HIDE DEF w
  <2>3. u = Append(w, y)
    BY Zenon DEF Escaping, w, v
  <2>4. /\ u \in Seq(Nat) /\ Len(u) = Len(w) + 1 /\ u[Len(w) + 1] = y
        /\ \A i \in 1..Len(w) : u[i] = w[i]
    BY <1>1, <2>2, <2>3, AppendProperties
  <2> HIDE DEF u
  <2>5. n \in Nat
    OBVIOUS
  <2> HIDE DEF n
  <2> QED
    BY <2>1, <2>2, <2>4, <2>5
<1> HIDE DEF u
<1>3. WellEncoded(u)
  <2> SUFFICES ASSUME NEW i \in 1..Len(u), u[i] = Percent
               PROVE  i + 2 <= Len(u) /\ {u[i + 1], u[i + 2]} \subseteq HEXDIG
    BY Zenon DEF WellEncoded
  <2>1. i \in 1..n \/ i = n + 1
    <3>1. i \in 1..n \/ i = n + 1 \/ i = n + 2 \/ i = n + 3
      <4>1. i \in 1..(n + 3) /\ n \in Nat
        BY <1>2, Zenon
      <4> HIDE DEF n
      <4> QED
        BY <4>1
    <3> QED
      BY <1>1, <1>2, <3>1, Zenon
  <2>2. CASE i \in 1..n
    <3>1. t[i] = Percent
      BY <1>2, <2>2
    <3>2. i + 2 <= n /\ {t[i + 1], t[i + 2]} \subseteq HEXDIG
      BY <2>2, <3>1, Zenon DEF WellEncoded
    <3>3. i + 1 \in 1..n /\ i + 2 \in 1..n /\ i + 2 <= Len(u)
      BY <1>2, <2>2, <3>2
    <3> QED
      BY <1>2, <3>2, <3>3, Zenon
  <2>3. CASE i = n + 1
    <3>1. i + 1 = n + 2 /\ i + 2 = n + 3 /\ i + 2 <= Len(u)
      BY <1>2, <2>3
    <3> QED
      BY <1>2, <3>1
  <2> QED
    BY <2>1, <2>2, <2>3
<1>4. PICK G : EndsAs(G, u)
  BY <1>2, RunEnds
<1>5. G[n].meaning = Meaning(t)
  <2>1. Len(t) <= Len(u)
    BY <1>2
  <2> QED
    BY <1>2, <1>4, <2>1, MeaningOfStart, Zenon
<1>6. /\ n + 1 \in 1..Len(u) /\ (n + 1) - 1 = n
      /\ n + 2 \in 1..Len(u) /\ (n + 2) - 1 = n + 1
      /\ n + 3 \in 1..Len(u) /\ (n + 3) - 1 = n + 2
  BY <1>2
<1>7. /\ G[n + 1].meaning = MeaningNext(u, n + 1, G[n].meaning)
      /\ G[n + 2].meaning = MeaningNext(u, n + 2, G[n + 1].meaning)
      /\ G[n + 3].meaning = MeaningNext(u, n + 3, G[n + 2].meaning)
  <2>1. \A i \in 1..Len(u) : G[i].meaning = MeaningNext(u, i, G[i - 1].meaning)
    BY <1>4, Zenon DEF EndsAs
  <2>2. /\ G[n + 1].meaning = MeaningNext(u, n + 1, G[(n + 1) - 1].meaning)
        /\ G[n + 2].meaning = MeaningNext(u, n + 2, G[(n + 2) - 1].meaning)
        /\ G[n + 3].meaning = MeaningNext(u, n + 3, G[(n + 3) - 1].meaning)
    BY <1>6, <2>1, Zenon
  <2> QED
    BY <1>6, <2>2, Zenon
<1>8. G[n + 3].meaning = Meaning(u)
  BY <1>2, <1>4, Zenon DEF EndsAs
<1>9. ~InEscape(u, n + 1)
  <2> SUFFICES ASSUME NEW k \in {1, 2}, n + 1 > k PROVE u[(n + 1) - k] # Percent
    BY Zenon DEF InEscape
  <2>1. (n + 1) - k \in 1..n /\ ((n + 1) - k) + 2 > n
    BY <1>2
  <2>2. t[(n + 1) - k] # Percent
    BY <2>1, WholeEnds
  <2> QED
    BY <1>2, <2>1, <2>2, Zenon
<1>10. InEscape(u, n + 2) /\ InEscape(u, n + 3)
  <2>1. n + 2 > 1 /\ (n + 2) - 1 = n + 1 /\ n + 3 > 2 /\ (n + 3) - 2 = n + 1
    BY <1>2
  <2>2. u[(n + 2) - 1] = Percent /\ u[(n + 3) - 2] = Percent
    BY <1>2, <2>1, Zenon
  <2> QED
    BY <2>1, <2>2, Zenon DEF InEscape
<1>11. StandsFor(u, n + 1) = 16 * HexValue(x) + HexValue(y)
  <2>1. (n + 1) + 1 = n + 2 /\ (n + 1) + 2 = n + 3
    BY <1>2
  <2> QED
    BY <1>2, <2>1, Zenon DEF StandsFor
<1>12. Meaning(u) = Append(Meaning(t), StandsFor(u, n + 1))
  BY <1>5, <1>7, <1>8, <1>9, <1>10, Zenon DEF MeaningNext
<1> QED
  BY <1>3, <1>11, <1>12, Zenon DEF u

\* The text t is decoded to o: the text has whole escapes, what o means when it
\* is decoded again is what t means, and both have the same delimiters.
DecodesAs(t, o) ==
    /\ t \in Seq(Nat) /\ o \in Seq(Nat) /\ WellEncoded(t)
    /\ EndOfDecoded(o) = [escape |-> <<>>, out |-> Meaning(t)]
    /\ Delimiters(o) = Delimiters(t)

\* A hexadecimal digit is no delimiter, and upper case does not change its value.
LEMMA HexFacts ==
    ASSUME NEW x \in HEXDIG
    PROVE  /\ x \in Nat /\ x # Percent /\ x \notin reserved /\ x \notin WhiteSpace
           /\ ToUpper(x) \in HEXDIG /\ HexValue(x) \in 0..15
           /\ HexValue(x) = Nibble(ToUpper(x))
<1>1. x \in 48..57 \/ x \in 65..70 \/ x \in 97..102
  BY DEF HEXDIG, DIGIT
<1>2. ToUpper(x) = IF x \in 97..122 THEN x - 32 ELSE x
  BY DEF ToUpper
<1>3. ToUpper(x) \in 48..57 \/ ToUpper(x) \in 65..70
  BY <1>1, <1>2
<1>4. /\ x \notin {35, 47, 58, 63, 64, 91, 93}
      /\ x \notin {33, 36, 38, 39, 40, 41, 42, 43, 44, 59, 61}
      /\ x \notin (9..13) \cup {32} /\ x # 37 /\ x \in Nat
  BY <1>1
<1>5. x \notin reserved /\ x \notin WhiteSpace /\ x # Percent
  BY <1>4 DEF reserved, gen_delims, sub_delims, WhiteSpace, Percent, Hash, Slash, Colon, Question, At
<1>6. HexValue(x) = Nibble(ToUpper(x))
  BY DEF HexValue
<1>7. HexValue(x) \in 0..15
  BY <1>3, <1>6 DEF Nibble, DIGIT
<1> QED
  BY <1>3, <1>4, <1>5, <1>6, <1>7 DEF HEXDIG, DIGIT

\* The percent sign is no delimiter.
LEMMA PercentFacts == Percent \in Nat /\ Percent \notin reserved
  BY DEF reserved, gen_delims, sub_delims, Percent, Hash, Slash, Colon, Question, At

\* The second decoder's turn, by what is between escapes.
LEMMA DecodedNextIs ==
    ASSUME NEW s, NEW c
    PROVE  /\ s.escape = <<>> /\ c = Percent => DecodedNext(s, c) = [s EXCEPT !.escape = <<c>>]
           /\ s.escape = <<>> /\ c # Percent => DecodedNext(s, c) = [s EXCEPT !.out = Append(s.out, c)]
           /\ s.escape # <<>> /\ Len(s.escape) = 1 =>
                DecodedNext(s, c) = [s EXCEPT !.escape = Append(s.escape, c)]
           /\ s.escape # <<>> /\ Len(s.escape) # 1 =>
                DecodedNext(s, c) = [escape |-> <<>>,
                                     out |-> Append(s.out, 16 * Nibble(s.escape[2]) + Nibble(c))]
<1>1. s.escape = <<>> => Len(s.escape) # 1
  OBVIOUS
<1> QED
  BY <1>1, Zenon DEF DecodedNext

\* A character that starts no escape is kept by the decoder, and keeps its meaning.
LEMMA CharacterDecodes ==
    ASSUME NEW t, NEW o, DecodesAs(t, o), NEW c \in Nat, c # Percent
    PROVE  DecodesAs(Append(t, c), Append(o, c))
<1>1. t \in Seq(Nat) /\ o \in Seq(Nat) /\ WellEncoded(t)
  BY Zenon DEF DecodesAs
<1>2. Append(t, c) \in Seq(Nat) /\ Append(o, c) \in Seq(Nat)
  BY <1>1, AppendProperties
<1>3. WellEncoded(Append(t, c)) /\ Meaning(Append(t, c)) = Append(Meaning(t), c)
  BY <1>1, AddCharacter
<1>4. EndOfDecoded(Append(o, c)) = [escape |-> <<>>, out |-> Append(Meaning(t), c)]
  <2> DEFINE s == [escape |-> <<>>, out |-> Meaning(t)]
  <2>1. EndOfDecoded(Append(o, c)) = DecodedNext(s, c)
    BY <1>1, LoopsAppend, Zenon DEF DecodesAs
  <2>2. DecodedNext(s, c) = [s EXCEPT !.out = Append(s.out, c)]
    <3>1. s.escape = <<>>
      OBVIOUS
    <3> HIDE DEF s
    <3> QED
      BY <3>1, DecodedNextIs, Zenon
  <2> QED
    BY <2>1, <2>2
<1>5. Delimiters(Append(o, c)) = Delimiters(Append(t, c))
  BY <1>1, LoopsAppend, Zenon DEF DecodesAs
<1> QED
  BY <1>2, <1>3, <1>4, <1>5, Zenon DEF DecodesAs

\* None of an escape's characters is a delimiter.
LEMMA EscapeHasNoDelimiters ==
    ASSUME NEW t \in Seq(Nat), NEW x \in HEXDIG, NEW y \in HEXDIG
    PROVE  /\ Delimiters(Escaping(t, x, y)) = Delimiters(t)
           /\ Escaping(t, x, y) \in Seq(Nat)
           /\ EndOfDecoded(Escaping(t, x, y)) =
                DecodedNext(DecodedNext(DecodedNext(EndOfDecoded(t), Percent), x), y)
<1> DEFINE v == Append(t, Percent)
           w == Append(v, x)
<1>1. v \in Seq(Nat) /\ Delimiters(v) = Delimiters(t) /\ EndOfDecoded(v) = DecodedNext(EndOfDecoded(t), Percent)
  <2>1. v \in Seq(Nat)
    BY PercentFacts, AppendProperties
  <2> QED
    BY <2>1, PercentFacts, LoopsAppend, Zenon DEF DelimitersNext
<1> HIDE DEF v
<1>2. w \in Seq(Nat) /\ Delimiters(w) = Delimiters(v) /\ EndOfDecoded(w) = DecodedNext(EndOfDecoded(v), x)
  <2>1. w \in Seq(Nat) /\ x \in Nat /\ x \notin reserved
    BY <1>1, HexFacts, AppendProperties
  <2> QED
    BY <1>1, <2>1, LoopsAppend, Zenon DEF DelimitersNext
<1> HIDE DEF w
<1>3. /\ Append(w, y) \in Seq(Nat) /\ Delimiters(Append(w, y)) = Delimiters(w)
      /\ EndOfDecoded(Append(w, y)) = DecodedNext(EndOfDecoded(w), y)
  <2>1. Append(w, y) \in Seq(Nat) /\ y \in Nat /\ y \notin reserved
    BY <1>2, HexFacts, AppendProperties
  <2> QED
    BY <1>2, <2>1, LoopsAppend, Zenon DEF DelimitersNext
<1> QED
  BY <1>1, <1>2, <1>3, Zenon DEF Escaping, v, w

\* An escape is decoded or kept, and in either case keeps its meaning.
LEMMA EscapeDecodes ==
    ASSUME NEW t, NEW o, DecodesAs(t, o), NEW x \in HEXDIG, NEW y \in HEXDIG
    PROVE  DecodesAs(Escaping(t, x, y), o \o Unescape(<<Percent, ToUpper(x), ToUpper(y)>>))
<1> DEFINE X == ToUpper(x)
           Y == ToUpper(y)
           n == 16 * HexValue(x) + HexValue(y)
           e == <<Percent, X, Y>>
           M == Meaning(t)
           u == Escaping(t, x, y)
<1>1. t \in Seq(Nat) /\ o \in Seq(Nat) /\ WellEncoded(t)
  BY Zenon DEF DecodesAs
<1>2. /\ u \in Seq(Nat) /\ WellEncoded(u) /\ Meaning(u) = Append(M, n) /\ Delimiters(u) = Delimiters(t)
  BY <1>1, AddEscape, EscapeHasNoDelimiters, Zenon
<1>3. X \in HEXDIG /\ Y \in HEXDIG /\ X \in Nat /\ Y \in Nat /\ n = 16 * Nibble(X) + Nibble(Y) /\ n \in Nat
  <2>1. /\ X \in HEXDIG /\ Y \in HEXDIG /\ HexValue(x) \in 0..15 /\ HexValue(y) \in 0..15
        /\ HexValue(x) = Nibble(X) /\ HexValue(y) = Nibble(Y)
    BY HexFacts, Zenon
  <2>2. X \in Nat /\ Y \in Nat
    BY <2>1, HexFacts, Zenon
  <2>3. n \in Nat
    BY <2>1
  <2> QED
    BY <2>1, <2>2, <2>3, Zenon
<1> HIDE DEF X, Y, u, n, M
<1>4. Unescape(e) = IF n \in KeptEncoded THEN e ELSE <<n>>
  <2>1. e[2] = X /\ e[3] = Y
    OBVIOUS
  <2> HIDE DEF e
  <2> QED
    BY <1>3, <2>1, Zenon DEF Unescape
<1>5. CASE n \in KeptEncoded
  <2>1. o \o e = Escaping(o, X, Y)
    BY <1>1, <1>3, PercentFacts DEF Escaping
  <2>2. /\ Escaping(o, X, Y) \in Seq(Nat) /\ Delimiters(Escaping(o, X, Y)) = Delimiters(o)
        /\ EndOfDecoded(Escaping(o, X, Y)) =
             DecodedNext(DecodedNext(DecodedNext(EndOfDecoded(o), Percent), X), Y)
    BY <1>1, <1>3, EscapeHasNoDelimiters, Zenon
  <2>3. EndOfDecoded(Escaping(o, X, Y)) = [escape |-> <<>>, out |-> Append(M, n)]
    <3> DEFINE s0 == [escape |-> <<>>, out |-> M]
               s1 == [escape |-> <<Percent>>, out |-> M]
               s2 == [escape |-> <<Percent, X>>, out |-> M]
    <3>1. EndOfDecoded(o) = s0
      BY Zenon DEF DecodesAs, M
    <3>2. DecodedNext(s0, Percent) = s1
      <4>1. s0.escape = <<>>
        OBVIOUS
      <4>2. DecodedNext(s0, Percent) = [s0 EXCEPT !.escape = <<Percent>>]
        <5> HIDE DEF s0
        <5> QED
          BY <4>1, DecodedNextIs, Zenon
      <4> QED
        BY <4>2
    <3>3. DecodedNext(s1, X) = s2
      <4>1. s1.escape # <<>> /\ Len(s1.escape) = 1
        OBVIOUS
      <4>2. DecodedNext(s1, X) = [s1 EXCEPT !.escape = Append(s1.escape, X)]
        <5> HIDE DEF s1
        <5> QED
          BY <4>1, DecodedNextIs, Zenon
      <4> QED
        BY <4>2
    <3>4. DecodedNext(s2, Y) = [escape |-> <<>>, out |-> Append(M, n)]
      <4>1. s2.escape # <<>> /\ Len(s2.escape) # 1 /\ s2.escape[2] = X /\ s2.out = M
        OBVIOUS
      <4>2. DecodedNext(s2, Y) = [escape |-> <<>>, out |-> Append(s2.out, 16 * Nibble(s2.escape[2]) + Nibble(Y))]
        <5> HIDE DEF s2
        <5> QED
          BY <4>1, DecodedNextIs, Zenon
      <4> HIDE DEF s2
      <4> QED
        BY <1>3, <4>1, <4>2, Zenon
    <3> HIDE DEF s0, s1, s2
    <3> QED
      BY <2>2, <3>1, <3>2, <3>3, <3>4, Zenon
  <2>4. Delimiters(o) = Delimiters(t)
    BY Zenon DEF DecodesAs
  <2> QED
    BY <1>2, <1>4, <1>5, <2>1, <2>2, <2>3, <2>4, Zenon DEF DecodesAs, X, Y, u
<1>6. CASE n \notin KeptEncoded
  <2>1. n # Percent /\ n \notin reserved
    BY <1>6, Zenon DEF KeptEncoded
  <2>2. o \o <<n>> = Append(o, n)
    BY <1>1, <1>3
  <2>3. Append(o, n) \in Seq(Nat)
    BY <1>1, <1>3, AppendProperties
  <2>4. EndOfDecoded(Append(o, n)) = [escape |-> <<>>, out |-> Append(M, n)]
    <3> DEFINE s == [escape |-> <<>>, out |-> M]
    <3>1. EndOfDecoded(Append(o, n)) = DecodedNext(s, n)
      BY <1>1, <1>3, LoopsAppend, Zenon DEF DecodesAs, M
    <3>2. DecodedNext(s, n) = [s EXCEPT !.out = Append(s.out, n)]
      <4>1. s.escape = <<>>
        OBVIOUS
      <4> HIDE DEF s
      <4> QED
        BY <2>1, <4>1, DecodedNextIs, Zenon
    <3> QED
      BY <3>1, <3>2
  <2>5. Delimiters(Append(o, n)) = Delimiters(t)
    BY <1>1, <1>3, <2>1, LoopsAppend, Zenon DEF DecodesAs, DelimitersNext
  <2> QED
    BY <1>2, <1>4, <1>6, <2>2, <2>3, <2>4, <2>5, Zenon DEF DecodesAs, X, Y, u
<1> QED
  BY <1>5, <1>6

------------------------------------------------------------------------------
(* Escapes: where the decoder is after each character *)

\* The first decoder's turn, by what is between escapes.
LEMMA DecodeNextIs ==
    ASSUME NEW s, NEW c, s.ok = TRUE, c \notin WhiteSpace
    PROVE  LET next == DecodeNext(s, c, FALSE)
           IN  /\ s.escape = <<>> /\ c = Percent => next = [s EXCEPT !.escape = <<c>>]
               /\ s.escape = <<>> /\ c # Percent => next = [s EXCEPT !.out = Append(s.out, c)]
               /\ s.escape # <<>> /\ c \notin HEXDIG => next = [s EXCEPT !.ok = FALSE]
               /\ s.escape # <<>> /\ Len(s.escape) = 1 /\ c \in HEXDIG =>
                    next = [s EXCEPT !.escape = Append(s.escape, ToUpper(c))]
               /\ s.escape # <<>> /\ Len(s.escape) # 1 /\ c \in HEXDIG =>
                    next = [s EXCEPT !.escape = <<>>,
                                     !.out = s.out \o Unescape(Append(s.escape, ToUpper(c)))]
<1>1. s.escape = <<>> => Len(s.escape) # 1
  OBVIOUS
<1> QED
  BY <1>1, Zenon DEF DecodeNext

\* What an escape is when a digit is added to it.
LEMMA LongerEscape ==
    ASSUME NEW x \in HEXDIG
    PROVE  /\ Append(<<Percent>>, ToUpper(x)) = <<Percent, ToUpper(x)>>
           /\ \A y \in HEXDIG : Append(<<Percent, ToUpper(y)>>, ToUpper(x)) = <<Percent, ToUpper(y), ToUpper(x)>>
<1>1. ASSUME NEW a \in Nat, NEW b \in Nat, NEW c \in Nat
      PROVE  Append(<<a>>, b) = <<a, b>> /\ Append(<<a, b>>, c) = <<a, b, c>>
  <2> DEFINE s == Append(<<a>>, b)
             t == Append(<<a, b>>, c)
  <2>1. <<a>> \in Seq(Nat) /\ Len(<<a>>) = 1 /\ <<a>>[1] = a
    OBVIOUS
  <2>2. <<a, b>> \in Seq(Nat) /\ Len(<<a, b>>) = 2 /\ <<a, b>>[1] = a /\ <<a, b>>[2] = b
    OBVIOUS
  <2>3. /\ <<a, b, c>> \in Seq(Nat) /\ Len(<<a, b, c>>) = 3
        /\ <<a, b, c>>[1] = a /\ <<a, b, c>>[2] = b /\ <<a, b, c>>[3] = c
    OBVIOUS
  <2>4. s \in Seq(Nat) /\ Len(s) = 2 /\ s[1] = a /\ s[2] = b
    BY <2>1, AppendProperties
  <2>5. t \in Seq(Nat) /\ Len(t) = 3 /\ t[1] = a /\ t[2] = b /\ t[3] = c
    BY <2>2, AppendProperties
  <2> DEFINE p == <<a, b>>
             q == <<a, b, c>>
  <2> HIDE DEF s, t, p, q
  <2>6. \A i \in 1..2 : s[i] = p[i]
    BY <2>2, <2>4 DEF p
  <2>7. \A i \in 1..3 : t[i] = q[i]
    BY <2>3, <2>5 DEF q
  <2>8. p \in Seq(Nat) /\ q \in Seq(Nat) /\ Len(p) = 2 /\ Len(q) = 3
    BY <2>2, <2>3 DEF p, q
  <2>9. s = p
    BY <2>4, <2>6, <2>8, SeqEqual
  <2>10. t = q
    BY <2>5, <2>7, <2>8, SeqEqual
  <2> QED
    BY <2>9, <2>10, Zenon DEF s, t, p, q
<1>2. \A y \in HEXDIG : ToUpper(y) \in Nat
  BY HexFacts, Zenon
<1> QED
  BY <1>1, <1>2, PercentFacts, Zenon

\* The states of the decoder after a text: between escapes, after a percent sign,
\* after an escape's first digit, and when it has refused.
DecodeState(escape, out) == [ok |-> TRUE, escape |-> escape, out |-> out]

BetweenEscapes(t, s) == \E o : DecodesAs(t, o) /\ s = DecodeState(<<>>, o)
AfterPercent(t, s) ==
    \E u, o : t = Append(u, Percent) /\ DecodesAs(u, o) /\ s = DecodeState(<<Percent>>, o)
AfterDigit(t, s) ==
    \E u, o, x : /\ x \in HEXDIG /\ t = Append(Append(u, Percent), x)
                 /\ DecodesAs(u, o) /\ s = DecodeState(<<Percent, ToUpper(x)>>, o)
RefusedText(t, s) ==
    /\ s.ok = FALSE
    /\ \E i \in 1..Len(t), d \in {1, 2} : t[i] = Percent /\ i + d \in 1..Len(t) /\ t[i + d] \notin HEXDIG

Reached(t, s) == BetweenEscapes(t, s) \/ AfterPercent(t, s) \/ AfterDigit(t, s) \/ RefusedText(t, s)

\* The character after one to two characters of an escape that is none of it.
LEMMA RefusesDigit ==
    ASSUME NEW t \in Seq(Nat), NEW c \in Nat, c \notin HEXDIG, NEW d \in {1, 2},
           Len(t) >= d, t[Len(t) + 1 - d] = Percent, NEW s, s.ok = FALSE
    PROVE  RefusedText(Append(t, c), s)
<1> DEFINE n == Len(t)
           u == Append(t, c)
           i == n + 1 - d
<1>1. /\ n \in Nat /\ Len(u) = n + 1 /\ u[n + 1] = c /\ \A k \in 1..n : u[k] = t[k]
  BY AppendProperties
<1> HIDE DEF u
<1>2. i \in 1..n /\ i \in 1..Len(u) /\ i + d = n + 1 /\ i + d \in 1..Len(u)
  <2>1. n \in Nat /\ n >= d
    BY <1>1
  <2> HIDE DEF n
  <2> QED
    BY <1>1, <2>1
<1>3. u[i] = Percent /\ u[i + d] \notin HEXDIG
  BY <1>1, <1>2
<1> HIDE DEF i
<1> QED
  BY <1>2, <1>3, Zenon DEF RefusedText, u

\* One more character takes the decoder from one of its states to another.
LEMMA ReachedNext ==
    ASSUME NEW t \in Seq(Nat), NEW c \in Nat, c \notin WhiteSpace, NEW s, Reached(t, s)
    PROVE  Reached(Append(t, c), DecodeNext(s, c, FALSE))
<1> DEFINE next == DecodeNext(s, c, FALSE)
           w == Append(t, c)
<1>1. CASE BetweenEscapes(t, s)
  <2>1. PICK o : DecodesAs(t, o) /\ s = DecodeState(<<>>, o)
    BY <1>1, Zenon DEF BetweenEscapes
  <2>2. s.ok = TRUE /\ s.escape = <<>> /\ s.out = o
    BY <2>1 DEF DecodeState
  <2>3. CASE c = Percent
    <3>1. next = [s EXCEPT !.escape = <<c>>]
      BY <2>2, <2>3, DecodeNextIs, Zenon
    <3>2. next = DecodeState(<<Percent>>, o)
      <4> HIDE DEF next
      <4> QED
        BY <2>1, <2>3, <3>1 DEF DecodeState
    <3> QED
      BY <2>1, <2>3, <3>2, Zenon DEF Reached, AfterPercent
  <2>4. CASE c # Percent
    <3>1. next = [s EXCEPT !.out = Append(s.out, c)]
      BY <2>2, <2>4, DecodeNextIs, Zenon
    <3>2. next = DecodeState(<<>>, Append(o, c))
      <4> HIDE DEF next
      <4> QED
        BY <2>1, <2>2, <3>1 DEF DecodeState
    <3>3. DecodesAs(w, Append(o, c))
      BY <2>1, <2>4, CharacterDecodes, Zenon
    <3> QED
      BY <3>2, <3>3, Zenon DEF Reached, BetweenEscapes
  <2> QED
    BY <2>3, <2>4
<1>2. CASE AfterPercent(t, s)
  <2>1. PICK u, o : t = Append(u, Percent) /\ DecodesAs(u, o) /\ s = DecodeState(<<Percent>>, o)
    BY <1>2, Zenon DEF AfterPercent
  <2>2. s.ok = TRUE /\ s.escape = <<Percent>> /\ s.escape # <<>> /\ Len(s.escape) = 1 /\ s.out = o
    BY <2>1 DEF DecodeState
  <2>3. CASE c \in HEXDIG
    <3>1. next = [s EXCEPT !.escape = Append(s.escape, ToUpper(c))]
      BY <2>2, <2>3, DecodeNextIs, Zenon
    <3> DEFINE X == ToUpper(c)
    <3>2. next = DecodeState(<<Percent, X>>, o)
      <4> HIDE DEF next, X
      <4>1. Append(s.escape, X) = <<Percent, X>>
        BY <2>2, <2>3, LongerEscape, Zenon DEF X
      <4>2. next = [s EXCEPT !.escape = <<Percent, X>>]
        BY <3>1, <4>1, Zenon DEF X
      <4> QED
        BY <2>1, <4>2 DEF DecodeState
    <3> QED
      BY <2>1, <2>3, <3>2, Zenon DEF Reached, AfterDigit
  <2>4. CASE c \notin HEXDIG
    <3>1. next = [s EXCEPT !.ok = FALSE]
      BY <2>2, <2>4, DecodeNextIs, Zenon
    <3>2. next.ok = FALSE
      <4> HIDE DEF next
      <4> QED
        BY <2>1, <3>1 DEF DecodeState
    <3>3. Len(t) >= 1 /\ t[Len(t) + 1 - 1] = Percent
      <4>1. u \in Seq(Nat)
        BY <2>1, Zenon DEF DecodesAs
      <4>2. Len(t) = Len(u) + 1 /\ t[Len(u) + 1] = Percent /\ Len(u) \in Nat
        BY <2>1, <4>1, PercentFacts, AppendProperties, LenProperties
      <4> QED
        BY <4>2
    <3>4. RefusedText(w, next)
      BY <2>4, <3>2, <3>3, RefusesDigit, Zenon
    <3> QED
      BY <3>4, Zenon DEF Reached
  <2> QED
    BY <2>3, <2>4
<1>3. CASE AfterDigit(t, s)
  <2>1. PICK u, o, x : /\ x \in HEXDIG /\ t = Append(Append(u, Percent), x)
                       /\ DecodesAs(u, o) /\ s = DecodeState(<<Percent, ToUpper(x)>>, o)
    BY <1>3, Zenon DEF AfterDigit
  <2>2. /\ s.ok = TRUE /\ s.escape = <<Percent, ToUpper(x)>> /\ s.escape # <<>> /\ Len(s.escape) # 1
        /\ s.out = o
    BY <2>1 DEF DecodeState
  <2>3. CASE c \in HEXDIG
    <3>1. next = [s EXCEPT !.escape = <<>>,
                           !.out = s.out \o Unescape(Append(s.escape, ToUpper(c)))]
      BY <2>2, <2>3, DecodeNextIs, Zenon
    <3>2. Append(s.escape, ToUpper(c)) = <<Percent, ToUpper(x), ToUpper(c)>>
      <4>1. s.escape = <<Percent, ToUpper(x)>>
        BY <2>2
      <4> QED
        BY <2>1, <2>3, <4>1, LongerEscape, Zenon
    <3> DEFINE new == o \o Unescape(<<Percent, ToUpper(x), ToUpper(c)>>)
    <3>3. DecodesAs(Escaping(u, x, c), new)
      BY <2>1, <2>3, EscapeDecodes, Zenon
    <3>4. s.out \o Unescape(Append(s.escape, ToUpper(c))) = new
      BY <2>2, <3>2, Zenon
    <3> HIDE DEF new, next
    <3>5. next = DecodeState(<<>>, new)
      BY <2>1, <3>1, <3>4 DEF DecodeState
    <3>6. Escaping(u, x, c) = w
      BY <2>1, Zenon DEF Escaping
    <3> QED
      BY <3>3, <3>5, <3>6, Zenon DEF Reached, BetweenEscapes, next
  <2>4. CASE c \notin HEXDIG
    <3>1. next = [s EXCEPT !.ok = FALSE]
      BY <2>2, <2>4, DecodeNextIs, Zenon
    <3>2. next.ok = FALSE
      <4> HIDE DEF next
      <4> QED
        BY <2>1, <3>1 DEF DecodeState
    <3>3. Len(t) >= 2 /\ t[Len(t) + 1 - 2] = Percent
      <4> DEFINE v == Append(u, Percent)
      <4>1. u \in Seq(Nat) /\ x \in Nat
        BY <2>1, HexFacts, Zenon DEF DecodesAs
      <4>2. v \in Seq(Nat) /\ Len(v) = Len(u) + 1 /\ v[Len(u) + 1] = Percent /\ Len(u) \in Nat
        BY <4>1, PercentFacts, AppendProperties, LenProperties
      <4> HIDE DEF v
      <4>3. t = Append(v, x)
        BY <2>1, Zenon DEF v
      <4>4. Len(t) = Len(v) + 1 /\ \A i \in 1..Len(v) : t[i] = v[i]
        BY <4>1, <4>2, <4>3, AppendProperties
      <4> QED
        BY <4>2, <4>4
    <3>4. RefusedText(w, next)
      BY <2>4, <3>2, <3>3, RefusesDigit, Zenon
    <3> QED
      BY <3>4, Zenon DEF Reached
  <2> QED
    BY <2>3, <2>4
<1>4. CASE RefusedText(t, s)
  <2>1. s.ok = FALSE
    BY <1>4, Zenon DEF RefusedText
  <2>2. next = s
    BY <2>1, Zenon DEF DecodeNext
  <2>3. PICK i \in 1..Len(t), d \in {1, 2} :
              t[i] = Percent /\ i + d \in 1..Len(t) /\ t[i + d] \notin HEXDIG
    BY <1>4, Zenon DEF RefusedText
  <2>4. /\ Len(w) = Len(t) + 1 /\ \A k \in 1..Len(t) : w[k] = t[k] /\ k \in 1..Len(w)
    BY AppendProperties
  <2> HIDE DEF w, next
  <2>5. RefusedText(w, next)
    BY <2>1, <2>2, <2>3, <2>4, Zenon DEF RefusedText
  <2> QED
    BY <2>5, Zenon DEF Reached, w, next
<1> QED
  BY <1>1, <1>2, <1>3, <1>4, Zenon DEF Reached

\* The characters other than white space.
Visible == Chars \ WhiteSpace

\* After any text without white space the decoder is in one of its states.
LEMMA AlwaysReached ==
    ASSUME NEW text \in Seq(Visible)
    PROVE  Reached(text, EndOfDecode(text, FALSE))
<1> DEFINE T == {t \in Seq(Visible) : Reached(t, EndOfDecode(t, FALSE))}
<1>1. Visible \subseteq Nat
  <2>1. Chars \subseteq Nat
    BY DEF Chars
  <2> QED
    BY <2>1, Zenon DEF Visible
<1>2. <<>> \in T
  <2>1. <<>> \in Seq(Visible) /\ <<>> \in Seq(Nat)
    OBVIOUS
  <2>2. WellEncoded(<<>>)
    BY DEF WellEncoded
  <2>3. DecodesAs(<<>>, <<>>)
    BY <2>1, <2>2, LoopsStart, Zenon DEF DecodesAs
  <2>4. EndOfDecode(<<>>, FALSE) = DecodeState(<<>>, <<>>)
    BY LoopsStart, Zenon DEF StartOfDecode, DecodeState
  <2> QED
    BY <2>1, <2>3, <2>4, Zenon DEF Reached, BetweenEscapes
<1>3. ASSUME NEW t \in Seq(Visible), NEW c \in Visible, t \in T PROVE Append(t, c) \in T
  <2>1. t \in Seq(Nat) /\ c \in Nat /\ c \notin WhiteSpace
    BY <1>1, SeqMonotonic DEF Visible
  <2>2. Append(t, c) \in Seq(Visible)
    BY AppendProperties
  <2>3. Reached(Append(t, c), DecodeNext(EndOfDecode(t, FALSE), c, FALSE))
    BY <1>3, <2>1, ReachedNext, Zenon
  <2>4. EndOfDecode(Append(t, c), FALSE) = DecodeNext(EndOfDecode(t, FALSE), c, FALSE)
    BY <2>1, LoopsAppend, Zenon
  <2> QED
    BY <2>2, <2>3, <2>4, Zenon
<1> HIDE DEF T
<1>4. \A t \in Seq(Visible) : t \in T
  BY <1>2, <1>3, AppendInduction
<1> QED
  BY <1>4 DEF T

\* Of a text of any length without white space: it is accepted exactly if its
\* escapes are whole, what it means when it is decoded again is what it meant
\* before, and its delimiters are those it had.
THEOREM DecodingCorrect == RfcSpec => []DecodingKeepsMeaning
<1>1. ASSUME InputType PROVE DecodingKeepsMeaning
  <2> DEFINE s == EndOfDecode(input, FALSE)
             d == PercentDecode(input, FALSE)
  <2> SUFFICES ASSUME subject = "escapes", Of(input, Chars \ WhiteSpace)
               PROVE  /\ d.ok <=> WellEncoded(input)
                      /\ d.ok => /\ PercentDecoded(d.str) = Meaning(input)
                                 /\ Delimiters(d.str) = Delimiters(input)
    BY Zenon DEF DecodingKeepsMeaning
  <2>1. Values("escapes") = Nat
    BY DEF Values
  <2>2. input \in Seq(Nat)
    BY <1>1, <2>1 DEF InputType
  <2>3. input \in Seq(Visible)
    <3>1. DOMAIN input = 1..Len(input)
      BY <2>2
    <3>2. \A i \in 1..Len(input) : input[i] \in Chars \ WhiteSpace
      BY <3>1, Zenon DEF Of, ToSet
    <3> QED
      BY <2>2, <3>2 DEF Visible
  <2>4. Reached(input, s)
    BY <2>3, AlwaysReached
  <2>5. d = IF s.ok /\ s.escape = <<>> THEN [ok |-> TRUE, str |-> s.out] ELSE [ok |-> FALSE, str |-> input]
    BY Zenon DEF PercentDecode, Unescaped
  <2> HIDE DEF s, d
  <2>6. CASE BetweenEscapes(input, s)
    <3>1. PICK o : DecodesAs(input, o) /\ s = DecodeState(<<>>, o)
      BY <2>6, Zenon DEF BetweenEscapes
    <3>2. d.ok = TRUE /\ d.str = o
      BY <2>5, <3>1 DEF DecodeState
    <3>3. WellEncoded(input) /\ EndOfDecoded(o).out = Meaning(input) /\ Delimiters(o) = Delimiters(input)
      BY <3>1 DEF DecodesAs
    <3> QED
      BY <3>2, <3>3, Zenon DEF PercentDecoded
  <2>7. CASE AfterPercent(input, s)
    <3>1. PICK u, o : input = Append(u, Percent) /\ DecodesAs(u, o) /\ s = DecodeState(<<Percent>>, o)
      BY <2>7, Zenon DEF AfterPercent
    <3>2. d.ok = FALSE
      <4>1. s.escape # <<>>
        BY <3>1 DEF DecodeState
      <4> QED
        BY <2>5, <4>1
    <3>3. ~WellEncoded(input)
      <4>1. u \in Seq(Nat)
        BY <3>1, Zenon DEF DecodesAs
      <4>2. Len(input) \in Nat /\ Len(input) # 0 /\ input[Len(input)] = Percent
        BY <3>1, <4>1, PercentFacts, AppendProperties, LenProperties
      <4> QED
        BY <4>2 DEF WellEncoded
    <3> QED
      BY <3>2, <3>3
  <2>8. CASE AfterDigit(input, s)
    <3>1. PICK u, o, x : /\ x \in HEXDIG /\ input = Append(Append(u, Percent), x)
                         /\ DecodesAs(u, o) /\ s = DecodeState(<<Percent, ToUpper(x)>>, o)
      BY <2>8, Zenon DEF AfterDigit
    <3>2. d.ok = FALSE
      <4>1. s.escape # <<>>
        BY <3>1 DEF DecodeState
      <4> QED
        BY <2>5, <4>1
    <3>3. ~WellEncoded(input)
      <4> DEFINE v == Append(u, Percent)
      <4>1. u \in Seq(Nat) /\ x \in Nat
        BY <3>1, HexFacts, Zenon DEF DecodesAs
      <4>2. v \in Seq(Nat) /\ Len(v) = Len(u) + 1 /\ v[Len(u) + 1] = Percent /\ Len(u) \in Nat
        BY <4>1, PercentFacts, AppendProperties, LenProperties
      <4> HIDE DEF v
      <4>3. Len(input) = Len(v) + 1 /\ \A i \in 1..Len(v) : input[i] = v[i]
        BY <3>1, <4>1, <4>2, AppendProperties DEF v
      <4>4. Len(u) + 1 \in 1..Len(input) /\ input[Len(u) + 1] = Percent /\ ~((Len(u) + 1) + 2 <= Len(input))
        BY <4>2, <4>3
      <4> QED
        BY <4>4, Zenon DEF WellEncoded
    <3> QED
      BY <3>2, <3>3
  <2>9. CASE RefusedText(input, s)
    <3>1. d.ok = FALSE
      BY <2>5, <2>9 DEF RefusedText
    <3>2. PICK i \in 1..Len(input), k \in {1, 2} :
                input[i] = Percent /\ i + k \in 1..Len(input) /\ input[i + k] \notin HEXDIG
      BY <2>9, Zenon DEF RefusedText
    <3>3. ~WellEncoded(input)
      BY <3>2 DEF WellEncoded
    <3> QED
      BY <3>1, <3>3
  <2> QED
    BY <2>4, <2>6, <2>7, <2>8, <2>9, Zenon DEF Reached
<1> QED
  BY <1>1, InputTypeInvariance, PTL

------------------------------------------------------------------------------
(* Paths: the loops over a text, and over segments *)

\* The loop that cuts a text, with its first and its next turn.
PiecesRun(f, t, mark) ==
    f[0] = << <<>> >> /\ \A i \in 1..Len(t) : f[i] = PiecesNext(f[i - 1], t[i], mark)

LEMMA PiecesIterates ==
    ASSUME NEW t, Len(t) \in Nat, NEW mark
    PROVE  \E f : PiecesRun(f, t, mark) /\ Pieces(t, mark) = f[Len(t)]
<1> DEFINE Upto(f, m) == f = [i \in 0..m |-> IF i = 0 THEN << <<>> >> ELSE PiecesNext(f[i - 1], t[i], mark)]
           T == {m \in Nat : \E f : Upto(f, m)}
           n == Len(t)
           chosen == CHOOSE f : Upto(f, n)
<1>1. n \in Nat
  OBVIOUS
<1>2. 0 \in T
  <2> DEFINE f == [i \in 0..0 |-> << <<>> >>]
  <2>1. Upto(f, 0)
    OBVIOUS
  <2> HIDE DEF Upto
  <2> QED
    BY <2>1
<1>3. ASSUME NEW m \in Nat, m \in T PROVE m + 1 \in T
  <2>1. PICK f : Upto(f, m)
    BY <1>3
  <2>2. \A i \in 0..m : f[i] = IF i = 0 THEN << <<>> >> ELSE PiecesNext(f[i - 1], t[i], mark)
    BY <2>1
  <2> DEFINE last == PiecesNext(f[m], t[m + 1], mark)
             h == [i \in 0..(m + 1) |-> IF i = m + 1 THEN last ELSE f[i]]
  <2> HIDE DEF Upto, T, last
  <2>3. \A i \in 0..m : h[i] = f[i]
    OBVIOUS
  <2>4. h[m + 1] = last /\ h = [i \in 0..(m + 1) |-> h[i]]
    OBVIOUS
  <2> HIDE DEF h
  <2>5. ASSUME NEW i \in 0..(m + 1) PROVE h[i] = IF i = 0 THEN << <<>> >> ELSE PiecesNext(h[i - 1], t[i], mark)
    <3>1. CASE i = m + 1
      <4>1. i - 1 = m /\ i # 0 /\ h[m] = f[m]
        BY <2>3, <3>1
      <4> QED
        BY <2>4, <3>1, <4>1, Zenon DEF last
    <3>2. CASE i # m + 1
      <4>1. i \in 0..m /\ (i # 0 => i - 1 \in 0..m)
        BY <3>2
      <4>2. h[i] = f[i] /\ (i # 0 => h[i - 1] = f[i - 1])
        BY <2>3, <4>1
      <4> QED
        BY <2>2, <4>1, <4>2, Zenon
    <3> QED
      BY <3>1, <3>2
  <2>6. Upto(h, m + 1)
    BY <2>4, <2>5, Zenon DEF Upto
  <2> QED
    BY <2>6 DEF T
<1> HIDE DEF T
<1>4. n \in T
  BY <1>1, <1>2, <1>3, SetInduction
<1>5. Upto(chosen, n)
  <2> HIDE DEF Upto
  <2> QED
    BY <1>4, Zenon DEF T
<1>6. Pieces(t, mark) = chosen[n]
  BY Zenon DEF Pieces
<1> HIDE DEF chosen
<1>7. 0 \in 0..n /\ \A i \in 1..n : i \in 0..n /\ i # 0
  BY <1>1
<1>8. \A i \in 0..n : chosen[i] = IF i = 0 THEN << <<>> >> ELSE PiecesNext(chosen[i - 1], t[i], mark)
  BY <1>5, Zenon
<1> HIDE DEF Upto
<1>9. /\ chosen[0] = << <<>> >>
      /\ \A i \in 1..n : chosen[i] = PiecesNext(chosen[i - 1], t[i], mark)
  BY <1>7, <1>8, Zenon
<1> QED
  BY <1>6, <1>9, Zenon DEF PiecesRun

LEMMA PiecesAppend ==
    ASSUME NEW S, NEW t \in Seq(S), NEW c \in S, NEW mark
    PROVE  Pieces(Append(t, c), mark) = PiecesNext(Pieces(t, mark), c, mark)
<1> DEFINE n == Len(t)
           u == Append(t, c)
<1>1. u \in Seq(S) /\ Len(u) = n + 1 /\ u[n + 1] = c /\ \A i \in 1..n : u[i] = t[i]
  BY AppendProperties
<1>2. n \in Nat
  OBVIOUS
<1>3. Len(u) \in Nat
  BY <1>1, <1>2
<1> HIDE DEF u
<1>4. PICK f : PiecesRun(f, t, mark) /\ Pieces(t, mark) = f[n]
  BY <1>2, PiecesIterates, Zenon DEF n
<1>5. PICK g : PiecesRun(g, u, mark) /\ Pieces(u, mark) = g[Len(u)]
  BY <1>3, PiecesIterates, Zenon
<1>6. f[0] = << <<>> >> /\ \A i \in 1..n : f[i] = PiecesNext(f[i - 1], t[i], mark)
  BY <1>4, Zenon DEF PiecesRun, n
<1>7. g[0] = << <<>> >> /\ \A i \in 1..Len(u) : g[i] = PiecesNext(g[i - 1], u[i], mark)
  BY <1>5, Zenon DEF PiecesRun
<1> HIDE DEF n
<1>8. \A i \in 1..n : i \in 1..(n + 1)
  BY <1>2
<1>9. \A i \in 1..n : f[i - 1] = g[i - 1] => f[i] = g[i]
  BY <1>1, <1>6, <1>7, <1>8, Zenon
<1>10. f[0] = g[0]
  BY <1>6, <1>7, Zenon
<1>11. f[n] = g[n]
  BY <1>2, <1>10, <1>9, LoopsAgree, Zenon
<1>12. n + 1 \in 1..(n + 1) /\ (n + 1) - 1 = n
  BY <1>2
<1>13. g[n + 1] = PiecesNext(g[n], c, mark)
  <2>1. g[n + 1] = PiecesNext(g[(n + 1) - 1], u[n + 1], mark)
    BY <1>1, <1>7, <1>12, Zenon
  <2> QED
    BY <2>1, <1>1, <1>12
<1> QED
  BY <1>1, <1>4, <1>5, <1>11, <1>13, Zenon DEF u

LEMMA PiecesEmpty ==
    ASSUME NEW mark
    PROVE  Pieces(<<>>, mark) = << <<>> >>
<1>1. Len(<<>>) \in Nat /\ Len(<<>>) = 0
  OBVIOUS
<1>2. PICK f : PiecesRun(f, <<>>, mark) /\ Pieces(<<>>, mark) = f[Len(<<>>)]
  BY <1>1, PiecesIterates, Zenon
<1> QED
  BY <1>1, <1>2, Zenon DEF PiecesRun

\* The loop of the normalization.
PathRun(f, t) ==
    f[0] = StartOfPath /\ \A i \in 1..Len(t) : f[i] = NormalizeNext(f[i - 1], t[i])

LEMMA PathIterates ==
    ASSUME NEW t, Len(t) \in Nat
    PROVE  \E f : PathRun(f, t) /\ EndOfPath(t) = f[Len(t)]
<1> DEFINE Upto(f, m) == f = [i \in 0..m |-> IF i = 0 THEN StartOfPath ELSE NormalizeNext(f[i - 1], t[i])]
           T == {m \in Nat : \E f : Upto(f, m)}
           n == Len(t)
           chosen == CHOOSE f : Upto(f, n)
<1>1. n \in Nat
  OBVIOUS
<1>2. 0 \in T
  <2> DEFINE f == [i \in 0..0 |-> StartOfPath]
  <2>1. Upto(f, 0)
    OBVIOUS
  <2> HIDE DEF Upto
  <2> QED
    BY <2>1
<1>3. ASSUME NEW m \in Nat, m \in T PROVE m + 1 \in T
  <2>1. PICK f : Upto(f, m)
    BY <1>3
  <2>2. \A i \in 0..m : f[i] = IF i = 0 THEN StartOfPath ELSE NormalizeNext(f[i - 1], t[i])
    BY <2>1
  <2> DEFINE last == NormalizeNext(f[m], t[m + 1])
             h == [i \in 0..(m + 1) |-> IF i = m + 1 THEN last ELSE f[i]]
  <2> HIDE DEF Upto, T, last
  <2>3. \A i \in 0..m : h[i] = f[i]
    OBVIOUS
  <2>4. h[m + 1] = last /\ h = [i \in 0..(m + 1) |-> h[i]]
    OBVIOUS
  <2> HIDE DEF h
  <2>5. ASSUME NEW i \in 0..(m + 1) PROVE h[i] = IF i = 0 THEN StartOfPath ELSE NormalizeNext(h[i - 1], t[i])
    <3>1. CASE i = m + 1
      <4>1. i - 1 = m /\ i # 0 /\ h[m] = f[m]
        BY <2>3, <3>1
      <4> QED
        BY <2>4, <3>1, <4>1, Zenon DEF last
    <3>2. CASE i # m + 1
      <4>1. i \in 0..m /\ (i # 0 => i - 1 \in 0..m)
        BY <3>2
      <4>2. h[i] = f[i] /\ (i # 0 => h[i - 1] = f[i - 1])
        BY <2>3, <4>1
      <4> QED
        BY <2>2, <4>1, <4>2, Zenon
    <3> QED
      BY <3>1, <3>2
  <2>6. Upto(h, m + 1)
    BY <2>4, <2>5, Zenon DEF Upto
  <2> QED
    BY <2>6 DEF T
<1> HIDE DEF T
<1>4. n \in T
  BY <1>1, <1>2, <1>3, SetInduction
<1>5. Upto(chosen, n)
  <2> HIDE DEF Upto
  <2> QED
    BY <1>4, Zenon DEF T
<1>6. EndOfPath(t) = chosen[n]
  BY Zenon DEF EndOfPath
<1> HIDE DEF chosen
<1>7. 0 \in 0..n /\ \A i \in 1..n : i \in 0..n /\ i # 0
  BY <1>1
<1>8. \A i \in 0..n : chosen[i] = IF i = 0 THEN StartOfPath ELSE NormalizeNext(chosen[i - 1], t[i])
  BY <1>5, Zenon
<1> HIDE DEF Upto
<1>9. /\ chosen[0] = StartOfPath
      /\ \A i \in 1..n : chosen[i] = NormalizeNext(chosen[i - 1], t[i])
  BY <1>7, <1>8, Zenon
<1> QED
  BY <1>6, <1>9, Zenon DEF PathRun

LEMMA PathAppend ==
    ASSUME NEW S, NEW t \in Seq(S), NEW c \in S
    PROVE  EndOfPath(Append(t, c)) = NormalizeNext(EndOfPath(t), c)
<1> DEFINE n == Len(t)
           u == Append(t, c)
<1>1. u \in Seq(S) /\ Len(u) = n + 1 /\ u[n + 1] = c /\ \A i \in 1..n : u[i] = t[i]
  BY AppendProperties
<1>2. n \in Nat
  OBVIOUS
<1>3. Len(u) \in Nat
  BY <1>1, <1>2
<1> HIDE DEF u
<1>4. PICK f : PathRun(f, t) /\ EndOfPath(t) = f[n]
  BY <1>2, PathIterates, Zenon DEF n
<1>5. PICK g : PathRun(g, u) /\ EndOfPath(u) = g[Len(u)]
  BY <1>3, PathIterates, Zenon
<1>6. f[0] = StartOfPath /\ \A i \in 1..n : f[i] = NormalizeNext(f[i - 1], t[i])
  BY <1>4, Zenon DEF PathRun, n
<1>7. g[0] = StartOfPath /\ \A i \in 1..Len(u) : g[i] = NormalizeNext(g[i - 1], u[i])
  BY <1>5, Zenon DEF PathRun
<1> HIDE DEF n
<1>8. \A i \in 1..n : i \in 1..(n + 1)
  BY <1>2
<1>9. \A i \in 1..n : f[i - 1] = g[i - 1] => f[i] = g[i]
  BY <1>1, <1>6, <1>7, <1>8, Zenon
<1>10. f[0] = g[0]
  BY <1>6, <1>7, Zenon
<1>11. f[n] = g[n]
  BY <1>2, <1>10, <1>9, LoopsAgree, Zenon
<1>12. n + 1 \in 1..(n + 1) /\ (n + 1) - 1 = n
  BY <1>2
<1>13. g[n + 1] = NormalizeNext(g[n], c)
  <2>1. g[n + 1] = NormalizeNext(g[(n + 1) - 1], u[n + 1])
    BY <1>1, <1>7, <1>12, Zenon
  <2> QED
    BY <2>1, <1>1, <1>12
<1> QED
  BY <1>1, <1>4, <1>5, <1>11, <1>13, Zenon DEF u

LEMMA PathEmpty == EndOfPath(<<>>) = StartOfPath
<1>1. Len(<<>>) \in Nat /\ Len(<<>>) = 0
  OBVIOUS
<1>2. PICK f : PathRun(f, <<>>) /\ EndOfPath(<<>>) = f[Len(<<>>)]
  BY <1>1, PathIterates, Zenon
<1> QED
  BY <1>1, <1>2, Zenon DEF PathRun

\* The loop that pushes segments.
StackRun(f, t) ==
    f[0] = <<>> /\ \A i \in 1..Len(t) : f[i] = Push(f[i - 1], t[i])

LEMMA StackIterates ==
    ASSUME NEW t, Len(t) \in Nat
    PROVE  \E f : StackRun(f, t) /\ Stack(t) = f[Len(t)]
<1> DEFINE Upto(f, m) == f = [i \in 0..m |-> IF i = 0 THEN <<>> ELSE Push(f[i - 1], t[i])]
           T == {m \in Nat : \E f : Upto(f, m)}
           n == Len(t)
           chosen == CHOOSE f : Upto(f, n)
<1>1. n \in Nat
  OBVIOUS
<1>2. 0 \in T
  <2> DEFINE f == [i \in 0..0 |-> <<>>]
  <2>1. Upto(f, 0)
    OBVIOUS
  <2> HIDE DEF Upto
  <2> QED
    BY <2>1
<1>3. ASSUME NEW m \in Nat, m \in T PROVE m + 1 \in T
  <2>1. PICK f : Upto(f, m)
    BY <1>3
  <2>2. \A i \in 0..m : f[i] = IF i = 0 THEN <<>> ELSE Push(f[i - 1], t[i])
    BY <2>1
  <2> DEFINE last == Push(f[m], t[m + 1])
             h == [i \in 0..(m + 1) |-> IF i = m + 1 THEN last ELSE f[i]]
  <2> HIDE DEF Upto, T, last
  <2>3. \A i \in 0..m : h[i] = f[i]
    OBVIOUS
  <2>4. h[m + 1] = last /\ h = [i \in 0..(m + 1) |-> h[i]]
    OBVIOUS
  <2> HIDE DEF h
  <2>5. ASSUME NEW i \in 0..(m + 1) PROVE h[i] = IF i = 0 THEN <<>> ELSE Push(h[i - 1], t[i])
    <3>1. CASE i = m + 1
      <4>1. i - 1 = m /\ i # 0 /\ h[m] = f[m]
        BY <2>3, <3>1
      <4> QED
        BY <2>4, <3>1, <4>1, Zenon DEF last
    <3>2. CASE i # m + 1
      <4>1. i \in 0..m /\ (i # 0 => i - 1 \in 0..m)
        BY <3>2
      <4>2. h[i] = f[i] /\ (i # 0 => h[i - 1] = f[i - 1])
        BY <2>3, <4>1
      <4> QED
        BY <2>2, <4>1, <4>2, Zenon
    <3> QED
      BY <3>1, <3>2
  <2>6. Upto(h, m + 1)
    BY <2>4, <2>5, Zenon DEF Upto
  <2> QED
    BY <2>6 DEF T
<1> HIDE DEF T
<1>4. n \in T
  BY <1>1, <1>2, <1>3, SetInduction
<1>5. Upto(chosen, n)
  <2> HIDE DEF Upto
  <2> QED
    BY <1>4, Zenon DEF T
<1>6. Stack(t) = chosen[n]
  BY Zenon DEF Stack
<1> HIDE DEF chosen
<1>7. 0 \in 0..n /\ \A i \in 1..n : i \in 0..n /\ i # 0
  BY <1>1
<1>8. \A i \in 0..n : chosen[i] = IF i = 0 THEN <<>> ELSE Push(chosen[i - 1], t[i])
  BY <1>5, Zenon
<1> HIDE DEF Upto
<1>9. /\ chosen[0] = <<>>
      /\ \A i \in 1..n : chosen[i] = Push(chosen[i - 1], t[i])
  BY <1>7, <1>8, Zenon
<1> QED
  BY <1>6, <1>9, Zenon DEF StackRun

LEMMA StackAppend ==
    ASSUME NEW S, NEW t \in Seq(S), NEW c \in S
    PROVE  Stack(Append(t, c)) = Push(Stack(t), c)
<1> DEFINE n == Len(t)
           u == Append(t, c)
<1>1. u \in Seq(S) /\ Len(u) = n + 1 /\ u[n + 1] = c /\ \A i \in 1..n : u[i] = t[i]
  BY AppendProperties
<1>2. n \in Nat
  OBVIOUS
<1>3. Len(u) \in Nat
  BY <1>1, <1>2
<1> HIDE DEF u
<1>4. PICK f : StackRun(f, t) /\ Stack(t) = f[n]
  BY <1>2, StackIterates, Zenon DEF n
<1>5. PICK g : StackRun(g, u) /\ Stack(u) = g[Len(u)]
  BY <1>3, StackIterates, Zenon
<1>6. f[0] = <<>> /\ \A i \in 1..n : f[i] = Push(f[i - 1], t[i])
  BY <1>4, Zenon DEF StackRun, n
<1>7. g[0] = <<>> /\ \A i \in 1..Len(u) : g[i] = Push(g[i - 1], u[i])
  BY <1>5, Zenon DEF StackRun
<1> HIDE DEF n
<1>8. \A i \in 1..n : i \in 1..(n + 1)
  BY <1>2
<1>9. \A i \in 1..n : f[i - 1] = g[i - 1] => f[i] = g[i]
  BY <1>1, <1>6, <1>7, <1>8, Zenon
<1>10. f[0] = g[0]
  BY <1>6, <1>7, Zenon
<1>11. f[n] = g[n]
  BY <1>2, <1>10, <1>9, LoopsAgree, Zenon
<1>12. n + 1 \in 1..(n + 1) /\ (n + 1) - 1 = n
  BY <1>2
<1>13. g[n + 1] = Push(g[n], c)
  <2>1. g[n + 1] = Push(g[(n + 1) - 1], u[n + 1])
    BY <1>1, <1>7, <1>12, Zenon
  <2> QED
    BY <2>1, <1>1, <1>12
<1> QED
  BY <1>1, <1>4, <1>5, <1>11, <1>13, Zenon DEF u

LEMMA StackEmpty == Stack(<<>>) = <<>>
<1>1. Len(<<>>) \in Nat /\ Len(<<>>) = 0
  OBVIOUS
<1>2. PICK f : StackRun(f, <<>>) /\ Stack(<<>>) = f[Len(<<>>)]
  BY <1>1, StackIterates, Zenon
<1> QED
  BY <1>1, <1>2, Zenon DEF StackRun

------------------------------------------------------------------------------
(* Paths: texts of dots, segments behind slashes, and the loop's states *)

\* Texts of dots, and of segments each behind a slash.
Dots(n) == [i \in 1..n |-> Dot]
Base(K) == Append(Joined(K), Slash)

LEMMA DotsAre ==
    ASSUME NEW n \in Nat
    PROVE  /\ Dots(n) \in Seq(Nat) /\ Len(Dots(n)) = n /\ \A i \in 1..n : Dots(n)[i] = Dot
           /\ Dots(n + 1) = Append(Dots(n), Dot)
<1>1. \A m \in Nat : Dots(m) \in Seq(Nat) /\ Len(Dots(m)) = m /\ \A i \in 1..m : Dots(m)[i] = Dot
  <2> SUFFICES ASSUME NEW m \in Nat
               PROVE  Dots(m) \in Seq(Nat) /\ Len(Dots(m)) = m /\ \A i \in 1..m : Dots(m)[i] = Dot
    OBVIOUS
  <2>1. Dot \in Nat
    BY DEF Dot
  <2> QED
    BY <2>1 DEF Dots
<1> DEFINE p == Dots(n + 1)
           q == Append(Dots(n), Dot)
<1>2. p \in Seq(Nat) /\ Len(p) = n + 1 /\ \A i \in 1..(n + 1) : p[i] = Dot
  BY <1>1
<1>3. q \in Seq(Nat) /\ Len(q) = n + 1 /\ \A i \in 1..(n + 1) : q[i] = Dot
  <2>1. Dot \in Nat
    BY DEF Dot
  <2>2. /\ Dots(n) \in Seq(Nat) /\ Len(Dots(n)) = n
        /\ \A i \in 1..n : Dots(n)[i] = Dot
    BY <1>1
  <2> QED
    BY <2>1, <2>2, AppendProperties
<1> HIDE DEF p, q
<1>4. p = q
  BY <1>2, <1>3, SeqEqual
<1> QED
  BY <1>1, <1>4 DEF p, q

LEMMA JoinedIs ==
    /\ Joined(<<>>) = <<>>
    /\ \A K \in Seq(Seq(Nat)) : Joined(K) \in Seq(Nat)
    /\ \A K \in Seq(Seq(Nat)), c \in Seq(Nat) : Joined(Append(K, c)) = Base(K) \o c
<1> DEFINE Led(K) == [i \in DOMAIN K |-> <<Slash>> \o K[i]]
<1>0. Slash \in Nat
  BY DEF Slash
<1>1. Joined(<<>>) = <<>>
  <2>1. Led(<<>>) = <<>>
    BY DEF Led
  <2> HIDE DEF Led
  <2>2. FlattenSeq(<<>>) = <<>>
    BY Zenon DEF FlattenSeq
  <2> QED
    BY <2>1, <2>2, Zenon DEF Joined, Led
<1>2. ASSUME NEW K \in Seq(Seq(Nat)) PROVE Led(K) \in Seq(Seq(Nat)) /\ Len(Led(K)) = Len(K)
  <2>1. \A i \in 1..Len(K) : <<Slash>> \o K[i] \in Seq(Nat)
    <3> SUFFICES ASSUME NEW i \in 1..Len(K) PROVE <<Slash>> \o K[i] \in Seq(Nat)
      OBVIOUS
    <3>1. K[i] \in Seq(Nat) /\ <<Slash>> \in Seq(Nat)
      BY <1>0, ElementOfSeq
    <3> QED
      BY <3>1, ConcatProperties
  <2>2. DOMAIN K = 1..Len(K) /\ Len(K) \in Nat
    OBVIOUS
  <2>3. Led(K) = [i \in 1..Len(K) |-> <<Slash>> \o K[i]]
    BY <2>2, Zenon
  <2> HIDE DEF Led
  <2> QED
    BY <2>1, <2>2, <2>3
<1>3. ASSUME NEW K \in Seq(Seq(Nat)) PROVE Joined(K) \in Seq(Nat)
  <2> DEFINE L == Led(K)
  <2>1. L \in Seq(Seq(Nat)) /\ Joined(K) = FlattenSeq(L)
    BY <1>2, Zenon DEF Joined
  <2> HIDE DEF L
  <2>2. PICK g \in [0..Len(L) -> Seq(Nat)] : FlattenSeq(L) = g[Len(L)]
    BY <2>1, FlattenJoins
  <2>3. Len(L) \in 0..Len(L)
    BY <2>1
  <2> QED
    BY <2>1, <2>2, <2>3
<1>4. ASSUME NEW K \in Seq(Seq(Nat)), NEW c \in Seq(Nat) PROVE Joined(Append(K, c)) = Base(K) \o c
  <2> DEFINE x == <<Slash>> \o c
             M == Append(K, c)
             p == Led(M)
             q == Append(Led(K), x)
             n == Len(K)
  <2>1. /\ M \in Seq(Seq(Nat)) /\ Len(M) = n + 1 /\ M[n + 1] = c /\ \A i \in 1..n : M[i] = K[i]
        /\ n \in Nat
    BY AppendProperties
  <2>2. x \in Seq(Nat)
    BY <1>0, ConcatProperties
  <2>3. Led(K) \in Seq(Seq(Nat)) /\ Len(Led(K)) = n /\ \A i \in 1..n : Led(K)[i] = <<Slash>> \o K[i]
    BY <1>2
  <2>4. p \in Seq(Seq(Nat)) /\ Len(p) = n + 1 /\ \A i \in 1..(n + 1) : p[i] = <<Slash>> \o M[i]
    <3> HIDE DEF M
    <3>1. p \in Seq(Seq(Nat)) /\ Len(p) = Len(M)
      BY <1>2, <2>1
    <3>2. DOMAIN M = 1..(n + 1)
      BY <2>1
    <3>3. \A i \in 1..(n + 1) : p[i] = <<Slash>> \o M[i]
      BY <3>2, Zenon
    <3> QED
      BY <2>1, <3>1, <3>3
  <2> HIDE DEF Led, x
  <2>5. q \in Seq(Seq(Nat)) /\ Len(q) = n + 1 /\ q[n + 1] = x /\ \A i \in 1..n : q[i] = Led(K)[i]
    BY <2>2, <2>3, AppendProperties
  <2> HIDE DEF M, p, q, n
  <2>6. ASSUME NEW i \in 1..(n + 1) PROVE p[i] = q[i]
    <3>1. CASE i = n + 1
      BY <2>1, <2>4, <2>5, <3>1 DEF x
    <3>2. CASE i # n + 1
      <4>1. i \in 1..n
        BY <2>1, <3>2
      <4> QED
        BY <2>1, <2>3, <2>4, <2>5, <4>1, Zenon
    <3> QED
      BY <3>1, <3>2
  <2>7. p = q
    BY <2>4, <2>5, <2>6, SeqEqual
  <2>8. FlattenSeq(q) = FlattenSeq(Led(K)) \o x
    BY <2>2, <2>3, FlattenAppend DEF q
  <2>9. Joined(M) = Joined(K) \o (<<Slash>> \o c)
    BY <2>7, <2>8, Zenon DEF Joined, Led, p, x
  <2>10. Joined(K) \o (<<Slash>> \o c) = Base(K) \o c
    <3> DEFINE j == Joined(K)
    <3>1. j \in Seq(Nat)
      BY <1>3
    <3> HIDE DEF j
    <3>2. j \o (<<Slash>> \o c) = Append(j, Slash) \o c
      <4>1. Append(j, Slash) = j \o <<Slash>> /\ <<Slash>> \in Seq(Nat)
        BY <1>0, <3>1, AppendIsConcat
      <4> QED
        BY <3>1, <4>1, ConcatAssociative
    <3> QED
      BY <3>2 DEF Base, j
  <2> QED
    BY <2>9, <2>10, Zenon DEF M
<1> QED
  BY <1>1, <1>3, <1>4, Zenon

\* The states of the loop, and the changes that are made to them.
Defined == TRUE
PathState(dir, out, dots, defined) == [dir |-> dir, out |-> out, dots |-> dots, defined |-> defined]

LEMMA PathStateIs ==
    ASSUME NEW dir, NEW out, NEW d, NEW ok
    PROVE  /\ PathState(dir, out, d, ok).dir = dir /\ PathState(dir, out, d, ok).out = out
           /\ PathState(dir, out, d, ok).dots = d /\ PathState(dir, out, d, ok).defined = ok
  BY DEF PathState

LEMMA PathDots ==
    ASSUME NEW dir, NEW out, NEW d, NEW ok, NEW n, NEW s, s = PathState(dir, out, d, ok)
    PROVE  [s EXCEPT !.dots = n] = PathState(dir, out, n, ok)
  BY DEF PathState

LEMMA PathOut ==
    ASSUME NEW dir, NEW out, NEW d, NEW ok, NEW o, NEW s, s = PathState(dir, out, d, ok)
    PROVE  [s EXCEPT !.out = o] = PathState(dir, o, d, ok)
  BY DEF PathState

LEMMA PathDir ==
    ASSUME NEW dir, NEW out, NEW d, NEW ok, NEW r, NEW s, s = PathState(dir, out, d, ok)
    PROVE  [s EXCEPT !.dir = r] = PathState(r, out, d, ok)
  BY DEF PathState

LEMMA AppendBehind ==
    ASSUME NEW p \in Seq(Nat), NEW q \in Seq(Nat), NEW x \in Nat
    PROVE  Append(p \o q, x) = p \o Append(q, x)
<1>1. <<x>> \in Seq(Nat)
  OBVIOUS
<1>2. Append(q, x) = q \o <<x>>
  BY AppendIsConcat
<1>3. p \o q \in Seq(Nat)
  BY ConcatProperties
<1>4. Append(p \o q, x) = (p \o q) \o <<x>>
  BY <1>3, AppendIsConcat
<1>5. (p \o q) \o <<x>> = p \o (q \o <<x>>)
  BY <1>1, Associative
<1> QED
  BY <1>2, <1>4, <1>5, Zenon

------------------------------------------------------------------------------
(* Paths: what the normalization has made of the characters so far *)

\* What the normalization holds after the segments K and the unfinished segment
\* c: it ends in d dots, which are not copied yet, and b before them.
Marks(dir, K) ==
    /\ dir \in Seq(Nat) /\ Len(dir) = Len(K) + 1
    /\ \A k \in 0..Len(K) : dir[k + 1] = Len(Base(SubSeq(K, 1, k)))
Holds(s, K, c, dir, b, d) ==
    /\ K \in Seq(Seq(Nat)) /\ c \in Seq(Nat) /\ b \in Seq(Nat) /\ d \in Nat
    /\ Marks(dir, K) /\ c = b \o Dots(d) /\ (b # <<>> => b[Len(b)] # Dot)
    /\ s = PathState(dir, Base(K) \o b, d, Defined)
Walked(s, K, c) == \E dir, b, d : Holds(s, K, c, dir, b, d)

\* The turns of the loop, one by one.
LEMMA NormalizeNextIs ==
    ASSUME NEW dir, NEW out, NEW d \in Nat, NEW c, NEW s, s = PathState(dir, out, d, Defined)
    PROVE  /\ c = Dot => NormalizeNext(s, c) = PathState(dir, out, d + 1, Defined)
           /\ c = Slash /\ d = 0 =>
                NormalizeNext(s, c) = PathState(Append(dir, Len(out) + 1), Append(out, c), d, Defined)
           /\ c = Slash /\ d = 1 => NormalizeNext(s, c) = PathState(dir, out, 0, Defined)
           /\ c = Slash /\ d = 2 => NormalizeNext(s, c) = [UpOneDirectory(s) EXCEPT !.dots = 0]
           /\ c # Dot /\ c # Slash => NormalizeNext(s, c) = PathState(dir, Append(WithDots(s), c), 0, Defined)
<1>1. Dot # Slash
  BY DEF Dot, Slash
<1>2. 0 # 1 /\ 0 # 2 /\ 1 # 2 /\ ~(0 > 2) /\ ~(1 > 2) /\ ~(2 > 2)
  OBVIOUS
<1>3. s.dots = d /\ s.out = out /\ s.dir = dir
  BY PathStateIs
<1>4. /\ c = Dot => NormalizeNext(s, c) = [s EXCEPT !.dots = d + 1]
      /\ c = Slash /\ d = 0 =>
           NormalizeNext(s, c) = [s EXCEPT !.out = Append(out, c), !.dir = Append(dir, Len(out) + 1)]
      /\ c = Slash /\ d = 1 => NormalizeNext(s, c) = [s EXCEPT !.dots = 0]
      /\ c = Slash /\ d = 2 => NormalizeNext(s, c) = [UpOneDirectory(s) EXCEPT !.dots = 0]
      /\ c # Dot /\ c # Slash => NormalizeNext(s, c) = [s EXCEPT !.out = Append(WithDots(s), c), !.dots = 0]
  BY <1>1, <1>2, <1>3, Zenon DEF NormalizeNext
<1>5. [s EXCEPT !.dots = d + 1] = PathState(dir, out, d + 1, Defined)
  BY PathDots
<1>6. [s EXCEPT !.out = Append(out, c), !.dir = Append(dir, Len(out) + 1)] =
        PathState(Append(dir, Len(out) + 1), Append(out, c), d, Defined)
  <2> DEFINE o == Append(out, c)
             r == Append(dir, Len(out) + 1)
             p == [s EXCEPT !.out = o]
  <2> HIDE DEF o, r
  <2>1. p = PathState(dir, o, d, Defined)
    BY PathOut
  <2>2. [s EXCEPT !.out = o, !.dir = r] = [p EXCEPT !.dir = r]
    OBVIOUS
  <2> HIDE DEF p
  <2>3. [p EXCEPT !.dir = r] = PathState(r, o, d, Defined)
    BY <2>1, PathDir
  <2> QED
    BY <2>2, <2>3 DEF o, r
<1>7. [s EXCEPT !.dots = 0] = PathState(dir, out, 0, Defined)
  BY PathDots
<1>8. [s EXCEPT !.out = Append(WithDots(s), c), !.dots = 0] = PathState(dir, Append(WithDots(s), c), 0, Defined)
  <2> DEFINE o == Append(WithDots(s), c)
             n == 0
             p == [s EXCEPT !.out = o]
  <2> HIDE DEF o, n
  <2>1. p = PathState(dir, o, d, Defined)
    BY PathOut
  <2>2. [s EXCEPT !.out = o, !.dots = n] = [p EXCEPT !.dots = n]
    OBVIOUS
  <2> HIDE DEF p
  <2>3. [p EXCEPT !.dots = n] = PathState(dir, o, n, Defined)
    BY <2>1, PathDots
  <2> QED
    BY <2>2, <2>3 DEF o, n
<1> QED
  BY <1>4, <1>5, <1>6, <1>7, <1>8, Zenon

LEMMA BaseType == ASSUME NEW K \in Seq(Seq(Nat)) PROVE Base(K) \in Seq(Nat) /\ Len(Base(K)) = Len(Joined(K)) + 1
<1>1. Slash \in Nat /\ Joined(K) \in Seq(Nat)
  BY JoinedIs DEF Slash
<1> QED
  BY <1>1, AppendProperties DEF Base

\* With its dots the output is that of all that was read.
LEMMA WithDotsIs ==
    ASSUME NEW s, NEW K, NEW c, NEW dir, NEW b, NEW d, Holds(s, K, c, dir, b, d)
    PROVE  WithDots(s) = Base(K) \o c
<1>1. /\ K \in Seq(Seq(Nat)) /\ b \in Seq(Nat) /\ d \in Nat /\ c = b \o Dots(d)
      /\ s = PathState(dir, Base(K) \o b, d, Defined)
  BY Zenon DEF Holds
<1>2. s.out = Base(K) \o b /\ s.dots = d
  <2> DEFINE out == Base(K) \o b
  <2>1. s = PathState(dir, out, d, Defined)
    BY <1>1, Zenon
  <2> HIDE DEF out
  <2>2. s.out = out /\ s.dots = d
    BY <2>1, PathStateIs
  <2> QED
    BY <2>2 DEF out
<1>3. Dots(d) \in Seq(Nat) /\ Base(K) \in Seq(Nat)
  BY <1>1, DotsAre, BaseType
<1>4. (Base(K) \o b) \o Dots(d) = Base(K) \o (b \o Dots(d))
  BY <1>1, <1>3, Associative, Zenon
<1>5. WithDots(s) = (Base(K) \o b) \o Dots(d)
  BY <1>2, Zenon DEF WithDots, Dots
<1> QED
  BY <1>1, <1>4, <1>5, Zenon

\* A dot is kept for later.
LEMMA WalkedDot ==
    ASSUME NEW s, NEW K, NEW c, Walked(s, K, c)
    PROVE  Walked(NormalizeNext(s, Dot), K, Append(c, Dot))
<1>1. PICK dir, b, d : Holds(s, K, c, dir, b, d)
  BY Zenon DEF Walked
<1> DEFINE next == PathState(dir, Base(K) \o b, d + 1, Defined)
<1>2. /\ K \in Seq(Seq(Nat)) /\ c \in Seq(Nat) /\ b \in Seq(Nat) /\ d \in Nat
      /\ Marks(dir, K) /\ c = b \o Dots(d) /\ (b # <<>> => b[Len(b)] # Dot)
      /\ s = PathState(dir, Base(K) \o b, d, Defined)
  BY <1>1, Zenon DEF Holds
<1>3. NormalizeNext(s, Dot) = next
  BY <1>2, NormalizeNextIs
<1>4. Append(c, Dot) = b \o Dots(d + 1) /\ Append(c, Dot) \in Seq(Nat)
  <2>1. Dot \in Nat /\ Dots(d) \in Seq(Nat) /\ Dots(d + 1) = Append(Dots(d), Dot)
    BY <1>2, DotsAre DEF Dot
  <2>2. Append(b \o Dots(d), Dot) = b \o Append(Dots(d), Dot)
    BY <1>2, <2>1, AppendBehind
  <2>3. Append(c, Dot) \in Seq(Nat)
    BY <1>2, <2>1, AppendProperties
  <2> QED
    BY <1>2, <2>1, <2>2, <2>3, Zenon
<1> HIDE DEF next
<1>5. Holds(next, K, Append(c, Dot), dir, b, d + 1)
  <2>1. d + 1 \in Nat
    BY <1>2
  <2> QED
    BY <1>2, <1>4, <2>1, Zenon DEF Holds, next
<1> QED
  BY <1>3, <1>5, Zenon DEF Walked

\* A character that is neither is copied behind the dots that were kept.
LEMMA WalkedOther ==
    ASSUME NEW s, NEW K, NEW c, Walked(s, K, c), NEW x \in Nat, x # Dot, x # Slash
    PROVE  Walked(NormalizeNext(s, x), K, Append(c, x))
<1>1. PICK dir, b, d : Holds(s, K, c, dir, b, d)
  BY Zenon DEF Walked
<1> DEFINE t == Append(c, x)
           next == PathState(dir, Base(K) \o t, 0, Defined)
<1>2. /\ K \in Seq(Seq(Nat)) /\ c \in Seq(Nat) /\ b \in Seq(Nat) /\ d \in Nat
      /\ Marks(dir, K) /\ c = b \o Dots(d) /\ (b # <<>> => b[Len(b)] # Dot)
      /\ s = PathState(dir, Base(K) \o b, d, Defined)
  BY <1>1, Zenon DEF Holds
<1>3. Append(Base(K) \o c, x) = Base(K) \o t
  <2>1. Base(K) \in Seq(Nat)
    BY <1>2, BaseType
  <2> QED
    BY <1>2, <2>1, AppendBehind
<1>4. t \in Seq(Nat) /\ t[Len(t)] = x
  BY <1>2, AppendProperties
<1>5. NormalizeNext(s, x) = next
  <2>1. NormalizeNext(s, x) = PathState(dir, Append(WithDots(s), x), 0, Defined)
    BY <1>2, NormalizeNextIs
  <2>2. WithDots(s) = Base(K) \o c
    BY <1>1, WithDotsIs, Zenon
  <2> QED
    BY <1>3, <2>1, <2>2, Zenon
<1> HIDE DEF t, next
<1>6. t = t \o Dots(0)
  <2>1. Dots(0) = <<>>
    BY DEF Dots
  <2> QED
    BY <1>4, <2>1, ConcatEmptySeq
<1>7. Holds(next, K, t, dir, t, 0)
  <2>1. 0 \in Nat
    OBVIOUS
  <2> QED
    BY <1>2, <1>4, <1>6, <2>1, Zenon DEF Holds, next
<1> QED
  BY <1>5, <1>7, Zenon DEF Walked, t

\* Two dots take the last directory back.
LEMMA UpOneIs ==
    ASSUME NEW K \in Seq(Seq(Nat)), NEW dir, Marks(dir, K), NEW s, s = PathState(dir, Base(K), 2, Defined)
    PROVE  LET up == IF K = <<>> THEN K ELSE Front(K)
           IN  \E marks : Marks(marks, up) /\ UpOneDirectory(s) = PathState(marks, Base(up), 2, Defined)
<1> DEFINE n == Len(K)
           out == Base(K)
<1>1. s.dir = dir /\ s.out = out
  BY PathStateIs
<1>2. n \in Nat /\ dir \in Seq(Nat) /\ Len(dir) = n + 1
  BY Zenon, LenProperties DEF Marks
<1>3. \A k \in 0..n : dir[k + 1] = Len(Base(SubSeq(K, 1, k)))
  BY Zenon DEF Marks
<1>4. out \in Seq(Nat) /\ out # <<>>
  <2>1. Slash \in Nat /\ Joined(K) \in Seq(Nat)
    BY JoinedIs DEF Slash
  <2> QED
    BY <2>1, AppendProperties DEF Base
<1> HIDE DEF out
<1>5. CASE K = <<>>
  <2>1. n = 0 /\ Len(dir) <= 1 /\ ~(Len(dir) > 1)
    BY <1>2, <1>5
  <2>2. out = <<Slash>> /\ Head(out) = Slash
    <3>1. out = Append(<<>>, Slash)
      BY <1>5, JoinedIs DEF out, Base
    <3> QED
      BY <3>1
  <2>3. UpOneDirectory(s) = [s EXCEPT !.out = <<Slash>>]
    BY <1>1, <1>4, <2>1, <2>2, Zenon DEF UpOneDirectory
  <2>4. [s EXCEPT !.out = <<Slash>>] = PathState(dir, <<Slash>>, 2, Defined)
    BY PathOut
  <2> QED
    BY <1>5, <2>2, <2>3, <2>4, Zenon DEF out
<1>6. CASE K # <<>>
  <2> DEFINE up == Front(K)
             last == K[n]
             marks == Front(dir)
             to == dir[n]
             base == Base(up)
  <2>1. n \in 1..n /\ n - 1 \in Nat
    BY <1>2, <1>6
  <2>2. last \in Seq(Nat)
    BY <2>1, ElementOfSeq
  <2>3. up = SubSeq(K, 1, n - 1) /\ up \in Seq(Seq(Nat)) /\ Len(up) = n - 1
    <3> DEFINE S == Seq(Nat)
               m == n - 1
    <3>1. K \in Seq(S) /\ m \in Nat /\ m <= Len(K)
      BY <1>2, <2>1
    <3> HIDE DEF S, m
    <3>2. SubSeq(K, 1, m) \in Seq(S) /\ Len(SubSeq(K, 1, m)) = m
      BY <3>1
    <3> QED
      BY <3>2, Zenon DEF Front, S, m
  <2>4. K = Append(up, last)
    <3>1. /\ Len(Append(up, last)) = n /\ Append(up, last) \in Seq(Seq(Nat))
          /\ Append(up, last)[n] = last /\ \A i \in 1..(n - 1) : Append(up, last)[i] = up[i]
      BY <2>1, <2>2, <2>3, AppendProperties
    <3>2. \A i \in 1..(n - 1) : up[i] = K[i]
      BY <2>1, <2>3
    <3>3. \A i \in 1..n : K[i] = Append(up, last)[i]
      <4> SUFFICES ASSUME NEW i \in 1..n PROVE K[i] = Append(up, last)[i]
        OBVIOUS
      <4>1. i = n \/ i \in 1..(n - 1)
        BY <1>2
      <4> HIDE DEF up
      <4> QED
        BY <3>1, <3>2, <4>1
    <3> HIDE DEF up, last
    <3> QED
      BY <3>1, <3>3, SeqEqual
  <2> HIDE DEF up, last
  <2>5. base \in Seq(Nat) /\ Joined(K) = base \o last
    BY <2>2, <2>3, <2>4, JoinedIs, BaseType
  <2>6. to = Len(base)
    <3>1. n - 1 \in 0..n /\ (n - 1) + 1 = n
      BY <1>2, <2>1
    <3>2. dir[(n - 1) + 1] = Len(Base(SubSeq(K, 1, n - 1)))
      BY <1>3, <3>1, Zenon
    <3> QED
      BY <2>3, <3>1, <3>2
  <2>7. to <= Len(out) /\ SubSeq(out, 1, to) = base
    <3> HIDE DEF base
    <3>1. Slash \in Nat /\ base \o last \in Seq(Nat)
      BY <2>2, <2>5, ConcatProperties DEF Slash
    <3>2. out = Append(base \o last, Slash)
      BY <2>5, Zenon DEF out, Base
    <3>3. Append(base \o last, Slash) = base \o Append(last, Slash) /\ Append(last, Slash) \in Seq(Nat)
      BY <2>2, <2>5, <3>1, AppendBehind, AppendProperties
    <3> DEFINE l == Append(last, Slash)
    <3> HIDE DEF l
    <3>4. out = base \o l /\ l \in Seq(Nat)
      BY <3>2, <3>3 DEF l
    <3>5. Len(out) = Len(base) + Len(l) /\ \A i \in 1..Len(base) : out[i] = base[i]
      BY <2>5, <3>4, ConcatProperties
    <3>6. Len(l) \in Nat /\ Len(base) \in Nat
      BY <2>5, <3>4
    <3> DEFINE p == SubSeq(out, 1, to)
    <3>7. p \in Seq(Nat) /\ Len(p) = Len(base) /\ \A i \in 1..Len(base) : p[i] = out[i]
      BY <1>4, <2>6, <3>5, <3>6
    <3> HIDE DEF p
    <3>8. p = base
      BY <2>5, <3>5, <3>7, SeqEqual
    <3> QED
      BY <2>6, <3>5, <3>6, <3>8 DEF p
  <2>8. Len(dir) > 1 /\ Len(dir) - 1 = n
    BY <1>2, <2>1
  <2>9. UpOneDirectory(s) = [s EXCEPT !.dir = Front(dir), !.out = SubSeq(out, 1, to)]
    <3>1. s.dir[Len(s.dir) - 1] = to /\ Len(s.dir) > 1 /\ ~(Len(s.dir) <= 1)
      BY <1>1, <1>2, <2>8
    <3>2. ~(to > Len(s.out)) /\ to <= Len(s.out)
      <4>1. to \in Nat /\ Len(out) \in Nat
        BY <1>4, <2>5, <2>6
      <4> QED
        BY <1>1, <2>7, <4>1
    <3> HIDE DEF to
    <3> QED
      BY <1>1, <3>1, <3>2, Zenon DEF UpOneDirectory
  <2>10. [s EXCEPT !.dir = Front(dir), !.out = SubSeq(out, 1, to)] = PathState(marks, SubSeq(out, 1, to), 2, Defined)
    <3> DEFINE o == SubSeq(out, 1, to)
    <3> HIDE DEF o, marks
    <3>1. [s EXCEPT !.dir = marks, !.out = o] = PathState(marks, o, 2, Defined)
      <4> DEFINE two == 2
                 b == Base(K)
      <4> HIDE DEF two, b
      <4>1. s = PathState(dir, b, two, Defined)
        BY DEF two, b
      <4> DEFINE q == [s EXCEPT !.dir = marks]
      <4>2. q = PathState(marks, b, two, Defined)
        BY <4>1, PathDir
      <4>3. [s EXCEPT !.dir = marks, !.out = o] = [q EXCEPT !.out = o]
        OBVIOUS
      <4> HIDE DEF q
      <4>4. [q EXCEPT !.out = o] = PathState(marks, o, two, Defined)
        BY <4>2, PathOut
      <4> QED
        BY <4>3, <4>4 DEF two
    <3> QED
      BY <3>1 DEF o, marks
  <2>11. Marks(marks, up)
    <3>1. marks = SubSeq(dir, 1, n)
      BY <2>8, Zenon DEF Front
    <3>2. marks \in Seq(Nat) /\ Len(marks) = n /\ \A i \in 1..n : marks[i] = dir[i]
      <4>1. \A i \in 1..n : dir[i] \in Nat
        BY <1>2
      <4> QED
        BY <1>2, <2>1, <3>1, <4>1, SubSeqProperties
    <3> HIDE DEF marks
    <3>3. ASSUME NEW k \in 0..(n - 1) PROVE marks[k + 1] = Len(Base(SubSeq(up, 1, k)))
      <4>1. k \in 0..n /\ k + 1 \in 1..n
        BY <1>2, <3>3
      <4>2. SubSeq(up, 1, k) = SubSeq(K, 1, k)
        <5> DEFINE a == SubSeq(up, 1, k)
                   b == SubSeq(K, 1, k)
        <5>1. \A i \in 1..k : i \in 1..(n - 1) /\ up[i] = K[i]
          BY <1>2, <2>3, <3>3
        <5>2. a \in Seq(Seq(Nat)) /\ Len(a) = k /\ \A i \in 1..k : a[i] = up[i]
          BY <2>1, <2>3, <3>3
        <5>3. b \in Seq(Seq(Nat)) /\ Len(b) = k /\ \A i \in 1..k : b[i] = K[i]
          BY <1>2, <4>1
        <5> HIDE DEF a, b
        <5>4. \A i \in 1..k : a[i] = b[i]
          BY <5>1, <5>2, <5>3, Zenon
        <5> QED
          BY <5>2, <5>3, <5>4, SeqEqual DEF a, b
      <4>3. dir[k + 1] = Len(Base(SubSeq(K, 1, k)))
        BY <1>3, <4>1, Zenon
      <4> QED
        BY <3>2, <4>1, <4>2, <4>3, Zenon
    <3>4. Len(marks) = Len(up) + 1 /\ 0..Len(up) = 0..(n - 1)
      BY <1>2, <2>3, <3>2
    <3> QED
      BY <3>2, <3>3, <3>4, Zenon DEF Marks
  <2> HIDE DEF marks, to
  <2> QED
    BY <1>6, <2>7, <2>9, <2>10, <2>11, Zenon DEF up, base
<1> QED
  BY <1>5, <1>6

\* The marks when a directory is entered.
LEMMA MarksAppend ==
    ASSUME NEW K \in Seq(Seq(Nat)), NEW c \in Seq(Nat), NEW dir, Marks(dir, K)
    PROVE  Marks(Append(dir, Len(Base(K) \o c) + 1), Append(K, c))
<1> DEFINE n == Len(K)
           M == Append(K, c)
           mark == Len(Base(K) \o c) + 1
           marks == Append(dir, mark)
<1>1. n \in Nat /\ dir \in Seq(Nat) /\ Len(dir) = n + 1
  BY Zenon, LenProperties DEF Marks
<1>2. \A k \in 0..n : dir[k + 1] = Len(Base(SubSeq(K, 1, k)))
  BY Zenon DEF Marks
<1>3. M \in Seq(Seq(Nat)) /\ Len(M) = n + 1 /\ \A i \in 1..n : M[i] = K[i]
  BY AppendProperties
<1>4. mark \in Nat /\ mark = Len(Base(M))
  <2>1. Base(K) \o c \in Seq(Nat)
    BY BaseType, Closed
  <2>2. Joined(M) = Base(K) \o c
    BY JoinedIs
  <2>3. Len(Base(M)) = Len(Joined(M)) + 1
    BY <1>3, BaseType
  <2> HIDE DEF M
  <2> QED
    BY <2>1, <2>2, <2>3
<1> HIDE DEF M, mark
<1>5. /\ marks \in Seq(Nat) /\ Len(marks) = n + 2 /\ marks[n + 2] = mark
      /\ \A i \in 1..(n + 1) : marks[i] = dir[i]
  <2>1. /\ marks \in Seq(Nat) /\ Len(marks) = Len(dir) + 1 /\ marks[Len(dir) + 1] = mark
        /\ \A i \in 1..Len(dir) : marks[i] = dir[i]
    BY <1>1, <1>4, AppendProperties
  <2> HIDE DEF marks
  <2> QED
    BY <1>1, <2>1
<1> HIDE DEF marks
<1>6. ASSUME NEW k \in 0..(n + 1) PROVE marks[k + 1] = Len(Base(SubSeq(M, 1, k)))
  <2>1. CASE k = n + 1
    <3> DEFINE a == SubSeq(M, 1, k)
    <3>1. a \in Seq(Seq(Nat)) /\ Len(a) = n + 1 /\ \A i \in 1..(n + 1) : a[i] = M[i]
      BY <1>1, <1>3, <2>1
    <3> HIDE DEF a
    <3>2. a = M
      BY <1>3, <3>1, SeqEqual
    <3>3. k + 1 = n + 2
      BY <1>1, <2>1
    <3> QED
      BY <1>4, <1>5, <3>2, <3>3, Zenon DEF a
  <2>2. CASE k # n + 1
    <3>1. k \in 0..n /\ k + 1 \in 1..(n + 1) /\ \A i \in 1..k : i \in 1..n
      BY <1>1, <2>2
    <3>2. SubSeq(M, 1, k) = SubSeq(K, 1, k)
      <4> DEFINE a == SubSeq(M, 1, k)
                 b == SubSeq(K, 1, k)
      <4>1. a \in Seq(Seq(Nat)) /\ Len(a) = k /\ \A i \in 1..k : a[i] = M[i]
        BY <1>1, <1>3, <3>1
      <4>2. b \in Seq(Seq(Nat)) /\ Len(b) = k /\ \A i \in 1..k : b[i] = K[i]
        BY <1>1, <3>1
      <4> HIDE DEF a, b
      <4>3. \A i \in 1..k : a[i] = b[i]
        BY <1>3, <3>1, <4>1, <4>2, Zenon
      <4> QED
        BY <4>1, <4>2, <4>3, SeqEqual DEF a, b
    <3>3. dir[k + 1] = Len(Base(SubSeq(K, 1, k)))
      BY <1>2, <3>1, Zenon
    <3> QED
      BY <1>5, <3>1, <3>2, <3>3, Zenon
  <2> QED
    BY <2>1, <2>2
<1>7. Len(marks) = Len(M) + 1 /\ 0..Len(M) = 0..(n + 1)
  BY <1>1, <1>3, <1>5
<1> QED
  BY <1>5, <1>6, <1>7, Zenon DEF Marks, marks, M, mark

\* Which dots a usual segment ends in.
LEMMA UsualIs ==
    ASSUME NEW c, NEW b \in Seq(Nat), NEW d \in Nat, c = b \o Dots(d),
           b # <<>> => b[Len(b)] # Dot, Usual(c)
    PROVE  /\ d = 0 => c = b /\ c # <<Dot>> /\ c # <<Dot, Dot>>
           /\ d # 0 => b = <<>> /\ ((d = 1 /\ c = <<Dot>>) \/ (d = 2 /\ c = <<Dot, Dot>>))
<1>1. Dots(d) \in Seq(Nat) /\ Len(Dots(d)) = d /\ \A i \in 1..d : Dots(d)[i] = Dot
  BY DotsAre
<1> DEFINE e == Dots(d)
<1> HIDE DEF e
<1>2. /\ c = b \o e /\ e \in Seq(Nat) /\ Len(e) = d /\ \A i \in 1..d : e[i] = Dot
  BY <1>1 DEF e
<1>3. /\ c \in Seq(Nat) /\ Len(c) = Len(b) + d
      /\ \A i \in 1..Len(b) : c[i] = b[i]
      /\ \A i \in (Len(b) + 1)..(Len(b) + d) : c[i] = e[i - Len(b)]
  <2> DEFINE r == b \o e
  <2>1. /\ r \in Seq(Nat) /\ Len(r) = Len(b) + Len(e)
        /\ \A i \in 1..Len(b) : r[i] = b[i]
        /\ \A i \in (Len(b) + 1)..(Len(b) + Len(e)) : r[i] = e[i - Len(b)]
    <3>1. e \in Seq(Nat)
      BY <1>2, Zenon
    <3> QED
      BY <3>1, ConcatProperties
  <2>2. c = r /\ Len(e) = d
    BY <1>2
  <2> HIDE DEF r
  <2> QED
    BY <2>1, <2>2, Zenon
<1>4. Len(b) \in Nat
  OBVIOUS
<1> DEFINE one == <<Dot>>
           two == <<Dot, Dot>>
<1>5. Len(one) = 1 /\ one[1] = Dot /\ Len(two) = 2 /\ two[1] = Dot /\ two[2] = Dot
  OBVIOUS
<1> HIDE DEF one, two
<1>6. c # <<>> /\ (c[Len(c)] = Dot => c = one \/ c = two)
  BY Zenon DEF Usual, Last, one, two
<1>7. CASE d = 0
  <2>1. c = b
    BY <1>2, <1>3, <1>7, SeqEqual
  <2>2. c[Len(c)] # Dot
    BY <1>6, <2>1
  <2>3. c # one /\ c # two
    BY <1>5, <2>2
  <2> QED
    BY <1>7, <2>1, <2>3, Zenon DEF one, two
<1>8. CASE d # 0
  <2>1. c[Len(c)] = Dot
    <3>1. Len(c) \in (Len(b) + 1)..(Len(b) + d) /\ Len(c) - Len(b) = d /\ d \in 1..d
      BY <1>3, <1>4, <1>8
    <3>2. c[Len(c)] = e[d]
      BY <1>3, <3>1
    <3> QED
      BY <1>2, <3>1, <3>2
  <2>2. c = one \/ c = two
    BY <1>6, <2>1
  <2>3. \A i \in 1..Len(c) : c[i] = Dot
    <3>1. \A i \in 1..1 : one[i] = Dot
      BY <1>5
    <3>2. \A i \in 1..2 : i = 1 \/ i = 2
      OBVIOUS
    <3>3. \A i \in 1..2 : two[i] = Dot
      BY <1>5, <3>2, Zenon
    <3> QED
      BY <1>5, <2>2, <3>1, <3>3, Zenon
  <2>4. b = <<>>
    <3> SUFFICES ASSUME b # <<>> PROVE FALSE
      OBVIOUS
    <3>1. Len(b) \in 1..Len(b) /\ Len(b) \in 1..Len(c)
      BY <1>3, <1>4
    <3>2. b[Len(b)] = Dot
      BY <1>3, <2>3, <3>1
    <3> QED
      BY <3>2
  <2>5. Len(c) = d
    BY <1>3, <1>4, <2>4
  <2>6. (d = 1 /\ c = one) \/ (d = 2 /\ c = two)
    BY <1>5, <2>2, <2>5, Zenon
  <2> QED
    BY <1>8, <2>4, <2>6, Zenon DEF one, two
<1> QED
  BY <1>7, <1>8

\* Between two segments nothing is kept.
LEMMA Between ==
    ASSUME NEW K \in Seq(Seq(Nat)), NEW dir, Marks(dir, K), NEW s, s = PathState(dir, Base(K), 0, Defined)
    PROVE  Walked(s, K, <<>>)
<1>1. <<>> \in Seq(Nat) /\ 0 \in Nat /\ Dots(0) = <<>>
  BY DEF Dots
<1>2. <<>> \o Dots(0) = <<>>
  BY <1>1, ConcatEmptySeq
<1>3. Base(K) \o <<>> = Base(K)
  BY BaseType, ConcatEmptySeq
<1>4. Holds(s, K, <<>>, dir, <<>>, 0)
  BY <1>1, <1>2, <1>3, Zenon DEF Holds
<1> QED
  BY <1>4, Zenon DEF Walked

\* A slash ends a segment, which enters a directory, leaves one or stays.
LEMMA WalkedSlash ==
    ASSUME NEW s, NEW K, NEW c, Walked(s, K, c), Usual(c)
    PROVE  Walked(NormalizeNext(s, Slash), Push(K, c), <<>>)
<1>1. PICK dir, b, d : Holds(s, K, c, dir, b, d)
  BY Zenon DEF Walked
<1>2. /\ K \in Seq(Seq(Nat)) /\ c \in Seq(Nat) /\ b \in Seq(Nat) /\ d \in Nat
      /\ Marks(dir, K) /\ c = b \o Dots(d) /\ (b # <<>> => b[Len(b)] # Dot)
      /\ s = PathState(dir, Base(K) \o b, d, Defined)
  BY <1>1, Zenon DEF Holds
<1>3. /\ d = 0 => c = b /\ c # <<Dot>> /\ c # <<Dot, Dot>>
      /\ d # 0 => b = <<>> /\ ((d = 1 /\ c = <<Dot>>) \/ (d = 2 /\ c = <<Dot, Dot>>))
  BY <1>2, UsualIs
<1>4. Base(K) \in Seq(Nat) /\ Base(K) \o <<>> = Base(K)
  BY <1>2, BaseType, ConcatEmptySeq
<1>5. <<Dot>> # <<Dot, Dot>>
  <2>1. Len(<<Dot>>) # Len(<<Dot, Dot>>)
    OBVIOUS
  <2> QED
    BY <2>1, Zenon
<1>6. CASE d = 0
  <2> DEFINE M == Append(K, c)
             out == Base(K) \o c
             marks == Append(dir, Len(out) + 1)
  <2>1. Push(K, c) = M
    BY <1>3, <1>6, Zenon DEF Push
  <2>2. M \in Seq(Seq(Nat))
    BY <1>2, AppendProperties
  <2>3. Append(out, Slash) = Base(M)
    <3>1. Joined(M) = out
      BY <1>2, JoinedIs
    <3> QED
      BY <3>1, Zenon DEF Base
  <2>4. Marks(marks, M)
    BY <1>2, MarksAppend
  <2>5. NormalizeNext(s, Slash) = PathState(marks, Append(out, Slash), 0, Defined)
    <3> HIDE DEF M
    <3>1. s = PathState(dir, out, d, Defined)
      BY <1>2, <1>3, <1>6, Zenon
    <3> DEFINE o == out
    <3> HIDE DEF out
    <3>2. NormalizeNext(s, Slash) = PathState(Append(dir, Len(out) + 1), Append(out, Slash), d, Defined)
      BY <1>2, <1>6, <3>1, NormalizeNextIs
    <3> QED
      BY <1>6, <3>2, Zenon
  <2> HIDE DEF M, out, marks
  <2>6. NormalizeNext(s, Slash) = PathState(marks, Base(M), 0, Defined)
    BY <2>3, <2>5, Zenon
  <2> QED
    BY <2>1, <2>2, <2>4, <2>6, Between
<1>7. CASE d = 1
  <2>1. c = <<Dot>> /\ b = <<>>
    BY <1>3, <1>7
  <2>2. Push(K, c) = K
    BY <2>1, Zenon DEF Push
  <2>3. s = PathState(dir, Base(K), d, Defined)
    BY <1>2, <1>4, <2>1, Zenon
  <2>4. NormalizeNext(s, Slash) = PathState(dir, Base(K), 0, Defined)
    <3> DEFINE out == Base(K)
    <3>1. s = PathState(dir, out, d, Defined)
      BY <2>3
    <3> HIDE DEF out
    <3>2. d \in Nat
      BY <1>2
    <3>3. Slash = Slash /\ d = 1 => NormalizeNext(s, Slash) = PathState(dir, out, 0, Defined)
      BY <3>1, <3>2, NormalizeNextIs
    <3> QED
      BY <1>7, <3>3 DEF out
  <2> QED
    BY <1>2, <2>2, <2>4, Between
<1>8. CASE d = 2
  <2> DEFINE up == IF K = <<>> THEN K ELSE Front(K)
             u == UpOneDirectory(s)
             next == [u EXCEPT !.dots = 0]
  <2>1. c = <<Dot, Dot>> /\ b = <<>>
    BY <1>3, <1>8
  <2>2. Push(K, c) = up
    BY <1>5, <2>1, Zenon DEF Push
  <2>3. s = PathState(dir, Base(K), 2, Defined)
    BY <1>2, <1>4, <1>8, <2>1, Zenon
  <2>4. PICK marks : Marks(marks, up) /\ u = PathState(marks, Base(up), 2, Defined)
    BY <1>2, <2>3, UpOneIs
  <2>5. NormalizeNext(s, Slash) = next
    <3> DEFINE out == Base(K)
    <3>1. s = PathState(dir, out, d, Defined)
      BY <1>8, <2>3
    <3> HIDE DEF out, up
    <3>2. d \in Nat
      BY <1>2
    <3>3. Slash = Slash /\ d = 2 => NormalizeNext(s, Slash) = next
      BY <3>1, <3>2, NormalizeNextIs
    <3> QED
      BY <1>8, <3>3, Zenon
  <2>6. up \in Seq(Seq(Nat))
    <3>1. K # <<>> => Front(K) \in Seq(Seq(Nat))
      <4> DEFINE S == Seq(Nat)
      <4>1. K \in Seq(S)
        BY <1>2
      <4> HIDE DEF S
      <4>2. K # <<>> => SubSeq(K, 1, Len(K) - 1) \in Seq(S)
        BY <4>1
      <4> QED
        BY <4>2, Zenon DEF Front, S
    <3> QED
      BY <1>2, <3>1
  <2> HIDE DEF u, up
  <2>7. next = PathState(marks, Base(up), 0, Defined)
    <3> DEFINE o == Base(up)
               two == 2
               zero == 0
    <3>1. u = PathState(marks, o, two, Defined)
      BY <2>4
    <3> HIDE DEF o, two, zero
    <3>2. [u EXCEPT !.dots = zero] = PathState(marks, o, zero, Defined)
      BY <3>1, PathDots
    <3> QED
      BY <3>2 DEF o, zero
  <2> HIDE DEF next
  <2> QED
    BY <2>2, <2>4, <2>5, <2>6, <2>7, Between
<1> QED
  BY <1>3, <1>6, <1>7, <1>8

------------------------------------------------------------------------------
(* Paths: the segments that a text is cut in *)

\* A turn of the loop that cuts: a piece is finished, or grows.
LEMMA PiecesTurn ==
    ASSUME NEW G \in Seq(Seq(Nat)), NEW c \in Seq(Nat), NEW x \in Nat
    PROVE  /\ x = Slash => PiecesNext(Append(G, c), x, Slash) = Append(Append(G, c), <<>>)
           /\ x # Slash => PiecesNext(Append(G, c), x, Slash) = Append(G, Append(c, x))
<1> DEFINE n == Len(G)
           longer == Append(c, x)
           P == Append(G, c)
           q == [P EXCEPT ![Len(P)] = Append(@, x)]
           r == Append(G, longer)
<1>1. n \in Nat /\ longer \in Seq(Nat)
  BY AppendProperties
<1>2. P \in Seq(Seq(Nat)) /\ Len(P) = n + 1 /\ P[n + 1] = c /\ \A i \in 1..n : P[i] = G[i]
  BY AppendProperties
<1>3. r \in Seq(Seq(Nat)) /\ Len(r) = n + 1 /\ r[n + 1] = longer /\ \A i \in 1..n : r[i] = G[i]
  BY <1>1, AppendProperties
<1> HIDE DEF P, r
<1>4. q = [P EXCEPT ![n + 1] = longer]
  BY <1>2
<1> HIDE DEF longer
<1>5. q \in Seq(Seq(Nat)) /\ Len(q) = n + 1 /\ q[n + 1] = longer /\ \A i \in 1..n : q[i] = P[i]
  <2> DEFINE S == Seq(Nat)
             p == [P EXCEPT ![n + 1] = longer]
  <2>1. longer \in S /\ P \in Seq(S)
    BY <1>1, <1>2
  <2> HIDE DEF S
  <2>2. p \in Seq(S) /\ Len(p) = n + 1 /\ p[n + 1] = longer /\ \A i \in 1..n : p[i] = P[i]
    BY <1>1, <1>2, <2>1
  <2> QED
    BY <1>4, <2>2 DEF S
<1> HIDE DEF q
<1>6. \A i \in 1..(n + 1) : q[i] = r[i]
  <2> SUFFICES ASSUME NEW i \in 1..(n + 1) PROVE q[i] = r[i]
    OBVIOUS
  <2>1. i = n + 1 \/ i \in 1..n
    BY <1>1
  <2> QED
    BY <1>2, <1>3, <1>5, <2>1, Zenon
<1>7. q = r
  BY <1>3, <1>5, <1>6, SeqEqual
<1>8. /\ x = Slash => PiecesNext(P, x, Slash) = Append(P, <<>>)
      /\ x # Slash => PiecesNext(P, x, Slash) = q
  BY Zenon DEF PiecesNext, q
<1> QED
  BY <1>7, <1>8, Zenon DEF P, r, longer

\* One element before a sequence.
LEMMA BehindOne ==
    ASSUME NEW S, NEW p \in Seq(S), NEW q \in Seq(S), Len(p) = 1
    PROVE  /\ p \o q \in Seq(S) /\ Len(p \o q) = Len(q) + 1 /\ (p \o q)[1] = p[1]
           /\ \A i \in 2..(Len(q) + 1) : (p \o q)[i] = q[i - 1]
<1> DEFINE r == p \o q
           n == Len(q)
           m == Len(p)
<1>1. r \in Seq(S) /\ Len(r) = m + n /\ \A i \in 1..(m + n) : r[i] = IF i <= m THEN p[i] ELSE q[i - m]
  BY ConcatProperties
<1>2. m = 1
  OBVIOUS
<1>3. n \in Nat
  OBVIOUS
<1> HIDE DEF r, n, m
<1>4. 1 \in 1..(1 + n) /\ \A i \in 2..(n + 1) : i \in 1..(1 + n) /\ ~(i <= 1)
  BY <1>3
<1>5. Len(r) = n + 1 /\ r[1] = p[1] /\ \A i \in 2..(n + 1) : r[i] = q[i - 1]
  BY <1>1, <1>3, <1>4, <1>2
<1> QED
  BY <1>1, <1>5 DEF r, n

\* The empty piece is what stands before the first slash.
LEMMA BehindFirst ==
    ASSUME NEW F \in Seq(Seq(Nat)), NEW c \in Seq(Nat)
    PROVE  /\ Append(<< <<>> >> \o F, c) = << <<>> >> \o Append(F, c)
           /\ Tail(Append(<< <<>> >> \o F, c)) = Append(F, c)
           /\ << <<>> >> \o F \in Seq(Seq(Nat))
<1> DEFINE first == << <<>> >>
           n == Len(F)
           S == Seq(Nat)
           E == first \o F
           p == Append(E, c)
           A == Append(F, c)
           q == first \o A
           r == Tail(p)
<1>0. c \in S /\ F \in Seq(S) /\ n \in Nat
  OBVIOUS
<1>1. first \in Seq(S) /\ Len(first) = 1
  <2>1. <<>> \in S
    OBVIOUS
  <2> HIDE DEF S
  <2> QED
    BY <2>1
<1> HIDE DEF first, S
<1>2. E \in Seq(S) /\ Len(E) = n + 1 /\ E[1] = first[1] /\ \A i \in 2..(n + 1) : E[i] = F[i - 1]
  BY <1>0, <1>1, BehindOne
<1>3. A \in Seq(S) /\ Len(A) = n + 1 /\ A[n + 1] = c /\ \A i \in 1..n : A[i] = F[i]
  BY <1>0, AppendProperties
<1> HIDE DEF E, A
<1>4. p \in Seq(S) /\ Len(p) = n + 2 /\ p[n + 2] = c /\ \A i \in 1..(n + 1) : p[i] = E[i]
  <2>1. /\ p \in Seq(S) /\ Len(p) = Len(E) + 1 /\ p[Len(E) + 1] = c
        /\ \A i \in 1..Len(E) : p[i] = E[i]
    BY <1>0, <1>2, AppendProperties
  <2> HIDE DEF p
  <2> QED
    BY <1>0, <1>2, <2>1
<1>5. q \in Seq(S) /\ Len(q) = n + 2 /\ q[1] = first[1] /\ \A i \in 2..(n + 2) : q[i] = A[i - 1]
  <2>1. /\ q \in Seq(S) /\ Len(q) = Len(A) + 1 /\ q[1] = first[1]
        /\ \A i \in 2..(Len(A) + 1) : q[i] = A[i - 1]
    BY <1>1, <1>3, BehindOne
  <2> HIDE DEF q
  <2> QED
    BY <1>0, <1>3, <2>1
<1> HIDE DEF p, q
<1>6. \A i \in 1..(n + 2) : p[i] = q[i]
  <2> SUFFICES ASSUME NEW i \in 1..(n + 2) PROVE p[i] = q[i]
    OBVIOUS
  <2>1. CASE i = 1
    <3>1. i \in 1..(n + 1)
      BY <1>0, <2>1
    <3> QED
      BY <1>2, <1>4, <1>5, <2>1, <3>1
  <2>2. CASE i \in 2..(n + 1)
    <3>1. i \in 1..(n + 1) /\ i \in 2..(n + 2) /\ i - 1 \in 1..n
      BY <1>0, <2>2
    <3> QED
      BY <1>2, <1>3, <1>4, <1>5, <2>2, <3>1, Zenon
  <2>3. CASE i = n + 2
    <3>1. i \in 2..(n + 2) /\ i - 1 = n + 1
      BY <1>0, <2>3
    <3>2. q[i] = A[n + 1]
      BY <1>5, <3>1
    <3> QED
      BY <1>3, <1>4, <2>3, <3>2
  <2> QED
    BY <1>0, <2>1, <2>2, <2>3
<1>7. p = q
  BY <1>4, <1>5, <1>6, SeqEqual
<1>8. r = A
  <2>1. r \in Seq(S) /\ Len(r) = n + 1 /\ \A i \in 1..(n + 1) : r[i] = q[i + 1]
    BY <1>0, <1>5, <1>7
  <2> HIDE DEF r
  <2>2. \A i \in 1..(n + 1) : r[i] = A[i]
    <3> SUFFICES ASSUME NEW i \in 1..(n + 1) PROVE r[i] = A[i]
      OBVIOUS
    <3>1. i + 1 \in 2..(n + 2) /\ (i + 1) - 1 = i
      BY <1>0
    <3>2. q[i + 1] = A[(i + 1) - 1]
      BY <1>5, <3>1
    <3> QED
      BY <2>1, <3>1, <3>2
  <2> QED
    BY <1>3, <2>1, <2>2, SeqEqual
<1> QED
  BY <1>2, <1>7, <1>8, Zenon DEF first, S, E, p, A, q

\* A path is cut in the segments F and the unfinished one, which is c.
CutAs(t, F, c) ==
    /\ F \in Seq(Seq(Nat)) /\ c \in Seq(Nat) /\ Pieces(t, Slash) = Append(<< <<>> >> \o F, c)
WalkedAs(t, F, c) ==
    CutAs(t, F, c) /\ ((\A i \in 1..Len(F) : Usual(F[i])) => Walked(EndOfPath(t), Stack(F), c))

LEMMA WalkStarts == WalkedAs(Append(<<>>, Slash), <<>>, <<>>)
<1> DEFINE t == Append(<<>>, Slash)
           s == EndOfPath(t)
           E == << <<>> >>
<1>1. Slash \in Nat /\ <<>> \in Seq(Nat) /\ <<>> \in Seq(Seq(Nat)) /\ E \in Seq(Seq(Nat))
  BY DEF Slash
<1>2. Pieces(t, Slash) = Append(E \o <<>>, <<>>)
  <2>1. Pieces(t, Slash) = PiecesNext(E, Slash, Slash)
    BY <1>1, PiecesAppend, PiecesEmpty
  <2>2. E \o <<>> = E
    BY <1>1, ConcatEmptySeq
  <2> QED
    BY <2>1, <2>2, Zenon DEF PiecesNext
<1>3. s = PathState(Append(<<>>, 1), t, 0, Defined)
  <2> DEFINE e == <<>>
             start == PathState(e, e, 0, Defined)
  <2>1. s = NormalizeNext(StartOfPath, Slash)
    BY <1>1, PathAppend, PathEmpty
  <2>2. StartOfPath = start
    BY Zenon DEF StartOfPath, PathState, Defined
  <2>3. Len(e) + 1 = 1 /\ 0 \in Nat
    OBVIOUS
  <2>4. NormalizeNext(start, Slash) = PathState(Append(e, Len(e) + 1), Append(e, Slash), 0, Defined)
    <3> DEFINE begun == start
    <3>1. begun = PathState(e, e, 0, Defined)
      OBVIOUS
    <3> HIDE DEF begun, start, e
    <3>2. Slash = Slash /\ 0 = 0 =>
            NormalizeNext(begun, Slash) = PathState(Append(e, Len(e) + 1), Append(e, Slash), 0, Defined)
      BY <2>3, <3>1, NormalizeNextIs
    <3> QED
      BY <3>2, Zenon DEF begun
  <2> QED
    BY <2>1, <2>2, <2>3, <2>4
<1>4. t = Base(<<>>)
  BY JoinedIs, Zenon DEF Base
<1>5. Marks(Append(<<>>, 1), <<>>)
  <2> DEFINE dir == Append(<<>>, 1)
             K == <<>>
  <2>1. dir \in Seq(Nat) /\ Len(dir) = 1 /\ dir[1] = 1 /\ Len(K) = 0
    OBVIOUS
  <2>2. Len(Base(K)) = 1
    <3>1. Len(t) = 1
      BY <1>1
    <3> QED
      BY <1>4, <3>1, Zenon
  <2>3. SubSeq(K, 1, 0) = K
    OBVIOUS
  <2> HIDE DEF dir, K
  <2>4. \A k \in 0..Len(K) : dir[k + 1] = Len(Base(SubSeq(K, 1, k)))
    <3>1. \A k \in 0..Len(K) : k = 0 /\ k + 1 = 1
      BY <2>1
    <3> QED
      BY <2>1, <2>2, <2>3, <3>1, Zenon
  <2>5. Len(dir) = Len(K) + 1
    BY <2>1
  <2> QED
    BY <2>1, <2>4, <2>5, Zenon DEF Marks, dir, K
<1>6. Walked(s, <<>>, <<>>)
  <2> DEFINE K == <<>>
             dir == Append(<<>>, 1)
  <2>1. K \in Seq(Seq(Nat)) /\ Marks(dir, K) /\ s = PathState(dir, Base(K), 0, Defined)
    BY <1>1, <1>3, <1>4, <1>5, Zenon
  <2> HIDE DEF K, dir, s
  <2>2. Walked(s, K, <<>>)
    BY <2>1, Between
  <2> QED
    BY <2>2 DEF K
<1> QED
  BY <1>1, <1>2, <1>6, StackEmpty, Zenon DEF WalkedAs, CutAs

LEMMA WalkGoesOn ==
    ASSUME NEW t \in Seq(Nat), NEW x \in Nat, NEW F, NEW c, WalkedAs(t, F, c)
    PROVE  \E G, e : WalkedAs(Append(t, x), G, e)
<1> DEFINE u == Append(t, x)
           s == EndOfPath(t)
           K == Stack(F)
           E == << <<>> >> \o F
<1>1. /\ F \in Seq(Seq(Nat)) /\ c \in Seq(Nat) /\ Pieces(t, Slash) = Append(E, c)
      /\ (\A i \in 1..Len(F) : Usual(F[i])) => Walked(s, K, c)
  BY Zenon DEF WalkedAs, CutAs
<1>2. Pieces(u, Slash) = PiecesNext(Append(E, c), x, Slash)
  BY <1>1, PiecesAppend
<1>3. EndOfPath(u) = NormalizeNext(s, x)
  BY PathAppend
<1>4. E \in Seq(Seq(Nat))
  BY <1>1, BehindFirst
<1> HIDE DEF s, K, u
<1>5. CASE x = Slash
  <2> DEFINE G == Append(F, c)
  <2>1. /\ G \in Seq(Seq(Nat)) /\ Len(G) = Len(F) + 1 /\ G[Len(F) + 1] = c
        /\ \A i \in 1..Len(F) : G[i] = F[i]
    BY <1>1, AppendProperties
  <2>2. Pieces(u, Slash) = Append(<< <<>> >> \o G, <<>>)
    <3>1. Append(E, c) = << <<>> >> \o G
      BY <1>1, BehindFirst
    <3> HIDE DEF E
    <3>2. PiecesNext(Append(E, c), x, Slash) = Append(Append(E, c), <<>>)
      BY <1>1, <1>4, <1>5, PiecesTurn
    <3> QED
      BY <1>2, <3>1, <3>2, Zenon
  <2>3. Stack(G) = Push(K, c)
    <3> DEFINE S == Seq(Nat)
    <3>1. F \in Seq(S) /\ c \in S
      BY <1>1
    <3> HIDE DEF S
    <3> QED
      BY <3>1, StackAppend DEF K
  <2> HIDE DEF G
  <2>4. ASSUME \A i \in 1..Len(G) : Usual(G[i]) PROVE Walked(EndOfPath(u), Stack(G), <<>>)
    <3>1. Len(F) \in Nat /\ Len(F) + 1 \in 1..Len(G) /\ \A i \in 1..Len(F) : i \in 1..Len(G)
      BY <1>1, <2>1
    <3>2. Usual(c) /\ \A i \in 1..Len(F) : Usual(F[i])
      BY <2>1, <2>4, <3>1, Zenon
    <3>3. Walked(s, K, c)
      BY <1>1, <3>2, Zenon
    <3>4. Walked(NormalizeNext(s, Slash), Push(K, c), <<>>)
      BY <3>2, <3>3, WalkedSlash
    <3> QED
      BY <1>3, <1>5, <2>3, <3>4, Zenon
  <2>5. <<>> \in Seq(Nat)
    OBVIOUS
  <2>6. WalkedAs(u, G, <<>>)
    BY <2>1, <2>2, <2>4, <2>5, Zenon DEF WalkedAs, CutAs
  <2> QED
    BY <2>6, Zenon DEF u
<1>6. CASE x # Slash
  <2> DEFINE e == Append(c, x)
  <2>1. e \in Seq(Nat)
    BY <1>1, AppendProperties
  <2>2. Pieces(u, Slash) = Append(E, e)
    <3> HIDE DEF E
    <3>1. PiecesNext(Append(E, c), x, Slash) = Append(E, e)
      BY <1>1, <1>4, <1>6, PiecesTurn
    <3> QED
      BY <1>2, <3>1, Zenon
  <2>3. ASSUME \A i \in 1..Len(F) : Usual(F[i]) PROVE Walked(EndOfPath(u), K, e)
    <3>1. Walked(s, K, c)
      BY <1>1, <2>3, Zenon
    <3>2. CASE x = Dot
      <4>1. Walked(NormalizeNext(s, Dot), K, Append(c, Dot))
        BY <3>1, WalkedDot
      <4> QED
        BY <1>3, <3>2, <4>1, Zenon
    <3>3. CASE x # Dot
      <4>1. Walked(NormalizeNext(s, x), K, Append(c, x))
        BY <1>6, <3>1, <3>3, WalkedOther
      <4> QED
        BY <1>3, <4>1, Zenon
    <3> QED
      BY <3>2, <3>3
  <2> HIDE DEF e
  <2>4. WalkedAs(u, F, e)
    BY <1>1, <2>1, <2>2, <2>3, Zenon DEF WalkedAs, CutAs, K
  <2> QED
    BY <2>4, Zenon DEF u
<1> QED
  BY <1>5, <1>6

LEMMA AlwaysWalked ==
    ASSUME NEW t \in Seq(Nat), t # <<>>, t[1] = Slash
    PROVE  \E F, c : WalkedAs(t, F, c)
<1> DEFINE Good(u) == u # <<>> /\ u[1] = Slash => \E F, c : WalkedAs(u, F, c)
           T == {u \in Seq(Nat) : Good(u)}
<1>1. <<>> \in T
  OBVIOUS
<1>2. ASSUME NEW u \in Seq(Nat), NEW x \in Nat, u \in T PROVE Append(u, x) \in T
  <2>1. Good(u)
    BY <1>2
  <2>2. Append(u, x) \in Seq(Nat)
    BY AppendProperties
  <2>3. Good(Append(u, x))
    <3> SUFFICES ASSUME Append(u, x)[1] = Slash PROVE \E F, c : WalkedAs(Append(u, x), F, c)
      BY Zenon
    <3>1. CASE u = <<>>
      <4>1. x = Slash
        BY <3>1
      <4> QED
        BY <3>1, <4>1, WalkStarts, Zenon
    <3>2. CASE u # <<>>
      <4>1. u[1] = Slash
        <5>1. 1 \in 1..Len(u)
          BY <3>2, EmptySeq, LenProperties
        <5>2. Append(u, x)[1] = u[1]
          BY <5>1, AppendProperties
        <5> QED
          BY <5>2, Zenon
      <4>2. PICK F, c : WalkedAs(u, F, c)
        BY <2>1, <3>2, <4>1, Zenon
      <4> QED
        BY <4>2, WalkGoesOn
    <3> QED
      BY <3>1, <3>2
  <2> HIDE DEF Good
  <2> QED
    BY <2>2, <2>3
<1> HIDE DEF T
<1>3. \A u \in Seq(Nat) : u \in T
  BY <1>1, <1>2, AppendInduction
<1>4. t \in T
  BY <1>3
<1> QED
  BY <1>4, Zenon DEF T

\* A path of any length from the root, whose segments end in a dot only if they
\* are dot segments: what the normalization makes of it is what a stack of
\* directories would, and no iterator is used that does not exist.
THEOREM DotSegmentsCorrect == RfcSpec => []DotSegmentsRemoved
<1>1. ASSUME InputType PROVE DotSegmentsRemoved
  <2> DEFINE s == EndOfPath(input)
             segments == Segmented(input)
  <2> SUFFICES ASSUME subject = "path", input # <<>>, input[1] = Slash,
                      \A i \in 1..Len(segments) - 1 : Usual(segments[i])
               PROVE  PathNormalize(input) = [str |-> Joined(Removed(segments)), defined |-> TRUE]
    BY Zenon DEF DotSegmentsRemoved
  <2>1. Values("path") = Nat
    BY DEF Values
  <2>2. input \in Seq(Nat)
    BY <1>1, <2>1 DEF InputType
  <2>3. PICK F, c : WalkedAs(input, F, c)
    BY <2>2, AlwaysWalked
  <2>4. F \in Seq(Seq(Nat)) /\ c \in Seq(Nat) /\ Pieces(input, Slash) = Append(<< <<>> >> \o F, c)
    BY <2>3, Zenon DEF WalkedAs, CutAs
  <2> DEFINE G == Append(F, c)
             K == Stack(F)
  <2>5. segments = G
    BY <2>4, BehindFirst, Zenon DEF Segmented
  <2>6. /\ G \in Seq(Seq(Nat)) /\ Len(G) = Len(F) + 1 /\ G[Len(F) + 1] = c
        /\ Len(F) \in Nat /\ \A i \in 1..Len(F) : G[i] = F[i]
    BY <2>4, AppendProperties
  <2> HIDE DEF G
  <2>7. Last(G) = c /\ Front(G) = F
    <3>1. Last(G) = c
      BY <2>6 DEF Last
    <3>2. Front(G) = SubSeq(G, 1, Len(G) - 1) /\ Len(G) - 1 = Len(F)
      BY <2>6 DEF Front
    <3> DEFINE S == Seq(Nat)
               p == SubSeq(G, 1, Len(F))
    <3>3. G \in Seq(S) /\ F \in Seq(S)
      BY <2>4, <2>6
    <3> HIDE DEF S
    <3>4. p \in Seq(S) /\ Len(p) = Len(F) /\ \A i \in 1..Len(F) : p[i] = G[i]
      BY <2>6, <3>3
    <3> HIDE DEF p
    <3>5. \A i \in 1..Len(F) : p[i] = F[i]
      BY <2>6, <3>4, Zenon
    <3>6. p = F
      BY <3>3, <3>4, <3>5, SeqEqual
    <3> QED
      BY <3>1, <3>2, <3>6 DEF p
  <2>8. Removed(segments) = Append(K, c)
    BY <2>5, <2>7, Zenon DEF Removed
  <2>9. \A i \in 1..Len(F) : Usual(F[i])
    <3>1. Len(segments) - 1 = Len(F)
      BY <2>5, <2>6
    <3> QED
      BY <2>5, <2>6, <3>1, Zenon
  <2>10. Walked(s, K, c)
    BY <2>3, <2>9, Zenon DEF WalkedAs
  <2>11. PICK dir, b, d : Holds(s, K, c, dir, b, d)
    BY <2>10, Zenon DEF Walked
  <2> HIDE DEF s, K
  <2>12. WithDots(s) = Base(K) \o c
    BY <2>11, WithDotsIs, Zenon
  <2>13. K \in Seq(Seq(Nat)) /\ s = PathState(dir, Base(K) \o b, d, Defined)
    BY <2>11, Zenon DEF Holds
  <2>14. s.defined = TRUE
    <3> DEFINE out == Base(K) \o b
    <3>1. s = PathState(dir, out, d, Defined)
      BY <2>13
    <3> HIDE DEF out
    <3>2. s.defined = Defined
      BY <3>1, PathStateIs
    <3> QED
      BY <3>2, Zenon DEF Defined
  <2>15. WithDots(s) = Joined(Removed(segments))
    BY <2>4, <2>8, <2>12, <2>13, JoinedIs, Zenon
  <2> QED
    BY <2>14, <2>15, Zenon DEF PathNormalize, Normalized, s
<1> QED
  BY <1>1, InputTypeInvariance, PTL
=============================================================================
