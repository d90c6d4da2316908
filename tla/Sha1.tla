-------------------------------- MODULE Sha1 --------------------------------
(***************************************************************************)
(* sha1.cpp: how a message is cut into the blocks that are hashed.         *)
(*                                                                         *)
(* The hash itself is abstract: "hashed" is all that process_message_block *)
(* was given so far, in order, and stands for intermediate_hash.  The      *)
(* block holds the first message_block_index bytes of message_block.  The  *)
(* size of an unsigned int is a parameter, so that TLC sees one wrap.      *)
(***************************************************************************)
EXTENDS Naturals, Sequences

CONSTANTS
    Byte,       \* the bytes of messages
    Sizes,      \* their sizes
    Word        \* 2^32: one more than the greatest unsigned int

ASSUME SizesAssumption == Sizes \subseteq Nat
ASSUME WordAssumption == Word \in Nat \ {0} /\ Word % 8 = 0
ASSUME ByteAssumption == {0, 128} \subseteq Byte /\ Byte \subseteq 0..255

VARIABLES
    size,           \* __message.length()
    left,           \* __length of _S_input
    message,        \* history: the bytes that were input
    hashed,
    block,
    length_low, length_high,
    corrupted, computed,
    answer          \* of digest: none yet, a digest, or the exception it throws

given == <<size, left>>
context == <<hashed, block, length_low, length_high, corrupted, computed>>
vars == <<given, message, context, answer>>

(* _S_reset, and the call of _S_input: it takes the size as an unsigned int. *)
Init ==
    /\ size \in Sizes /\ left = size % Word
    /\ message = <<>> /\ hashed = <<>> /\ block = <<>>
    /\ length_low = 0 /\ length_high = 0
    /\ corrupted = FALSE /\ computed = FALSE
    /\ answer = "none"

(* _S_process_message_block, of one block after the other                  *)
ProcessMessageBlock(blocks) == hashed \o blocks

(* One turn of _S_input's loop; eight bits more are counted.               *)
\* Faulty variant: the low word wraps unnoticed.
NoCarry(low) == FALSE
Carry(low) == low = 0

Loops == left > 0 /\ ~corrupted

Input(byte) ==
    LET full == Append(block, byte)
        low == (length_low + 8) % Word
        high == IF Carry(low) THEN (length_high + 1) % Word ELSE length_high
    IN  /\ answer = "none" /\ Loops
        /\ left' = left - 1
        /\ message' = Append(message, byte)
        /\ length_low' = low
        /\ length_high' = high
        /\ corrupted' = (Carry(low) /\ high = 0)
        /\ IF Len(full) = 64
           THEN hashed' = ProcessMessageBlock(full) /\ block' = <<>>
           ELSE block' = full /\ UNCHANGED hashed
        /\ UNCHANGED <<size, computed, answer>>

(***************************************************************************)
(* _S_pad_message: where 0x80 and the length do not fit into the block, it *)
(* is filled up and hashed, and a block of its own has the length.         *)
(***************************************************************************)
Zeros(n) == [i \in 1..n |-> 0]
Octets(word) == <<(word \div 16777216) % 256, (word \div 65536) % 256, (word \div 256) % 256, word % 256>>
\* Faulty variant: the length is put where 0x80 fills its first octet.
FitsUpTo56(index) == index > 56
NeedsTwoBlocks(index) == index > 55

Padding ==
    LET start == Append(block, 128)
        length == Octets(length_high) \o Octets(length_low)
    IN  IF NeedsTwoBlocks(Len(block))
        THEN (start \o Zeros(64 - Len(start))) \o (Zeros(56) \o length)
        ELSE (start \o Zeros(56 - Len(start))) \o length

(* _S_result, and what digest makes of its status.  (The other errors that *)
(* digest tests for would need a call that it does not make.)              *)
Result ==
    /\ answer = "none" /\ ~Loops
    /\ IF corrupted
       THEN answer' = "internal_error" /\ UNCHANGED context
       ELSE /\ hashed' = ProcessMessageBlock(Padding)
            /\ block' = <<>>
            /\ length_low' = 0 /\ length_high' = 0
            /\ computed' = TRUE
            /\ answer' = "digest"
            /\ UNCHANGED corrupted
    /\ UNCHANGED <<given, message>>

Next == (\E byte \in Byte : Input(byte)) \/ Result

Spec == Init /\ [][Next]_vars

------------------------------------------------------------------------------
TypeOK ==
    /\ size \in Sizes /\ left \in 0..Word - 1
    /\ message \in Seq(Byte) /\ hashed \in Seq(Nat) /\ block \in Seq(Byte)
    /\ length_low \in 0..Word - 1 /\ length_high \in 0..Word - 1
    /\ corrupted \in BOOLEAN /\ computed \in BOOLEAN
    /\ answer \in {"none", "digest", "internal_error"}

(* The zeros that make a message, 0x80, and eight octets a multiple of 64. *)
ZeroCount(n) == (119 - (n % 64)) % 64
Bits(n) == 8 * n

(***************************************************************************)
(* What is hashed is the message, 0x80, the zeros that make whole blocks,  *)
(* and the number of the message's bits in two words; the message is all   *)
(* of what was given, unless its size is not an unsigned int.              *)
(***************************************************************************)
PaddedAsSpecified ==
    answer = "digest" =>
        /\ size < Word => Len(message) = size
        /\ hashed = message \o (<<128>> \o (Zeros(ZeroCount(Len(message)))
                      \o (Octets(Bits(Len(message)) \div Word) \o Octets(Bits(Len(message)) % Word))))

(***************************************************************************)
(* The two words count the bits of what was read; they cannot wrap, so a   *)
(* message is never "too long", and digest does not throw.                 *)
(***************************************************************************)
CountsEveryBit ==
    /\ answer # "internal_error"
    /\ answer = "none" => length_high * Word + length_low = Bits(Len(message))
=============================================================================
