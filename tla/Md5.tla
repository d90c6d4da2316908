--------------------------------- MODULE Md5 ---------------------------------
(***************************************************************************)
(* md5.cpp: the padded message and the chunks that are hashed of it.  The  *)
(* hash is abstract: it is the sequence of the chunks.                     *)
(***************************************************************************)
EXTENDS Naturals, Sequences

(* _S_preprocess *)
\* Faulty variant: a length that ends its chunk is taken for one that does not.
ZeroPadBelow(size) ==
    LET modulo1 == (size + 1) % 64
    IN  IF modulo1 < 56 THEN 56 - modulo1 ELSE 120 - modulo1

ZeroPadLength(size) ==
    LET modulo1 == (size + 1) % 64
    IN  IF modulo1 <= 56 THEN 56 - modulo1 ELSE 120 - modulo1

(* The size in bits, least octet first, of as many octets as a size_t has. *)
Shifted(n) == LET f[i \in 0..7] == IF i = 0 THEN n ELSE f[i - 1] \div 256 IN f
Trailer(size) == [i \in 1..8 |-> Shifted(8 * size)[i - 1] % 256]

Preprocess(message) ==
    message \o (<<128>> \o ([i \in 1..ZeroPadLength(Len(message)) |-> 0] \o Trailer(Len(message))))

(* _S_process: the chunks; it reads past the end if the last is too short  *)
Chunks(padded) == [c \in 1..(Len(padded) + 63) \div 64 |->
                     [i \in 1..64 |-> padded[64 * (c - 1) + i]]]

Md5Chunks(message) == Chunks(Preprocess(message))
=============================================================================
