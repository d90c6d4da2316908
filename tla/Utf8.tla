-------------------------------- MODULE Utf8 --------------------------------
(***************************************************************************)
(* utf8.cpp and utf8.h: serialize and deserialize.  A symbol is its number *)
(* and a string a sequence of symbols or of bytes; the widths that the     *)
(* serialize functions mask with are those of their strings' elements, so  *)
(* the masks change nothing and one operator stands for all of them.       *)
(***************************************************************************)
EXTENDS Naturals, Sequences, SequencesExt

IsSurrogate(symbol) == symbol >= 55296 /\ symbol <= 57343      \* 0xD800..0xDFFF

(* _S_estimate_buf_size; 0 stands for static_cast<size_t>(-1)              *)
\* Faulty variant: surrogates are taken for symbols.
EstimateOfAny(symbol) ==
    IF symbol <= 127 THEN 1 ELSE IF symbol <= 2047 THEN 2
    ELSE IF symbol <= 65535 THEN 3 ELSE IF symbol <= 1114111 THEN 4 ELSE 0

EstimateBufSize(symbol) ==
    IF symbol <= 127 THEN 1 ELSE IF symbol <= 2047 THEN 2
    ELSE IF symbol <= 65535 THEN IF IsSurrogate(symbol) THEN 0 ELSE 3
    ELSE IF symbol <= 1114111 THEN 4 ELSE 0

(* _S_encode: the bits of a symbol from the top, six in each trailer       *)
TrailerByte(bits) == 128 + (bits % 64)
Encode(symbol) ==
    IF symbol <= 127 THEN <<symbol>>
    ELSE IF symbol <= 2047 THEN <<192 + symbol \div 64, TrailerByte(symbol)>>
    ELSE IF symbol <= 65535
         THEN <<224 + symbol \div 4096, TrailerByte(symbol \div 64), TrailerByte(symbol)>>
    ELSE <<240 + symbol \div 262144, TrailerByte(symbol \div 4096),
           TrailerByte(symbol \div 64), TrailerByte(symbol)>>

(* serialize, of a string: nothing is appended if any symbol is refused    *)
Serialize(input, result) ==
    IF \E i \in DOMAIN input : EstimateBufSize(input[i]) = 0
    THEN [ok |-> FALSE, errno |-> "UTF8_BADSYM", result |-> result]
    ELSE [ok |-> TRUE, errno |-> "SUCCESS",
          result |-> result \o FlattenSeq([i \in DOMAIN input |-> Encode(input[i])])]

(* serialize, of a single symbol                                           *)
SerializeSymbol(symbol, result) ==
    IF symbol > 1114111 \/ IsSurrogate(symbol)
    THEN [ok |-> FALSE, errno |-> "UTF8_BADSYM", result |-> result]
    ELSE [ok |-> TRUE, errno |-> "SUCCESS", result |-> result \o Encode(symbol)]

(***************************************************************************)
(* deserialize.  "state" counts the trailers that are still to come, which *)
(* nothing asks at the end of the input.                                   *)
(***************************************************************************)
TrailersOf(head) ==
    CASE head \in 192..223 -> 1
      [] head \in 224..239 -> 2
      [] head \in 240..247 -> 3
      [] OTHER -> 0

HeadBits(head) == head % (<<32, 16, 8>>[TrailersOf(head)])

Failed(s, error) == [s EXCEPT !.ok = FALSE, !.errno = error]

DeserializeHead(s, c) ==
    CASE c < 128 -> [s EXCEPT !.result = Append(@, c)]
      [] TrailersOf(c) > 0 -> [s EXCEPT !.state = TrailersOf(c), !.symbol = HeadBits(c)]
      [] OTHER -> Failed(s, "UTF8_BADHEAD")

DeserializeTrailer(s, c) ==
    LET symbol == 64 * s.symbol + (c % 64)
    IN  IF c \in 128..191
        THEN [s EXCEPT !.state = @ - 1, !.symbol = symbol,
                       !.result = IF s.state = 1 THEN Append(@, symbol) ELSE @]
        ELSE Failed(s, "UTF8_BADTRAIL")

DeserializeTurn(s, c) ==
    IF ~s.ok THEN s ELSE IF s.state = 0 THEN DeserializeHead(s, c) ELSE DeserializeTrailer(s, c)

Deserialize(input, result) ==
    LET run[i \in 0..Len(input)] ==
          IF i = 0 THEN [ok |-> TRUE, errno |-> "SUCCESS", state |-> 0, symbol |-> 0, result |-> result]
          ELSE DeserializeTurn(run[i - 1], input[i])
    IN  run[Len(input)]
=============================================================================
