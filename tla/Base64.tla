------------------------------- MODULE Base64 -------------------------------
(***************************************************************************)
(* base64.cpp.  Data is a sequence of bytes.  A symbol of the alphabet is  *)
(* its index, 0..63; "=" and the characters of no use are Pad and BadSymbol *)
(* (what the reverse lookup returns for them).                             *)
(*                                                                         *)
(* A result that stays as it was is NotStored: encode and decode return    *)
(* true for empty data and leave *result alone.                            *)
(***************************************************************************)
EXTENDS Naturals, Sequences, SequencesExt

Pad == 65
BadSymbol == 64
NotStored == <<256>>

(* reg24, by its symbols and by its bytes                                  *)
Symbols(reg24) == <<reg24 \div 262144, (reg24 \div 4096) % 64, (reg24 \div 64) % 64, reg24 % 64>>
Bytes(reg24) == <<reg24 \div 65536, (reg24 \div 256) % 256, reg24 % 256>>
Reg24(a, b, c) == 65536 * a + 256 * b + c

(* _S_run_encode                                                           *)
RunEncode(data) ==
    FlattenSeq([i \in 1..Len(data) \div 3 |->
                  Symbols(Reg24(data[3 * i - 2], data[3 * i - 1], data[3 * i]))])

(* _S_pad_stream: the symbols that hold bits of the last one or two bytes  *)
PadCount(n) == ((n % 3) + ((n + 1) % 3)) - 1

PadStream(data) ==
    LET n == Len(data)
        pad == PadCount(n)
        reg24 == IF pad = 1 THEN Reg24(data[n - 1], data[n], 0) ELSE Reg24(data[n], 0, 0)
    IN  IF pad = 0 THEN <<>>
        ELSE SubSeq(Symbols(reg24), 1, 4 - pad) \o [i \in 1..pad |-> Pad]

EncodeBase64(data) == IF data = <<>> THEN NotStored ELSE RunEncode(data) \o PadStream(data)

(***************************************************************************)
(* _S_run_decode: "=" is skipped wherever it stands and counted in the     *)
(* last two places only.                                                   *)
(***************************************************************************)
\* Faulty variant: "=" is counted wherever it stands.
CountsAnywhere(data, i) == TRUE
CountsAsPadding(data, i) == Len(data) - i < 2

StartOfRun == [errno |-> "SUCCESS", padding |-> 0, tally |-> 0, reg24 |-> 0, stream |-> <<>>]

DecodeSymbol(s, symbol) ==
    IF s.tally = 3
    THEN [s EXCEPT !.stream = @ \o Bytes(s.reg24 + symbol), !.tally = 0, !.reg24 = 0]
    ELSE [s EXCEPT !.tally = @ + 1, !.reg24 = 64 * (@ + symbol)]

DecodeTurn(s, data, i) ==
    IF s.errno # "SUCCESS" THEN s
    ELSE IF data[i] = Pad THEN IF CountsAsPadding(data, i) THEN [s EXCEPT !.padding = @ + 1] ELSE s
    ELSE IF data[i] = BadSymbol THEN [s EXCEPT !.errno = "B64_BADSYM"]
    ELSE DecodeSymbol(s, data[i])

RunDecode(data) ==
    LET run[i \in 0..Len(data)] == IF i = 0 THEN StartOfRun ELSE DecodeTurn(run[i - 1], data, i)
    IN  run[Len(data)]

(* _S_unpad_stream                                                         *)
UnpadStream(s) ==
    LET reg24 == IF s.padding = 2 THEN 64 * s.reg24 ELSE s.reg24
    IN  IF s.errno # "SUCCESS" \/ s.padding + s.tally = 0 THEN s
        ELSE IF s.padding + s.tally = 4
        THEN [s EXCEPT !.stream = @ \o SubSeq(Bytes(reg24), 1, IF s.padding = 2 THEN 1 ELSE 2)]
        ELSE [s EXCEPT !.errno = "B64_BADPAD"]

EndDecode(s) ==
    [errno |-> s.errno, result |-> IF s.errno = "SUCCESS" THEN s.stream ELSE NotStored]

DecodeBase64(data) ==
    IF data = <<>> THEN [errno |-> "SUCCESS", result |-> NotStored]
    ELSE EndDecode(UnpadStream(RunDecode(data)))
=============================================================================
