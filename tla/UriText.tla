------------------------------- MODULE UriText -------------------------------
(***************************************************************************)
(* The text operations of uri.cpp: classes of characters, the two percent  *)
(* decoders and the removal of dot segments.                               *)
(*                                                                         *)
(* A character is its code, 0..255, so that the classes and the decoding   *)
(* are the code's own; a string is a sequence of characters.               *)
(***************************************************************************)
EXTENDS Naturals, Sequences, SequencesExt

Hash == 35
Percent == 37
Dot == 46
Slash == 47
Colon == 58
Question == 63
At == 64

Chars == 0..255
ALPHA == (65..90) \cup (97..122)
DIGIT == 48..57
HEXDIG == DIGIT \cup (65..70) \cup (97..102)
WhiteSpace == (9..13) \cup {32}

unreserved == ALPHA \cup DIGIT \cup {45, Dot, 95, 126}
gen_delims == {Hash, Slash, Colon, Question, At, 91, 93}
sub_delims == {33, 36, 38, 39, 40, 41, 42, 43, 44, 59, 61}
reserved == gen_delims \cup sub_delims
pchar == unreserved \cup sub_delims \cup {Percent, Colon, At}

ToLower(c) == IF c \in 65..90 THEN c + 32 ELSE c
ToUpper(c) == IF c \in 97..122 THEN c - 32 ELSE c

(* The value of a digit and of an upper-case A to F.                       *)
Nibble(c) == IF c \in DIGIT THEN c - 48 ELSE c - 55

(* What may be read as a delimiter, or as an escape, stays escaped.        *)
\* Faulty variant: an escaped "%" is decoded, and read as an escape later.
KeptDelimiters == reserved
KeptEncoded == reserved \cup {Percent}

Unescape(escape) ==
    LET n == 16 * Nibble(escape[2]) + Nibble(escape[3])
    IN  IF n \in KeptEncoded THEN escape ELSE <<n>>

(***************************************************************************)
(* _S_percent_decode(std::string*, bool).  The text comes through operator *)
(* >>, which skips white space.  A malformed text is left as it was.       *)
(***************************************************************************)
Unescaped(end, str) ==
    IF end.ok /\ end.escape = <<>> THEN [ok |-> TRUE, str |-> end.out]
                                   ELSE [ok |-> FALSE, str |-> str]

StartOfDecode == [ok |-> TRUE, escape |-> <<>>, out |-> <<>>]

DecodeNext(s, c, tolower) ==
    IF ~s.ok \/ c \in WhiteSpace THEN s
    ELSE CASE s.escape = <<>> /\ c = Percent -> [s EXCEPT !.escape = <<c>>]
           [] s.escape = <<>> /\ c # Percent ->
                [s EXCEPT !.out = Append(@, IF tolower THEN ToLower(c) ELSE c)]
           [] s.escape # <<>> /\ c \notin HEXDIG -> [s EXCEPT !.ok = FALSE]
           [] Len(s.escape) = 1 /\ c \in HEXDIG -> [s EXCEPT !.escape = Append(@, ToUpper(c))]
           [] OTHER -> [s EXCEPT !.escape = <<>>,
                           !.out = @ \o Unescape(Append(s.escape, ToUpper(c)))]

EndOfDecode(str, tolower) ==
    LET decode[i \in 0..Len(str)] ==
          IF i = 0 THEN StartOfDecode ELSE DecodeNext(decode[i - 1], str[i], tolower)
    IN  decode[Len(str)]

PercentDecode(str, tolower) == Unescaped(EndOfDecode(str, tolower), str)

(***************************************************************************)
(* _S_percent_decode(const std::string&), for the norm_ observers: every   *)
(* escape is decoded, an unfinished one dropped.  What it is given has     *)
(* upper-case escapes only.                                                *)
(***************************************************************************)
DecodedNext(s, c) ==
    CASE s.escape = <<>> /\ c = Percent -> [s EXCEPT !.escape = <<c>>]
      [] s.escape = <<>> /\ c # Percent -> [s EXCEPT !.out = Append(@, c)]
      [] Len(s.escape) = 1 -> [s EXCEPT !.escape = Append(@, c)]
      [] OTHER -> [escape |-> <<>>,
                   out |-> Append(s.out, 16 * Nibble(s.escape[2]) + Nibble(c))]

EndOfDecoded(str) ==
    LET decode[i \in 0..Len(str)] ==
          IF i = 0 THEN [escape |-> <<>>, out |-> <<>>] ELSE DecodedNext(decode[i - 1], str[i])
    IN  decode[Len(str)]

PercentDecoded(str) == EndOfDecoded(str).out

(***************************************************************************)
(* _S_path_normalize.  dir holds the length of the output after each slash *)
(* that was copied; dots is the number of dots read and not yet copied.    *)
(* Two dots before a slash erase the last directory, from the slash before *)
(* it; where dir is older than the output, that is past its end, which is  *)
(* undefined ("defined" tells).                                            *)
(***************************************************************************)
\* Faulty variant: the slash that ends the directory is taken for its start.
StaysInDirectory(s) ==
    IF s.dir = <<>> \/ Last(s.dir) > Len(s.out) THEN s
    ELSE [s EXCEPT !.dir = Front(@), !.out = SubSeq(@, 1, Last(s.dir))]

UpOneDirectory(s) ==
    LET to == s.dir[Len(s.dir) - 1]
    IN  CASE Len(s.dir) > 1 /\ to <= Len(s.out) ->
               [s EXCEPT !.dir = Front(@), !.out = SubSeq(@, 1, to)]
          [] Len(s.dir) > 1 /\ to > Len(s.out) ->
               [s EXCEPT !.dir = Front(@), !.defined = FALSE]
          [] Len(s.dir) <= 1 /\ s.out # <<>> /\ Head(s.out) = Slash ->
               [s EXCEPT !.out = <<Slash>>]
          [] OTHER -> [s EXCEPT !.out = <<>>]

WithDots(s) == s.out \o [i \in 1..s.dots |-> Dot]

Normalized(end) == [str |-> WithDots(end), defined |-> end.defined]

StartOfPath == [dir |-> <<>>, out |-> <<>>, dots |-> 0, defined |-> TRUE]

NormalizeNext(s, c) ==
    CASE c = Dot -> [s EXCEPT !.dots = @ + 1]
      [] c = Slash /\ s.dots = 0 -> [s EXCEPT !.out = Append(@, c), !.dir = Append(@, Len(s.out) + 1)]
      [] c = Slash /\ s.dots = 1 -> [s EXCEPT !.dots = 0]
      [] c = Slash /\ s.dots = 2 -> [UpOneDirectory(s) EXCEPT !.dots = 0]
      [] c = Slash /\ s.dots > 2 -> [s EXCEPT !.out = WithDots(s), !.dots = 0]
      [] OTHER -> [s EXCEPT !.out = Append(WithDots(s), c), !.dots = 0]

EndOfPath(str) ==
    LET path[i \in 0..Len(str)] ==
          IF i = 0 THEN StartOfPath ELSE NormalizeNext(path[i - 1], str[i])
    IN  path[Len(str)]

PathNormalize(str) == Normalized(EndOfPath(str))
=============================================================================
