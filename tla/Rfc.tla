--------------------------------- MODULE Rfc ---------------------------------
(***************************************************************************)
(* The pure functions of src/Sockets/Source/rfc, and what is promised of   *)
(* them.  A behaviour chooses a subject, which is what its input is for,   *)
(* and then reads the input piece by piece; each property speaks of the    *)
(* function that its subjects are for.                                     *)
(***************************************************************************)
EXTENDS UriGrammar, Utf8, Base64, Md5, Sha1

CONSTANTS
    Subjects    \* of each subject, the start of its inputs and, one after
                \* the other, the sets of the pieces that may follow

(* What the inputs of a subject are made of: bytes, symbols of base64 (and *)
(* what the lookup returns for other characters), or characters.           *)
Values(s) == CASE s \in {"utf8", "bytes", "md5"} -> 0..255
               [] s = "base64" -> 0..Pad
               [] OTHER -> Nat

ASSUME SubjectsAssumption ==
    \A s \in DOMAIN Subjects :
        /\ Subjects[s].start \in Seq(Values(s))
        /\ Subjects[s].pieces \in Seq(SUBSET Seq(Values(s)))

VARIABLES
    subject,
    read,       \* how many pieces the input has
    input

reading == <<subject, read, input>>

Start ==
    /\ subject \in DOMAIN Subjects
    /\ read = 0
    /\ input = Subjects[subject].start

Read ==
    /\ read < Len(Subjects[subject].pieces)
    /\ read' = read + 1
    /\ \E piece \in Subjects[subject].pieces[read'] : input' = input \o piece
    /\ UNCHANGED subject

RfcSpec == Start /\ [][Read]_reading

------------------------------------------------------------------------------
(***************************************************************************)
(* Decoding a component keeps what it means: a well-encoded text without   *)
(* white space is accepted, decoding the rest later gives the text that    *)
(* the escapes stand for, and no delimiter appears or goes.                *)
(***************************************************************************)
HexValue(c) == Nibble(ToUpper(c))
StandsFor(str, i) ==
    IF str[i] = Percent THEN 16 * HexValue(str[i + 1]) + HexValue(str[i + 2]) ELSE str[i]
InEscape(str, i) == \E k \in {1, 2} : i > k /\ str[i - k] = Percent
Meaning(str) ==
    LET part[i \in 0..Len(str)] ==
          IF i = 0 THEN <<>>
          ELSE IF InEscape(str, i) THEN part[i - 1] ELSE Append(part[i - 1], StandsFor(str, i))
    IN  part[Len(str)]
Delimiters(str) ==
    LET part[i \in 0..Len(str)] ==
          IF i = 0 THEN <<>>
          ELSE IF str[i] \in reserved THEN Append(part[i - 1], str[i]) ELSE part[i - 1]
    IN  part[Len(str)]

DecodingKeepsMeaning ==
    subject = "escapes" /\ Of(input, Chars \ WhiteSpace) =>
        LET decoded == PercentDecode(input, FALSE)
        IN  /\ decoded.ok <=> WellEncoded(input)
            /\ decoded.ok => /\ PercentDecoded(decoded.str) = Meaning(input)
                             /\ Delimiters(decoded.str) = Delimiters(input)

(***************************************************************************)
(* Dot segments are removed as a stack of directories would, from absolute *)
(* paths without empty segments; a last segment "." or ".." stays, as      *)
(* test_uri.cpp:231 wants it.  Excepted are segments that only end in a    *)
(* dot, or are three dots or more: the code takes their dots for a dot     *)
(* segment's.                                                              *)
(***************************************************************************)
Segmented(path) == Tail(Pieces(path, Slash))
Joined(segments) == FlattenSeq([i \in DOMAIN segments |-> <<Slash>> \o segments[i]])
Push(out, s) ==
    CASE s = <<Dot>> -> out
      [] s = <<Dot, Dot>> -> IF out = <<>> THEN out ELSE Front(out)
      [] OTHER -> Append(out, s)
Stack(segments) ==
    LET out[i \in 0..Len(segments)] == IF i = 0 THEN <<>> ELSE Push(out[i - 1], segments[i])
    IN  out[Len(segments)]
Removed(segments) == Append(Stack(Front(segments)), Last(segments))

Usual(s) == s # <<>> /\ (Last(s) = Dot => s \in {<<Dot>>, <<Dot, Dot>>})

DotSegmentsRemoved ==
    subject = "path" /\ input # <<>> /\ input[1] = Slash =>
        LET segments == Segmented(input)
        IN  (\A i \in 1..Len(segments) - 1 : Usual(segments[i])) =>
            PathNormalize(input) = [str |-> Joined(Removed(segments)), defined |-> TRUE]

(***************************************************************************)
(* The backward automaton for IPv6 addresses accepts what the grammar      *)
(* does, but for the differences that UriGrammar names.                    *)
(***************************************************************************)
Ipv6AsSpecified ==
    subject \in {"ipv6", "ipv6with4", "octets"} =>
        /\ Ipv6Grammar(input) /\ ~Ipv6Refused(input) => Ipv6(input)
        /\ Ipv6(input) => Ipv6Grammar(input) \/ Ipv6Extra(input)

(***************************************************************************)
(* _S_parse_uri accepts the texts of the grammar, cuts them where the      *)
(* grammar does and stores each part decoded, whatever delimiters the      *)
(* parts contain; and what it accepts, up to the character it stopped at,  *)
(* is of the grammar.  Excepted is what UriGrammar names, and the          *)
(* fragment, which may hold any character.                                 *)
(***************************************************************************)
Decoded(piece, tolower) == PercentDecode(piece, tolower).str
Stored(parts, cut, port) ==
    [EmptyUri EXCEPT !.scheme = parts.scheme, !.has_auth = parts.has_auth,
       !.userinfo = Decoded(SubSeq(parts.auth, 1, cut[1] - 1), FALSE),
       !.host = Decoded(SubSeq(parts.auth, cut[1] + 1, cut[2]), TRUE),
       !.port = IF port = <<>> THEN -1 ELSE Number(port),
       !.path = Decoded(parts.path, FALSE), !.query = Decoded(parts.query, FALSE),
       !.fragment = Decoded(parts.fragment, FALSE)]

Accepts(p, parts) ==
    Syntax(parts) /\ ~RefusedPath(parts) /\ ~RefusedPort(parts.auth) =>
        /\ p.ok /\ p.at = Len(input) + 1
        /\ LET cut == CHOOSE cut \in Authorities(parts.auth) : TRUE
           IN  p.uri = Stored(parts, cut, From(parts.auth, cut[2] + 2))
Sound(parts) == Syntax(parts) \/ AroundLiteral(parts.auth)
UpToFragment(str) == SubSeq(str, 1, FirstOf(str, {Hash}) - 1)

AsSpecified(p) ==
    /\ Accepts(p, Parts(input))
    /\ p.ok /\ input # <<>> => Sound(Parts(UpToFragment(SubSeq(input, 1, p.at - 1))))

UriAsSpecified == subject \in {"scheme", "hier", "authority"} => AsSpecified(ParseUri(input))

\* What stands in the result of a call before it.
Before == <<7>>

(***************************************************************************)
(* Deserializing what was serialized gives the symbols back, nothing is    *)
(* appended for a text with a symbol that is not one, and the room that is *)
(* reserved is what is needed.                                             *)
(***************************************************************************)
Utf8RoundTrip ==
    subject = "symbols" =>
        LET s == Serialize(input, Before)
        IN  /\ s.ok <=> \A i \in DOMAIN input : input[i] <= 1114111 /\ (input[i] < 55296 \/ input[i] > 57343)
            /\ ~s.ok => s.result = Before
            /\ s.ok => /\ Deserialize(Tail(s.result), <<>>).result = input
                       /\ \A i \in DOMAIN input : Len(Encode(input[i])) = EstimateBufSize(input[i])
            /\ Len(input) = 1 => SerializeSymbol(input[1], Before) = s

(***************************************************************************)
(* RFC 3629's well-formed texts are accepted and serialize to themselves.  *)
(* What else is accepted is made of a head and its trailers as well, but   *)
(* may be longer than needed, stand for no symbol, or end too early; what  *)
(* is refused is refused for the first byte that is out of place.          *)
(***************************************************************************)
IsTrailer(c) == c \in 128..191
AddByte(chars, c) ==
    IF IsTrailer(c) /\ chars # <<>> THEN [chars EXCEPT ![Len(chars)] = Append(@, c)] ELSE Append(chars, <<c>>)
Characters(bytes) ==
    LET chars[i \in 0..Len(bytes)] == IF i = 0 THEN <<>> ELSE AddByte(chars[i - 1], bytes[i])
    IN  chars[Len(bytes)]
LengthOf(head) == CASE head < 128 -> 1
                    [] head \in 192..223 -> 2 [] head \in 224..239 -> 3 [] head \in 240..247 -> 4
                    [] OTHER -> 0
IsUtf8(char) ==
    LET second == IF Len(char) > 1 THEN char[2] ELSE 0
    IN  /\ Len(char) = LengthOf(char[1])
        /\ char[1] \in (0..127) \cup (194..244)
        /\ char[1] = 224 => second >= 160
        /\ char[1] = 237 => second <= 159
        /\ char[1] = 240 => second >= 144
        /\ char[1] = 244 => second <= 143

Utf8Accepts ==
    subject = "utf8" =>
        LET chars == Characters(input)
            d == Deserialize(input, <<>>)
            wrong == {i \in DOMAIN chars :
                        \/ Len(chars[i]) > LengthOf(chars[i][1])
                        \/ Len(chars[i]) < LengthOf(chars[i][1]) /\ i < Len(chars)}
        IN  /\ (\A i \in DOMAIN chars : IsUtf8(chars[i])) =>
                  d.ok /\ Serialize(d.result, <<>>).result = input
            /\ d.ok <=> wrong = {}
            /\ ~d.ok => LET char == chars[Min(wrong)]
                         IN  d.errno = IF Len(char) < LengthOf(char[1]) THEN "UTF8_BADTRAIL"
                                                                       ELSE "UTF8_BADHEAD"

(***************************************************************************)
(* The two directions of UTF-8 agree with each other and with RFC 3629.    *)
(***************************************************************************)
Utf8AsSpecified == Utf8RoundTrip /\ Utf8Accepts

(***************************************************************************)
(* Encoding gives whole quadruples, padded at their end only, that decode  *)
(* to the data.  For empty data neither stores a result.                   *)
(***************************************************************************)
Base64RoundTrip ==
    subject = "bytes" =>
        LET e == EncodeBase64(input)
        IN  IF input = <<>> THEN e = NotStored /\ DecodeBase64(input).result = NotStored
            ELSE /\ Len(e) = 4 * ((Len(input) + 2) \div 3)
                 /\ \A i \in 1..Len(e) : e[i] = Pad <=> i > Len(e) - ((3 - (Len(input) % 3)) % 3)
                 /\ DecodeBase64(e) = [errno |-> "SUCCESS", result |-> input]

(***************************************************************************)
(* What decodes is, without its "=", an encoding of the result but for the *)
(* bits of the last symbol that stand for nothing; and an encoding cut     *)
(* short, or with a character that is no symbol, is refused.               *)
(***************************************************************************)
Unpadded(symbols) ==
    LET part[i \in 0..Len(symbols)] ==
          IF i = 0 THEN <<>> ELSE IF symbols[i] = Pad THEN part[i - 1] ELSE Append(part[i - 1], symbols[i])
    IN  part[Len(symbols)]

EncodesTo(result, symbols, again) ==
    /\ Len(symbols) % 4 # 1
    /\ result # <<>> => Len(again) = Len(symbols) /\ Front(again) = Front(symbols)
    /\ Len(symbols) % 4 = 0 /\ result # <<>> => again = symbols

DecodesTo(d) ==
    /\ BadSymbol \in ToSet(input) => d.errno = "B64_BADSYM"
    /\ d.errno = "SUCCESS" =>
          EncodesTo(d.result, Unpadded(input), Unpadded(EncodeBase64(d.result)))
    /\ Len(input) % 4 # 0 /\ Pad \notin ToSet(input) => d.errno # "SUCCESS"

Base64Accepts == subject = "base64" /\ input # <<>> => DecodesTo(DecodeBase64(input))

(***************************************************************************)
(* The two directions of base64 agree with each other and with the padding *)
(* that an encoding of a length has.                                       *)
(***************************************************************************)
Base64AsSpecified == Base64RoundTrip /\ Base64Accepts

(***************************************************************************)
(* The message is padded with 0x80, the zeros that make whole chunks, and  *)
(* its bits in eight octets, and is hashed in chunks of 64 bytes.          *)
(***************************************************************************)
Octets8(n) == Reverse(Octets(n)) \o Reverse(Octets((n \div 16777216) \div 256))

Md5PaddedAsSpecified ==
    subject = "md5" =>
        LET n == Len(input)
        IN  FlattenSeq(Md5Chunks(input)) =
              input \o (<<128>> \o (Zeros(ZeroCount(n)) \o Octets8(Bits(n))))
=============================================================================
