------------------------------ MODULE UriProofs ------------------------------
(***************************************************************************)
(* Proofs, for any texts, any objects and any registrations, that a port   *)
(* which str() leaves out is the permanent default of its scheme, that     *)
(* what str() prints parses to the same parts, and that imp_errno tells    *)
(* what a call returned.                                                   *)
(*                                                                         *)
(* The result of a parse has the fields of a uri, whatever the text is.    *)
(* The percent decoder fails only at a bad escape, which an induction over *)
(* its loop shows; a parse that goes on has imp_errno SUCCESS; and a user  *)
(* info that is refused has a bracket or a bad escape, in the place where  *)
(* BadUserinfo looks for it.                                               *)
(*                                                                         *)
(* The parts that a text leaves are Canonical: what is decoded decodes to  *)
(* itself, what is normalized stays as it is, and the scheme is in lower   *)
(* case.  Printed, they are one behind the other; each ends at a character *)
(* that the parser stops at, and is found in the place where it was put    *)
(* (Rest).                                                                 *)
(***************************************************************************)
EXTENDS Uri, VectorLemmas, FiniteSetTheorems, TLAPS

Fields == {"scheme", "userinfo", "host", "path", "query", "fragment", "port", "has_auth"}

\* A parse, and the parts it has stored, have their fields.
IsParts(parts) == DOMAIN parts = Fields /\ parts = [f \in Fields |-> parts[f]]
IsParse(p) ==
    /\ DOMAIN p = {"ok", "at", "errno", "uri"}
    /\ IsParts(p.uri)

LEMMA StartIsParse == IsParse(StartOfParse)
  BY DEF IsParse, IsParts, StartOfParse, EmptyUri, Fields

LEMMA FailIsParse == ASSUME NEW p, IsParse(p), NEW e PROVE IsParse(Fail(p, e))
  BY DEF IsParse, Fail

LEMMA StoresIsParse ==
    ASSUME NEW p, IsParse(p), NEW field, NEW piece, NEW d
    PROVE  IsParse(Stores(p, field, piece, d))
  BY DEF IsParse, IsParts, Stores

LEMMA DecodeIsParse ==
    ASSUME NEW p, IsParse(p), NEW field, NEW piece, NEW tolower
    PROVE  IsParse(Decode(p, field, piece, tolower))
  BY StoresIsParse DEF Decode

LEMMA AtIsParse == ASSUME NEW p, IsParse(p), NEW i PROVE IsParse([p EXCEPT !.at = i])
  BY DEF IsParse

LEMMA PartIsParse ==
    ASSUME NEW p, IsParse(p), NEW i, NEW value
    PROVE  /\ IsParse([p EXCEPT !.at = i, !.uri.scheme = value])
           /\ IsParse([p EXCEPT !.at = i, !.uri.path = value])
           /\ IsParse([p EXCEPT !.uri.port = value])
           /\ IsParse([p EXCEPT !.at = i, !.uri.has_auth = value])
  BY DEF IsParse, IsParts

LEMMA SchemeIsParse == ASSUME NEW p, IsParse(p), NEW data PROVE IsParse(ParseScheme(p, data))
  BY FailIsParse, PartIsParse DEF ParseScheme

LEMMA SegmentsIsParse ==
    ASSUME NEW p, IsParse(p), NEW data, NEW from
    PROVE  IsParse(ParseSegments(p, data, from))
<1> DEFINE end == EndOf(data, IF data[from] = Colon THEN from + 1 ELSE from, pchar \cup {Slash})
           decoded == Decode(p, "path", SubSeq(data, p.at, end - 1), FALSE)
<1>1. IsParse([decoded EXCEPT !.at = end])
  <2>1. IsParse(decoded)
    BY DecodeIsParse
  <2> HIDE DEF decoded, end
  <2> QED
    BY <2>1, AtIsParse
<1>2. \/ ParseSegments(p, data, from) = Fail(p, "URI_PATHDELIM")
      \/ ParseSegments(p, data, from) = Fail(p, "URI_AUTHINPATH")
      \/ ParseSegments(p, data, from) = [decoded EXCEPT !.at = end]
  BY Zenon DEF ParseSegments
<1> QED
  BY <1>1, <1>2, FailIsParse

LEMMA PathIsParse ==
    ASSUME NEW p, IsParse(p), NEW data, NEW expect_root \in BOOLEAN
    PROVE  IsParse(ParsePath(p, data, expect_root))
<1> DEFINE from == IF expect_root THEN p.at + 1 ELSE p.at
           whole == [p EXCEPT !.at = p.at + 1, !.uri.path = <<Slash>>]
<1>1. IsParse(whole)
  BY PartIsParse
<1>2. IsParse(ParseSegments(p, data, from))
  BY SegmentsIsParse
<1>3. \/ ParsePath(p, data, expect_root) = p
      \/ ParsePath(p, data, expect_root) = Fail(p, "URI_PATHABEMPTY")
      \/ ParsePath(p, data, expect_root) = whole
      \/ ParsePath(p, data, expect_root) = ParseSegments(p, data, from)
  BY Zenon DEF ParsePath
<1> QED
  BY <1>1, <1>2, <1>3, FailIsParse

LEMMA PieceIsParse ==
    ASSUME NEW p, IsParse(p), NEW piece
    PROVE  /\ IsParse(ParseUserinfo(p, piece))
           /\ IsParse(ParseHost(p, piece))
           /\ IsParse(ParsePort(p, piece))
<1>1. IsParse(ParseUserinfo(p, piece))
  BY DecodeIsParse, FailIsParse DEF ParseUserinfo
<1>2. IsParse(ParseHost(p, piece))
  <2>1. \/ ParseHost(p, piece) = Fail(p, "URI_INVL_IP_LIT")
        \/ ParseHost(p, piece) = Fail(p, "URI_HOST_SYM")
        \/ ParseHost(p, piece) = Decode(p, "host", piece, TRUE)
    BY Zenon DEF ParseHost
  <2> QED
    BY <2>1, DecodeIsParse, FailIsParse
<1>3. IsParse(ParsePort(p, piece))
  <2> DEFINE number == Number(piece)
             numbered == [p EXCEPT !.uri.port = number]
  <2>1. IsParse(numbered)
    <3> HIDE DEF number
    <3> QED
      BY PartIsParse
  <2>2. \/ ParsePort(p, piece) = Fail(p, "URI_PORT_SYM")
        \/ ParsePort(p, piece) = Fail(p, "URI_PORT_LIMIT")
        \/ ParsePort(p, piece) = p
        \/ ParsePort(p, piece) = numbered
    BY DEF ParsePort
  <2> HIDE DEF numbered
  <2> QED
    BY <2>1, <2>2, FailIsParse
<1> QED
  BY <1>1, <1>2, <1>3

LEMMA AuthorityIsParse ==
    ASSUME NEW p, IsParse(p), NEW data
    PROVE  IsParse(ParseAuthority(p, data))
<1>1. ASSUME NEW cut, NEW end PROVE IsParse(ParsePieces(p, cut, end))
  <2> DEFINE q == ParsePort(ParseHost(ParseUserinfo(p, cut.userinfo), cut.host), cut.port)
  <2>1. IsParse(q)
    BY PieceIsParse
  <2>2. IsParse([q EXCEPT !.at = end, !.uri.has_auth = TRUE])
    <3> HIDE DEF q
    <3> QED
      BY <2>1, PartIsParse
  <2> QED
    BY <2>2, FailIsParse, Zenon DEF ParsePieces
<1> QED
  BY <1>1, ZenonT(60) DEF ParseAuthority

LEMMA HierPartIsParse ==
    ASSUME NEW p, IsParse(p), NEW data
    PROVE  IsParse(ParseHierPart(p, data))
<1> DEFINE inside == [p EXCEPT !.at = p.at + 2]
           rooted == [p EXCEPT !.at = p.at + 1, !.uri.path = <<Slash>>]
<1>1. IsParse(inside) /\ IsParse(rooted)
  BY AtIsParse, PartIsParse
<1> HIDE DEF inside, rooted
<1>2. IsParse(ParseAuthority(inside, data))
  BY <1>1, AuthorityIsParse
<1>3. IsParse(AfterAuthority(ParseAuthority(inside, data), data))
  BY <1>2, PathIsParse DEF AfterAuthority
<1>4. IsParse(ParsePath(rooted, data, FALSE)) /\ IsParse(ParsePath(p, data, FALSE))
  BY <1>1, PathIsParse
<1>5. \/ ParseHierPart(p, data) = AfterAuthority(ParseAuthority(inside, data), data)
      \/ ParseHierPart(p, data) = ParsePath(rooted, data, FALSE)
      \/ ParseHierPart(p, data) = ParsePath(p, data, FALSE)
      \/ ParseHierPart(p, data) = p
  <2> DEFINE Is(i, c) == i <= Len(data) /\ data[i] = c
  <2>1. ParseHierPart(p, data) =
          CASE Is(p.at, Slash) /\ Is(p.at + 1, Slash) -> AfterAuthority(ParseAuthority(inside, data), data)
            [] Is(p.at, Slash) /\ ~Is(p.at + 1, Slash) -> ParsePath(rooted, data, FALSE)
            [] p.at <= Len(data) /\ data[p.at] \in pchar -> ParsePath(p, data, FALSE)
            [] OTHER -> p
    BY Zenon DEF ParseHierPart, inside, rooted
  <2> HIDE DEF Is
  <2> QED
    BY <2>1, Zenon
<1> QED
  BY <1>3, <1>4, <1>5

LEMMA QueryIsParse ==
    ASSUME NEW p, IsParse(p), NEW data
    PROVE  IsParse(ParseQuery(p, data)) /\ IsParse(ParseFragment(p, data))
<1>1. ASSUME NEW q, IsParse(q), NEW end PROVE IsParse([q EXCEPT !.at = end])
  BY <1>1, AtIsParse
<1>2. IsParse(ParseQuery(p, data))
  BY <1>1, DecodeIsParse, Zenon DEF ParseQuery
<1>3. IsParse(ParseFragment(p, data))
  BY <1>1, DecodeIsParse, Zenon DEF ParseFragment
<1> QED
  BY <1>2, <1>3

LEMMA AfterSchemeIsParse ==
    ASSUME NEW p, IsParse(p), NEW data
    PROVE  IsParse(AfterScheme(p, data))
<1> DEFINE begin == [p EXCEPT !.at = p.at + 1]
           hier == ParseHierPart(begin, data)
           queried == If(hier, data, Question, ParseQuery)
           whole == If(queried, data, Hash, ParseFragment)
<1>1. IsParse(begin)
  BY AtIsParse
<1>2. IsParse(hier)
  <2> HIDE DEF begin
  <2> QED
    BY <1>1, HierPartIsParse
<1>3. IsParse(queried)
  <2> HIDE DEF hier
  <2>1. IsParse([hier EXCEPT !.at = hier.at + 1])
    BY <1>2, AtIsParse
  <2> QED
    BY <1>2, <2>1, QueryIsParse, Zenon DEF If
<1>4. IsParse(whole)
  <2> HIDE DEF queried
  <2>1. IsParse([queried EXCEPT !.at = queried.at + 1])
    BY <1>3, AtIsParse
  <2> QED
    BY <1>3, <2>1, QueryIsParse, Zenon DEF If
<1>5. \/ AfterScheme(p, data) = p
      \/ AfterScheme(p, data) = Fail(p, "URI_NOCOLON")
      \/ AfterScheme(p, data) = whole
  BY Zenon DEF AfterScheme
<1> HIDE DEF whole
<1> QED
  BY <1>4, <1>5, FailIsParse

LEMMA ParseUriIsParse == \A data : IsParse(ParseUri(data))
  BY StartIsParse, SchemeIsParse, AfterSchemeIsParse, Zenon DEF ParseUri

------------------------------------------------------------------------------
(* Decoding *)

DecodeStates == [ok : BOOLEAN, escape : Seq(Int), out : Seq(Int)]

\* The character that the decoder reads, case by case.
LEMMA DecodeNextCases ==
    ASSUME NEW s, NEW c, NEW tolower
    PROVE  LET next == DecodeNext(s, c, tolower)
               kept == Unescape(Append(s.escape, ToUpper(c)))
           IN  \/ (~s.ok \/ c \in WhiteSpace) /\ next = s
               \/ s.escape = <<>> /\ c = Percent /\ next = [s EXCEPT !.escape = <<c>>]
               \/ /\ s.escape = <<>>
                  /\ next = [s EXCEPT !.out = Append(s.out, IF tolower THEN ToLower(c) ELSE c)]
               \/ s.escape # <<>> /\ c \notin HEXDIG /\ next = [s EXCEPT !.ok = FALSE]
               \/ /\ s.escape # <<>> /\ Len(s.escape) = 1 /\ c \in HEXDIG
                  /\ next = [s EXCEPT !.escape = Append(s.escape, ToUpper(c))]
               \/ /\ s.escape # <<>> /\ Len(s.escape) # 1 /\ c \in HEXDIG
                  /\ next = [s EXCEPT !.escape = <<>>, !.out = s.out \o kept]
<1>1. Len(s.escape) = 1 => s.escape # <<>>
  OBVIOUS
<1> QED
  BY <1>1, Zenon DEF DecodeNext

LEMMA CharFacts ==
    /\ \A c \in Chars : c \in Int /\ ToLower(c) \in Int /\ ToUpper(c) \in Int
    /\ \A c \in HEXDIG : c \notin WhiteSpace /\ c # At
  BY DEF Chars, ToLower, ToUpper, HEXDIG, DIGIT, WhiteSpace, At

LEMMA DecodeNextType ==
    ASSUME NEW s \in DecodeStates, NEW c \in Chars, NEW tolower
    PROVE  DecodeNext(s, c, tolower) \in DecodeStates
<1> DEFINE lower == IF tolower THEN ToLower(c) ELSE c
           upper == ToUpper(c)
           added == Append(s.out, lower)
           longer == Append(s.escape, upper)
           kept == Unescape(longer)
           whole == [s EXCEPT !.escape = <<>>, !.out = s.out \o kept]
<1>1. c \in Int /\ lower \in Int /\ upper \in Int
  BY CharFacts
<1>2. s.escape \in Seq(Int) /\ s.out \in Seq(Int) /\ <<>> \in Seq(Int) /\ <<c>> \in Seq(Int)
  <2>1. s.escape \in Seq(Int) /\ s.out \in Seq(Int)
    BY DEF DecodeStates
  <2> HIDE DEF added, longer, kept, whole, lower, upper
  <2> QED
    BY <1>1, <2>1
<1>3. /\ added \in Seq(Int)
      /\ longer \in Seq(Int) /\ Len(longer) = Len(s.escape) + 1
  <2> HIDE DEF lower, upper
  <2> QED
    BY <1>1, <1>2, AppendProperties
<1>4. s.escape # <<>> /\ Len(s.escape) # 1 => kept \in Seq(Int)
  <2>1. SUFFICES ASSUME s.escape # <<>>, Len(s.escape) # 1 PROVE kept \in Seq(Int)
    OBVIOUS
  <2>2. Len(longer) >= 3
    <3>1. Len(s.escape) \in Nat /\ Len(s.escape) # 0
      BY <1>2, <2>1, LenProperties, EmptySeq
    <3>2. \A k \in Nat : k # 0 /\ k # 1 => k + 1 >= 3
      OBVIOUS
    <3> HIDE DEF longer
    <3> QED
      BY <1>3, <2>1, <3>1, <3>2, Zenon
  <2> HIDE DEF longer
  <2>3. longer[2] \in Int /\ longer[3] \in Int
    BY <1>3, <2>2
  <2>4. Nibble(longer[2]) \in Int /\ Nibble(longer[3]) \in Int
    BY <2>3 DEF Nibble
  <2> DEFINE n == 16 * Nibble(longer[2]) + Nibble(longer[3])
  <2>5. n \in Int
    BY <2>4
  <2>6. kept = longer \/ kept = <<n>>
    BY Zenon DEF Unescape
  <2> HIDE DEF n, kept, whole
  <2>7. <<n>> \in Seq(Int)
    BY <2>5
  <2> QED
    BY <1>3, <2>6, <2>7
<1>5. \/ DecodeNext(s, c, tolower) = s
      \/ DecodeNext(s, c, tolower) = [s EXCEPT !.escape = <<c>>]
      \/ DecodeNext(s, c, tolower) = [s EXCEPT !.out = added]
      \/ DecodeNext(s, c, tolower) = [s EXCEPT !.ok = FALSE]
      \/ DecodeNext(s, c, tolower) = [s EXCEPT !.escape = longer]
      \/ s.escape # <<>> /\ Len(s.escape) # 1 /\ DecodeNext(s, c, tolower) = whole
  <2>1. Len(s.escape) = 1 => s.escape # <<>>
    BY SMTT(30)
  <2> QED
    BY <2>1, Zenon DEF DecodeNext
<1> HIDE DEF added, longer, kept
<1>6. s.escape # <<>> /\ Len(s.escape) # 1 => s.out \o kept \in Seq(Int)
  BY <1>2, <1>4
<1>7. \A escape, out \in Seq(Int) :
         /\ [s EXCEPT !.ok = FALSE] \in DecodeStates
         /\ [s EXCEPT !.escape = escape] \in DecodeStates
         /\ [s EXCEPT !.out = out] \in DecodeStates
         /\ [s EXCEPT !.escape = escape, !.out = out] \in DecodeStates
  BY DEF DecodeStates
<1> QED
  BY <1>2, <1>3, <1>5, <1>6, <1>7, Zenon

\* The text has a "%" that two hexadecimal digits do not follow.
BadEscape(text) ==
    \E i \in 1..Len(text), d \in {1, 2} :
        text[i] = Percent /\ (i + d > Len(text) \/ text[i + d] \notin HEXDIG)

Iterates(f, text, tolower) ==
    /\ f \in [0..Len(text) -> DecodeStates]
    /\ f[0] = StartOfDecode
    /\ \A i \in 1..Len(text) : f[i] = DecodeNext(f[i - 1], text[i], tolower)

\* The states that the decoder goes through are those of its loop.
LEMMA DecodeIterates ==
    ASSUME NEW text \in Seq(Chars), NEW tolower
    PROVE  \E f : Iterates(f, text, tolower) /\ PercentDecode(text, tolower) = Unescaped(f[Len(text)], text)
<1> DEFINE n == Len(text)
           step == [i \in 1..n |-> [s \in DecodeStates |-> DecodeNext(s, text[i], tolower)]]
           Decodes(f) == f = [i \in 0..n |-> IF i = 0 THEN StartOfDecode
                                             ELSE DecodeNext(f[i - 1], text[i], tolower)]
<1>1. n \in Nat /\ \A i \in 1..n : text[i] \in Chars
  OBVIOUS
<1>2. step \in [1..n -> [DecodeStates -> DecodeStates]]
  <2>1. ASSUME NEW i \in 1..n PROVE [s \in DecodeStates |-> DecodeNext(s, text[i], tolower)]
                                      \in [DecodeStates -> DecodeStates]
    BY <1>1, DecodeNextType
  <2> QED
    BY <2>1
<1>3. StartOfDecode \in DecodeStates
  BY DEF StartOfDecode, DecodeStates
<1> HIDE DEF step
<1>4. PICK f : IsIteration(f, DecodeStates, StartOfDecode, n, step)
  BY <1>1, <1>2, <1>3, IterationExists, Zenon
<1> USE DEF step, IsIteration
<1>5. ASSUME NEW i \in 1..n PROVE f[i] = DecodeNext(f[i - 1], text[i], tolower)
  <2>1. f[i - 1] \in DecodeStates
    BY <1>1, <1>4
  <2> QED
    BY <1>4, <2>1
<1>6. Decodes(f)
  BY <1>1, <1>4, <1>5
<1> DEFINE decode == CHOOSE g : Decodes(g)
<1>7. Decodes(decode)
  <2> HIDE DEF Decodes
  <2> QED
    BY <1>6, Zenon
<1>8. PercentDecode(text, tolower) = Unescaped(decode[n], text)
  BY Zenon DEF PercentDecode, EndOfDecode
<1> HIDE DEF decode
<1>9. Iterates(f, text, tolower)
  BY <1>4, <1>5, Zenon DEF Iterates
<1>10. decode = f
  <2>1. \A i \in 0..n : decode[i] = f[i]
    <3> DEFINE T == {m \in Nat : m <= n => decode[m] = f[m]}
    <3>1. 0 \in T
      BY <1>1, <1>4, <1>7
    <3>2. ASSUME NEW m \in Nat, m \in T PROVE m + 1 \in T
      <4>1. SUFFICES ASSUME m + 1 <= n PROVE decode[m + 1] = f[m + 1]
        OBVIOUS
      <4>2. decode[m] = f[m]
        BY <1>1, <3>2, <4>1
      <4>3. decode[m + 1] = DecodeNext(decode[(m + 1) - 1], text[m + 1], tolower)
        BY <1>1, <1>7, <4>1
      <4> QED
        BY <1>1, <1>5, <4>1, <4>2, <4>3
    <3> HIDE DEF T
    <3>3. \A m \in Nat : m \in T
      BY <3>1, <3>2, SetInduction
    <3> QED
      BY <1>1, <3>3 DEF T
  <2>2. DOMAIN decode = 0..n /\ decode = [i \in 0..n |-> decode[i]]
    BY <1>7
  <2> HIDE DEF Decodes
  <2> QED
    BY <1>4, <2>1, <2>2
<1> QED
  BY <1>8, <1>9, <1>10, Zenon

\* Where the decoder is after m characters of a text whose escapes are good.
Follows(s, text, m) ==
    /\ s.ok
    /\ \/ s.escape = <<>>
       \/ /\ Len(s.escape) \in {1, 2} /\ Len(s.escape) <= m
          /\ text[m + 1 - Len(s.escape)] = Percent

LEMMA FollowsNext ==
    ASSUME NEW text \in Seq(Chars), ~BadEscape(text), NEW m \in 0..(Len(text) - 1),
           NEW s \in DecodeStates, Follows(s, text, m), NEW tolower
    PROVE  Follows(DecodeNext(s, text[m + 1], tolower), text, m + 1)
<1> DEFINE c == text[m + 1]
           k == Len(s.escape)
<1>1. m + 1 \in 1..Len(text) /\ c \in Chars /\ k \in Nat
  BY DEF DecodeStates
<1>2. CASE s.escape = <<>>
  <2>1. \/ DecodeNext(s, c, tolower) = s
        \/ c = Percent /\ DecodeNext(s, c, tolower) = [s EXCEPT !.escape = <<c>>]
        \/ DecodeNext(s, c, tolower) = [s EXCEPT !.out = Append(s.out, IF tolower THEN ToLower(c) ELSE c)]
    BY <1>2, DecodeNextCases, Zenon
  <2>2. CASE DecodeNext(s, c, tolower) = s
    BY <1>2, <2>2 DEF Follows
  <2>3. CASE c = Percent /\ DecodeNext(s, c, tolower) = [s EXCEPT !.escape = <<c>>]
    <3> DEFINE t == [s EXCEPT !.escape = <<c>>]
    <3>1. t.ok = s.ok /\ t.escape = <<c>> /\ Len(t.escape) = 1
      BY DEF DecodeStates
    <3> HIDE DEF t
    <3>2. text[m + 1 + 1 - Len(t.escape)] = Percent
      BY <1>1, <2>3, <3>1
    <3>3. Follows(t, text, m + 1)
      BY <1>1, <3>1, <3>2 DEF Follows
    <3> QED
      BY <2>3, <3>3 DEF t
  <2>4. CASE DecodeNext(s, c, tolower) = [s EXCEPT !.out = Append(s.out, IF tolower THEN ToLower(c) ELSE c)]
    <3> DEFINE added == Append(s.out, IF tolower THEN ToLower(c) ELSE c)
    <3> HIDE DEF added
    <3>1. [s EXCEPT !.out = added].ok = s.ok /\ [s EXCEPT !.out = added].escape = <<>>
      BY <1>2 DEF DecodeStates
    <3>2. Follows([s EXCEPT !.out = added], text, m + 1)
      BY <3>1 DEF Follows
    <3> QED
      BY <2>4, <3>2 DEF added
  <2> QED
    BY <2>1, <2>2, <2>3, <2>4
<1>3. CASE s.escape # <<>>
  <2>1. /\ k \in {1, 2} /\ k <= m
        /\ m + 1 - k \in 1..Len(text) /\ text[m + 1 - k] = Percent
    <3>1. k \in {1, 2} /\ k <= m /\ text[m + 1 - k] = Percent
      BY <1>3, Zenon DEF Follows
    <3>2. m + 1 - k \in 1..Len(text)
      BY <1>1, <3>1
    <3> QED
      BY <3>1, <3>2
  <2>2. c \in HEXDIG
    <3>1. text[m + 1 - k + k] \in HEXDIG
      BY <2>1, Zenon DEF BadEscape
    <3>2. m + 1 - k + k = m + 1
      BY <1>1
    <3> QED
      BY <3>1, <3>2
  <2>3. c \notin WhiteSpace
    BY <2>2, CharFacts, Zenon
  <2>4. s.ok
    BY DEF Follows
  <2> DEFINE kept == Unescape(Append(s.escape, ToUpper(c)))
  <2>5. \/ k = 1 /\ DecodeNext(s, c, tolower) = [s EXCEPT !.escape = Append(s.escape, ToUpper(c))]
        \/ DecodeNext(s, c, tolower) = [s EXCEPT !.escape = <<>>, !.out = s.out \o kept]
    BY <1>3, <2>2, <2>3, <2>4, DecodeNextCases, Zenon
  <2>6. CASE k = 1 /\ DecodeNext(s, c, tolower) = [s EXCEPT !.escape = Append(s.escape, ToUpper(c))]
    <3> DEFINE longer == Append(s.escape, ToUpper(c))
               t == [s EXCEPT !.escape = longer]
    <3>1. Len(longer) = 2
      <4>1. ToUpper(c) \in Int
        BY <1>1, CharFacts, Zenon
      <4>2. s.escape \in Seq(Int) /\ Len(s.escape) = 1
        BY <2>6 DEF DecodeStates
      <4>3. \A e \in Seq(Int), d \in Int : Len(Append(e, d)) = Len(e) + 1
        BY AppendProperties
      <4>4. Len(longer) = Len(s.escape) + 1
        BY <4>1, <4>2, <4>3, Zenon
      <4> QED
        BY <4>2, <4>4
    <3> HIDE DEF longer, c
    <3>2. t.ok = s.ok /\ t.escape = longer
      BY DEF DecodeStates
    <3> HIDE DEF t
    <3>3. m + 1 + 1 - Len(t.escape) = m + 1 - k /\ Len(t.escape) <= m + 1
      <4>1. Len(t.escape) = 2 /\ k = 1
        BY <2>6, <3>1, <3>2
      <4>2. m \in Int /\ 1 <= m
        BY <2>1, <4>1
      <4> HIDE DEF k
      <4> QED
        BY <4>1, <4>2
    <3>4. Follows(t, text, m + 1)
      BY <2>1, <2>4, <3>1, <3>2, <3>3, Zenon DEF Follows
    <3> QED
      BY <2>6, <3>4, Zenon DEF t, longer, c
  <2>7. CASE DecodeNext(s, c, tolower) = [s EXCEPT !.escape = <<>>, !.out = s.out \o kept]
    <3> DEFINE whole == s.out \o kept
               t == [s EXCEPT !.escape = <<>>, !.out = whole]
    <3> HIDE DEF whole
    <3>1. t.ok = s.ok /\ t.escape = <<>>
      BY DEF DecodeStates
    <3>2. Follows(t, text, m + 1)
      BY <2>4, <3>1 DEF Follows
    <3> QED
      BY <2>7, <3>2 DEF whole
  <2> QED
    BY <2>5, <2>6, <2>7
<1> QED
  BY <1>2, <1>3

\* A text that cannot be decoded has a bad escape.
LEMMA DecodingFails ==
    ASSUME NEW text \in Seq(Chars), NEW tolower, ~PercentDecode(text, tolower).ok
    PROVE  BadEscape(text)
<1> SUFFICES ASSUME ~BadEscape(text) PROVE PercentDecode(text, tolower).ok
  OBVIOUS
<1> DEFINE n == Len(text)
<1>1. n \in Nat
  OBVIOUS
<1>2. PICK f : Iterates(f, text, tolower) /\ PercentDecode(text, tolower) = Unescaped(f[n], text)
  BY DecodeIterates, Zenon
<1> DEFINE T == {m \in Nat : m <= n => Follows(f[m], text, m)}
<1>3. 0 \in T
  BY <1>2 DEF Iterates, StartOfDecode, Follows
<1>4. ASSUME NEW m \in Nat, m \in T PROVE m + 1 \in T
  <2>1. SUFFICES ASSUME m + 1 <= n PROVE Follows(f[m + 1], text, m + 1)
    OBVIOUS
  <2>2. m \in 0..(n - 1) /\ Follows(f[m], text, m)
    BY <1>1, <1>4, <2>1
  <2>3. f[m] \in DecodeStates /\ f[m + 1] = DecodeNext(f[m], text[m + 1], tolower)
    BY <1>1, <1>2, <2>2 DEF Iterates
  <2> QED
    BY <2>2, <2>3, FollowsNext
<1> HIDE DEF T
<1>5. n \in T
  BY <1>1, <1>3, <1>4, SetInduction
<1>6. Follows(f[n], text, n)
  BY <1>1, <1>5 DEF T
<1>7. f[n].escape = <<>>
  <2>1. SUFFICES ASSUME f[n].escape # <<>> PROVE FALSE
    OBVIOUS
  <2> DEFINE k == Len(f[n].escape)
  <2>2. k \in {1, 2} /\ k <= n /\ text[n + 1 - k] = Percent
    BY <1>6, <2>1 DEF Follows
  <2>3. n + 1 - k \in 1..n /\ n + 1 - k + k > n
    <3> HIDE DEF k, n
    <3> QED
      BY <1>1, <2>2
  <2> QED
    BY <2>2, <2>3, Zenon DEF BadEscape
<1> QED
  BY <1>2, <1>6, <1>7 DEF Follows, Unescaped

LEMMA DecodeResult ==
    ASSUME NEW text, NEW tolower
    PROVE  PercentDecode(text, tolower).ok \in BOOLEAN /\ PercentDecode(<<>>, tolower).ok
<1>1. ASSUME NEW end, NEW any PROVE Unescaped(end, any).ok \in BOOLEAN
  BY DEF Unescaped
<1>2. PercentDecode(text, tolower).ok \in BOOLEAN
  BY <1>1, Zenon DEF PercentDecode
<1>3. ~BadEscape(<<>>)
  BY DEF BadEscape
<1>4. PercentDecode(<<>>, tolower).ok
  <2>1. <<>> \in Seq(Chars)
    OBVIOUS
  <2> QED
    BY <1>3, <2>1, DecodingFails, Zenon
<1> QED
  BY <1>2, <1>4, Zenon
------------------------------------------------------------------------------
(* Positions *)

LEMMA MinOf ==
    ASSUME NEW T, T \subseteq Nat, T # {}
    PROVE  Min(T) \in T /\ \A m \in T : Min(T) <= m
<1> DEFINE Least(n) == n \in T /\ \A m \in T : n <= m
<1>1. \E n : Least(n)
  BY LeastOf
<1>2. Min(T) = CHOOSE n : Least(n)
  BY DEF Min
<1> QED
  BY <1>1, <1>2, Zenon

\* A part ends at the first character that is not of its class.
LEMMA EndOfProperties ==
    ASSUME NEW text \in Seq(Chars), NEW at \in Nat \ {0}, NEW class
    PROVE  /\ EndOf(text, at, class) \in 1..(Len(text) + 1)
           /\ \A i \in at..(EndOf(text, at, class) - 1) : i \in 1..Len(text) /\ text[i] \in class
           /\ EndOf(text, at, class) <= Len(text) =>
                /\ at <= EndOf(text, at, class)
                /\ text[EndOf(text, at, class)] \notin class
<1> DEFINE T == {i \in at..Len(text) : text[i] \notin class} \cup {Len(text) + 1}
           end == EndOf(text, at, class)
<1>1. T \subseteq Nat /\ T # {} /\ end = Min(T) /\ Len(text) + 1 \in T /\ Len(text) \in Nat
  BY DEF EndOf
<1>2. end \in T /\ \A m \in T : end <= m
  <2> HIDE DEF T, end
  <2> QED
    BY <1>1, MinOf, Zenon
<1> HIDE DEF end
<1>3. end \in 1..(Len(text) + 1)
  BY <1>1, <1>2
<1>4. ASSUME NEW i \in at..(end - 1) PROVE i \in 1..Len(text) /\ text[i] \in class
  <2>1. i \in at..Len(text) /\ i \in 1..Len(text)
    BY <1>1, <1>2, <1>3
  <2>2. i \notin T
    BY <1>2, <1>3
  <2> QED
    BY <2>1, <2>2
<1>5. end <= Len(text) => at <= end /\ text[end] \notin class
  BY <1>1, <1>2
<1> QED
  BY <1>3, <1>4, <1>5 DEF end

LEMMA FirstProperties ==
    ASSUME NEW text \in Seq(Chars), NEW c
    PROVE  LET first == First(Places(text, c))
           IN  \/ first = 0 /\ \A i \in 1..Len(text) : text[i] # c
               \/ /\ first \in 1..Len(text) /\ text[first] = c
                  /\ \A i \in 1..(first - 1) : text[i] # c
<1> DEFINE T == Places(text, c)
           first == First(T)
<1>1. T = {i \in 1..Len(text) : text[i] = c} /\ T \subseteq Nat
  BY DEF Places
<1>2. CASE T = {}
  <2>1. first = 0
    BY <1>2 DEF First
  <2> QED
    BY <1>1, <1>2, <2>1
<1>3. CASE T # {}
  <2>1. first = Min(T)
    BY <1>3 DEF First
  <2> HIDE DEF T, first
  <2>2. first \in T /\ \A m \in T : first <= m
    BY <1>1, <1>3, <2>1, MinOf, Zenon
  <2>3. first \in 1..Len(text) /\ text[first] = c
    BY <1>1, <2>2
  <2>4. \A i \in 1..(first - 1) : text[i] # c
    BY <1>1, <2>2, <2>3
  <2> QED
    BY <2>3, <2>4 DEF first, T
<1> QED
  BY <1>2, <1>3

------------------------------------------------------------------------------
(* imp_errno *)

\* A parse whose error code tells whether it has failed, one that goes on,
\* and one of a text whose user info hides its error.
Told(p) == p.ok \in BOOLEAN /\ (p.ok <=> p.errno = "SUCCESS")
Going(p) == p.ok = TRUE /\ p.errno = "SUCCESS"
Tells(p, text) == Told(p) \/ (p.ok = FALSE /\ BadUserinfo(text))

LEMMA FailIsTold ==
    ASSUME NEW p, IsParse(p), NEW e, e # "SUCCESS"
    PROVE  Told(Fail(p, e)) /\ Fail(p, e).ok = FALSE
  BY DEF IsParse, Fail, Told

LEMMA DecodeIsTold ==
    ASSUME NEW p, IsParse(p), NEW field, NEW piece, NEW tolower
    PROVE  Going(p) =>
                /\ Told(Decode(p, field, piece, tolower))
                /\ Decode(p, field, piece, tolower).ok <=> PercentDecode(piece, tolower).ok
<1> DEFINE d == PercentDecode(piece, tolower)
           q == Decode(p, field, piece, tolower)
<1>1. d.ok \in BOOLEAN /\ (piece = <<>> => d.ok)
  <2> HIDE DEF d
  <2>1. d.ok \in BOOLEAN /\ PercentDecode(<<>>, tolower).ok
    BY DecodeResult DEF d
  <2> QED
    BY <2>1 DEF d
<1> HIDE DEF d
<1>2. q = Stores(p, field, piece, d)
  BY Zenon DEF Decode, d
<1> HIDE DEF q
<1>3. /\ q.ok = (p.ok /\ d.ok)
      /\ q.errno = CASE piece = <<>> -> p.errno
                     [] piece # <<>> /\ d.ok -> "SUCCESS"
                     [] OTHER -> "URI_PORT_SYM"
  BY <1>2 DEF IsParse, Stores
<1>4. \/ piece = <<>> /\ q.errno = p.errno
      \/ piece # <<>> /\ d.ok /\ q.errno = "SUCCESS"
      \/ ~d.ok /\ q.errno = "URI_PORT_SYM"
  BY <1>1, <1>3, Zenon
<1>5. Going(p) => Told(q) /\ (q.ok <=> d.ok)
  BY <1>1, <1>3, <1>4 DEF Going, Told
<1> QED
  BY <1>5 DEF d, q

LEMMA DecodeStaysFailed ==
    ASSUME NEW p, IsParse(p), p.ok = FALSE, NEW field, NEW piece, NEW tolower
    PROVE  Decode(p, field, piece, tolower).ok = FALSE
<1> DEFINE d == PercentDecode(piece, tolower)
<1>1. Decode(p, field, piece, tolower) = Stores(p, field, piece, d)
  BY Zenon DEF Decode
<1> HIDE DEF d
<1> QED
  BY <1>1 DEF IsParse, Stores

LEMMA KeepIsTold ==
    ASSUME NEW p, IsParse(p), NEW i, NEW value
    PROVE  /\ LET q == [p EXCEPT !.at = i] IN q.at = i /\ q.ok = p.ok /\ q.errno = p.errno
           /\ LET q == [p EXCEPT !.at = i, !.uri.path = value]
              IN  q.at = i /\ q.ok = p.ok /\ q.errno = p.errno
           /\ LET q == [p EXCEPT !.uri.port = value] IN q.ok = p.ok /\ q.errno = p.errno
           /\ LET q == [p EXCEPT !.at = i, !.uri.has_auth = value]
              IN  q.ok = p.ok /\ q.errno = p.errno
  BY DEF IsParse

\* The host's and the port's parse: neither resumes what has failed.
LEMMA HostIsTold ==
    ASSUME NEW p, IsParse(p), NEW piece
    PROVE  /\ Going(p) => Told(ParseHost(p, piece))
           /\ p.ok = FALSE => ParseHost(p, piece).ok = FALSE
<1>1. \/ ParseHost(p, piece) = Fail(p, "URI_INVL_IP_LIT")
      \/ ParseHost(p, piece) = Fail(p, "URI_HOST_SYM")
      \/ ParseHost(p, piece) = Decode(p, "host", piece, TRUE)
  BY Zenon DEF ParseHost
<1>2. /\ Told(Fail(p, "URI_INVL_IP_LIT")) /\ Fail(p, "URI_INVL_IP_LIT").ok = FALSE
      /\ Told(Fail(p, "URI_HOST_SYM")) /\ Fail(p, "URI_HOST_SYM").ok = FALSE
  BY FailIsTold
<1>3. /\ Going(p) => Told(Decode(p, "host", piece, TRUE))
      /\ p.ok = FALSE => Decode(p, "host", piece, TRUE).ok = FALSE
  <2>1. Going(p) => Told(Decode(p, "host", piece, TRUE))
    BY DecodeIsTold, Zenon
  <2>2. p.ok = FALSE => Decode(p, "host", piece, TRUE).ok = FALSE
    BY DecodeStaysFailed, Zenon
  <2> QED
    BY <2>1, <2>2
<1> QED
  BY <1>1, <1>2, <1>3, Zenon

LEMMA PortIsTold ==
    ASSUME NEW p, IsParse(p), NEW piece
    PROVE  /\ Told(p) => Told(ParsePort(p, piece))
           /\ p.ok = FALSE => ParsePort(p, piece).ok = FALSE
<1> DEFINE number == Number(piece)
           numbered == [p EXCEPT !.uri.port = number]
<1>1. \/ ParsePort(p, piece) = Fail(p, "URI_PORT_SYM")
      \/ ParsePort(p, piece) = Fail(p, "URI_PORT_LIMIT")
      \/ ParsePort(p, piece) = p
      \/ ParsePort(p, piece) = numbered
  BY DEF ParsePort
<1> HIDE DEF number
<1>2. numbered.ok = p.ok /\ numbered.errno = p.errno
  BY KeepIsTold, Zenon
<1> HIDE DEF numbered
<1>3. /\ Told(Fail(p, "URI_PORT_SYM")) /\ Fail(p, "URI_PORT_SYM").ok = FALSE
      /\ Told(Fail(p, "URI_PORT_LIMIT")) /\ Fail(p, "URI_PORT_LIMIT").ok = FALSE
  BY FailIsTold
<1>4. Told(p) => Told(numbered)
  BY <1>2 DEF Told
<1> QED
  BY <1>1, <1>2, <1>3, <1>4, Zenon

\* A user info that is refused has a character that an authority may have and
\* it may not, or a bad escape.
UserinfoClass == unreserved \cup sub_delims \cup {Percent, Colon}

LEMMA UserinfoIsTold ==
    ASSUME NEW p, IsParse(p), Going(p), NEW piece \in Seq(Chars)
    PROVE  LET q == ParseUserinfo(p, piece)
           IN  \/ Going(q)
               \/ q.ok = FALSE /\ BadEscape(piece)
               \/ q.ok = FALSE /\ \E i \in 1..Len(piece) : piece[i] \notin UserinfoClass
<1> DEFINE q == ParseUserinfo(p, piece)
<1>1. CASE ToSet(piece) \subseteq UserinfoClass
  <2>1. q = Decode(p, "userinfo", piece, FALSE)
    BY <1>1, Zenon DEF ParseUserinfo, UserinfoClass
  <2>2. Told(q) /\ (q.ok <=> PercentDecode(piece, FALSE).ok)
    <3> HIDE DEF q
    <3> QED
      BY <2>1, DecodeIsTold, Zenon
  <2>3. q.ok \/ BadEscape(piece)
    BY <2>2, DecodingFails, Zenon
  <2> HIDE DEF q
  <2>4. Going(q) \/ (q.ok = FALSE /\ BadEscape(piece))
    BY <2>2, <2>3 DEF Told, Going
  <2> QED
    BY <2>4, Zenon DEF q
<1>2. CASE ~(ToSet(piece) \subseteq UserinfoClass)
  <2>1. q = Fail(p, "URI_USERINFO_SYM")
    BY <1>2, Zenon DEF ParseUserinfo, UserinfoClass
  <2>2. q.ok = FALSE
    <3>1. Fail(p, "URI_USERINFO_SYM").ok = FALSE
      BY FailIsTold
    <3> QED
      BY <2>1, <3>1, Zenon
  <2>3. \E i \in 1..Len(piece) : piece[i] \notin UserinfoClass
    BY <1>2 DEF ToSet
  <2> QED
    BY <2>2, <2>3, Zenon
<1> QED
  BY <1>1, <1>2

\* The three pieces of an authority.
LEMMA PiecesAreTold ==
    ASSUME NEW p, IsParse(p), Going(p), NEW cut, NEW end, cut.userinfo \in Seq(Chars), NEW text,
           BadEscape(cut.userinfo) => BadUserinfo(text),
           (\E i \in 1..Len(cut.userinfo) : cut.userinfo[i] \notin UserinfoClass) => BadUserinfo(text)
    PROVE  Tells(ParsePieces(p, cut, end), text)
<1> DEFINE u == ParseUserinfo(p, cut.userinfo)
           h == ParseHost(u, cut.host)
           r == ParsePort(h, cut.port)
           q == [r EXCEPT !.at = end, !.uri.has_auth = TRUE]
<1>1. IsParse(u) /\ IsParse(h) /\ IsParse(r)
  BY PieceIsParse
<1>2. Going(u) \/ (u.ok = FALSE /\ BadUserinfo(text))
  BY UserinfoIsTold, Zenon
<1> HIDE DEF u
<1>3. (Going(u) => Told(h)) /\ (u.ok = FALSE => h.ok = FALSE)
  BY <1>1, HostIsTold, Zenon
<1> HIDE DEF h
<1>4. (Told(h) => Told(r)) /\ (h.ok = FALSE => r.ok = FALSE)
  BY <1>1, PortIsTold, Zenon
<1> HIDE DEF r
<1>5. q.ok = r.ok /\ q.errno = r.errno
  BY <1>1 DEF IsParse
<1> HIDE DEF q
<1>6. Tells(q, text)
  BY <1>2, <1>3, <1>4, <1>5 DEF Tells, Told
<1>7. CASE cut.errno # "SUCCESS"
  <2>1. ParsePieces(p, cut, end) = Fail(p, cut.errno)
    BY <1>7, Zenon DEF ParsePieces
  <2>2. Told(Fail(p, cut.errno))
    BY <1>7, FailIsTold, Zenon
  <2> QED
    BY <2>1, <2>2, Zenon DEF Tells
<1>8. CASE cut.errno = "SUCCESS"
  <2>1. ParsePieces(p, cut, end) = q
    BY <1>8, Zenon DEF ParsePieces, q, r, h, u
  <2> QED
    BY <1>6, <2>1
<1> QED
  BY <1>7, <1>8

\* Where an authority stands: after the first colon and two slashes.
AuthorityAt(text, at) ==
    /\ at \in 4..(Len(text) + 1)
    /\ \A i \in 1..(at - 3) : text[i] = Colon <=> i = at - 3
    /\ text[at - 2] = Slash /\ text[at - 1] = Slash

AuthorityClass == unreserved \cup sub_delims \cup {Percent, At, Colon, 91, 93}

LEMMA ClassFacts ==
    /\ \A c \in AuthorityClass : c \notin {Slash, Question, Hash}
    /\ \A c \in AuthorityClass : c \notin UserinfoClass /\ c # At => c \in {91, 93}
  BY DEF AuthorityClass, UserinfoClass, unreserved, sub_delims, ALPHA, DIGIT, Percent, At,
         Colon, Dot, Slash, Question, Hash

\* A user info of the text, up to its "@", that has a bracket or a bad escape.
LEMMA UserinfoIsBad ==
    ASSUME NEW text \in Seq(Chars), NEW at, AuthorityAt(text, at),
           NEW len \in Nat, at + len <= Len(text), text[at + len] = At,
           \A i \in 1..len : text[at + i - 1] \in AuthorityClass \ {At},
           NEW piece \in Seq(Chars), Len(piece) = len, \A i \in 1..len : piece[i] = text[at + i - 1],
           \/ BadEscape(piece)
           \/ \E i \in 1..Len(piece) : piece[i] \notin UserinfoClass
    PROVE  BadUserinfo(text)
<1> DEFINE end == at + len
<1>1. at \in 4..Len(text) /\ end \in 4..Len(text) /\ text[end] = At
  BY DEF AuthorityAt
<1>2. \A i \in 1..(at - 3) : text[i] = Colon <=> i = at - 3
  BY DEF AuthorityAt
<1>3. text[at - 2] = Slash /\ text[at - 1] = Slash
  BY DEF AuthorityAt
<1>4. \A i \in at..(end - 1) : text[i] \notin {Slash, Question, Hash, At}
  <2>1. ASSUME NEW i \in at..(end - 1) PROVE text[i] \in AuthorityClass \ {At}
    <3>1. i - at + 1 \in 1..len /\ at + (i - at + 1) - 1 = i
      BY <1>1
    <3> QED
      BY <3>1
  <2> QED
    BY <2>1, ClassFacts
<1>5. \E i \in at..(end - 1) :
         \/ text[i] \in {91, 93}
         \/ text[i] = Percent /\ \E k \in {i + 1, i + 2} : text[k] \notin HEXDIG
  <2>1. CASE BadEscape(piece)
    <3>1. PICK i \in 1..len, d \in {1, 2} :
            piece[i] = Percent /\ (i + d > len \/ piece[i + d] \notin HEXDIG)
      BY <2>1 DEF BadEscape
    <3> DEFINE j == at + i - 1
    <3>2. j \in at..(end - 1) /\ text[j] = Percent
      BY <1>1, <3>1
    <3>3. CASE i + d <= len
      <4>1. text[j + d] \notin HEXDIG
        <5>1. i + d \in 1..len /\ at + (i + d) - 1 = j + d
          <6>1. at \in Int /\ i \in Nat \ {0} /\ d \in Nat
            BY <1>1, <3>1
          <6> HIDE DEF end
          <6> QED
            BY <3>3, <6>1
        <5>2. piece[i + d] = text[at + (i + d) - 1]
          BY <5>1
        <5> QED
          BY <3>1, <3>3, <5>1, <5>2
      <4>2. j + d \in {j + 1, j + 2}
        OBVIOUS
      <4> QED
        BY <3>2, <4>1, <4>2
    <3>4. CASE i + d > len
      <4>1. end \in {j + 1, j + 2}
        BY <1>1, <3>4
      <4>2. text[end] \notin HEXDIG
        BY <1>1, CharFacts
      <4> QED
        BY <3>2, <4>1, <4>2
    <3> QED
      BY <1>1, <3>3, <3>4
  <2>2. CASE \E i \in 1..Len(piece) : piece[i] \notin UserinfoClass
    <3>1. PICK i \in 1..len : piece[i] \notin UserinfoClass
      BY <2>2
    <3>2. text[at + i - 1] \in {91, 93}
      <4>1. piece[i] = text[at + i - 1] /\ text[at + i - 1] \in AuthorityClass \ {At}
        OBVIOUS
      <4> QED
        BY <3>1, <4>1, ClassFacts, Zenon
    <3>3. at + i - 1 \in at..(end - 1)
      BY <1>1
    <3> QED
      BY <3>2, <3>3
  <2> QED
    BY <2>1, <2>2
<1> HIDE DEF end
<1> QED
  BY <1>1, <1>2, <1>3, <1>4, <1>5, ZenonT(30) DEF BadUserinfo

\* A piece of a text, from one position to another.
LEMMA PieceOf ==
    ASSUME NEW text \in Seq(Chars), NEW m \in Nat \ {0}, NEW n \in Nat, n <= Len(text)
    PROVE  /\ SubSeq(text, m, n) \in Seq(Chars)
           /\ Len(SubSeq(text, m, n)) = IF m <= n THEN n - m + 1 ELSE 0
           /\ \A i \in 1..(n - m + 1) : SubSeq(text, m, n)[i] = text[m + i - 1]
<1>1. \A i \in m..n : text[i] \in Chars
  OBVIOUS
<1>2. \A i \in 1..(n - m + 1) : SubSeq(text, m, n)[i] = text[m + i - 1]
  OBVIOUS
<1>3. Len(SubSeq(text, m, n)) = IF m <= n THEN n - m + 1 ELSE 0
  OBVIOUS
<1>4. SubSeq(text, m, n) \in Seq(Chars)
  BY <1>1
<1> QED
  BY <1>2, <1>3, <1>4

LEMMA AuthorityIsTold ==
    ASSUME NEW text \in Seq(Chars), NEW p, IsParse(p), Going(p), AuthorityAt(text, p.at)
    PROVE  Tells(ParseAuthority(p, text), text)
<1> DEFINE end == EndOf(text, p.at, AuthorityClass)
           auth == SubSeq(text, p.at, end - 1)
           at == First(Places(auth, At))
           cut == Cut(auth)
<1>1. p.at \in Nat \ {0} /\ p.at <= Len(text) + 1 /\ Len(text) \in Nat
  BY DEF AuthorityAt
<1>2. /\ end \in 1..(Len(text) + 1)
      /\ \A i \in p.at..(end - 1) : text[i] \in AuthorityClass
  BY <1>1, EndOfProperties
<1> HIDE DEF end
<1>3. /\ auth \in Seq(Chars)
      /\ Len(auth) = IF p.at <= end - 1 THEN end - 1 - p.at + 1 ELSE 0
      /\ \A i \in 1..(end - 1 - p.at + 1) : auth[i] = text[p.at + i - 1]
  <2>1. end - 1 \in Nat /\ end - 1 <= Len(text)
    BY <1>1, <1>2
  <2> QED
    BY <1>1, <2>1, PieceOf
<1> HIDE DEF auth
<1>4. \A i \in 1..Len(auth) : auth[i] = text[p.at + i - 1] /\ auth[i] \in AuthorityClass
                              /\ p.at + i - 1 \in 1..Len(text)
  <2>1. ASSUME NEW i \in 1..Len(auth) PROVE p.at + i - 1 \in p.at..(end - 1) /\ i \in 1..(end - 1 - p.at + 1)
    BY <1>1, <1>2, <1>3
  <2>2. ASSUME NEW i \in 1..Len(auth) PROVE p.at + i - 1 \in 1..Len(text)
    BY <1>1, <1>2, <2>1
  <2> QED
    BY <1>2, <1>3, <2>1, <2>2
<1>5. \/ at = 0
      \/ /\ at \in 1..Len(auth) /\ auth[at] = At
         /\ \A i \in 1..(at - 1) : auth[i] # At
  BY <1>3, FirstProperties
<1> HIDE DEF at
<1>6. cut.userinfo = SubSeq(auth, 1, at - 1)
  BY DEF Cut, CutAt, at
<1> HIDE DEF cut
<1>7. CASE at = 0
  <2>1. cut.userinfo = <<>>
    BY <1>3, <1>6, <1>7
  <2>2. cut.userinfo \in Seq(Chars) /\ ~BadEscape(cut.userinfo) /\ Len(cut.userinfo) = 0
    BY <2>1 DEF BadEscape
  <2>3. ~(\E i \in 1..Len(cut.userinfo) : cut.userinfo[i] \notin UserinfoClass)
    BY <2>2
  <2>4. Tells(ParsePieces(p, cut, end), text)
    BY <2>2, <2>3, PiecesAreTold, Zenon
  <2> QED
    BY <2>4, Zenon DEF ParseAuthority, AuthorityClass, cut, auth, end
<1>8. CASE at # 0
  <2> DEFINE piece == cut.userinfo
             len == at - 1
  <2>1. at \in 1..Len(auth) /\ auth[at] = At /\ \A i \in 1..len : auth[i] # At
    BY <1>5, <1>8
  <2>2. len \in Nat /\ len <= Len(auth) /\ \A i \in 1..len : i \in 1..Len(auth)
    BY <1>3, <2>1
  <2>3. piece \in Seq(Chars) /\ Len(piece) = len /\ \A i \in 1..len : piece[i] = auth[i]
    <3> HIDE DEF len
    <3>1. SubSeq(auth, 1, len) \in Seq(Chars) /\ Len(SubSeq(auth, 1, len)) = len
          /\ \A i \in 1..len : SubSeq(auth, 1, len)[i] = auth[i]
      BY <1>3, <2>2
    <3> QED
      BY <1>6, <3>1 DEF len
  <2>4. text[p.at + len] = At /\ p.at + len <= Len(text)
    <3>1. p.at + len = p.at + at - 1
      BY <1>1, <1>3, <2>1
    <3>2. auth[at] = text[p.at + at - 1] /\ p.at + at - 1 \in 1..Len(text)
      BY <1>4, <2>1
    <3> QED
      BY <2>1, <3>1, <3>2
  <2>5. \A i \in 1..len : text[p.at + i - 1] \in AuthorityClass \ {At} /\ piece[i] = text[p.at + i - 1]
    BY <1>4, <2>1, <2>2, <2>3
  <2> HIDE DEF len, piece
  <2>6. BadEscape(piece) \/ (\E i \in 1..Len(piece) : piece[i] \notin UserinfoClass) => BadUserinfo(text)
    BY <2>2, <2>3, <2>4, <2>5, UserinfoIsBad, ZenonT(30)
  <2>7. Tells(ParsePieces(p, cut, end), text)
    BY <2>3, <2>6, PiecesAreTold, Zenon DEF piece
  <2> QED
    BY <2>7, Zenon DEF ParseAuthority, AuthorityClass, cut, auth, end
<1> QED
  BY <1>7, <1>8

LEMMA SegmentsAreTold ==
    ASSUME NEW p, IsParse(p), Going(p), NEW data, NEW from
    PROVE  Told(ParseSegments(p, data, from))
<1> DEFINE end == EndOf(data, IF data[from] = Colon THEN from + 1 ELSE from, pchar \cup {Slash})
           decoded == Decode(p, "path", SubSeq(data, p.at, end - 1), FALSE)
           ended == [decoded EXCEPT !.at = end]
<1>1. Told(decoded) /\ IsParse(decoded)
  <2> HIDE DEF end
  <2> QED
    BY DecodeIsParse, DecodeIsTold, Zenon
<1>2. Told(ended)
  <2> HIDE DEF decoded, end
  <2> QED
    BY <1>1 DEF IsParse, Told
<1>3. \/ ParseSegments(p, data, from) = Fail(p, "URI_PATHDELIM")
      \/ ParseSegments(p, data, from) = Fail(p, "URI_AUTHINPATH")
      \/ ParseSegments(p, data, from) = ended
  BY Zenon DEF ParseSegments
<1>4. Told(Fail(p, "URI_PATHDELIM")) /\ Told(Fail(p, "URI_AUTHINPATH"))
  BY FailIsTold
<1> HIDE DEF ended
<1> QED
  BY <1>2, <1>3, <1>4, Zenon

LEMMA PathIsTold ==
    ASSUME NEW p, IsParse(p), Going(p), NEW data, NEW expect_root \in BOOLEAN
    PROVE  Told(ParsePath(p, data, expect_root))
<1> DEFINE from == IF expect_root THEN p.at + 1 ELSE p.at
           whole == [p EXCEPT !.at = p.at + 1, !.uri.path = <<Slash>>]
<1>1. Told(p) /\ Told(whole)
  BY DEF IsParse, Going, Told
<1>2. Told(ParseSegments(p, data, from))
  BY SegmentsAreTold, Zenon
<1>3. \/ ParsePath(p, data, expect_root) = p
      \/ ParsePath(p, data, expect_root) = Fail(p, "URI_PATHABEMPTY")
      \/ ParsePath(p, data, expect_root) = whole
      \/ ParsePath(p, data, expect_root) = ParseSegments(p, data, from)
  BY Zenon DEF ParsePath
<1>4. Told(Fail(p, "URI_PATHABEMPTY"))
  BY FailIsTold
<1> HIDE DEF whole, from
<1> QED
  BY <1>1, <1>2, <1>3, <1>4, Zenon

\* Where the parse stands after the colon that ends the scheme.
AfterColon(text, at) ==
    /\ at \in 3..(Len(text) + 1)
    /\ \A i \in 1..(at - 1) : text[i] = Colon <=> i = at - 1

LEMMA HierPartIsTold ==
    ASSUME NEW text \in Seq(Chars), NEW p, IsParse(p), Going(p), AfterColon(text, p.at)
    PROVE  Tells(ParseHierPart(p, text), text)
<1> DEFINE inside == [p EXCEPT !.at = p.at + 2]
           rooted == [p EXCEPT !.at = p.at + 1, !.uri.path = <<Slash>>]
           Is(i, c) == i <= Len(text) /\ text[i] = c
           auth == ParseAuthority(inside, text)
<1>1. /\ IsParse(inside) /\ Going(inside) /\ inside.at = p.at + 2
      /\ IsParse(rooted) /\ Going(rooted) /\ Going(p)
  <2>1. IsParse(inside) /\ IsParse(rooted)
    BY AtIsParse, PartIsParse
  <2>2. Going(inside) /\ inside.at = p.at + 2 /\ Going(rooted)
    BY DEF IsParse, Going
  <2> QED
    BY <2>1, <2>2
<1> HIDE DEF inside, rooted
<1>2. ParseHierPart(p, text) =
          CASE Is(p.at, Slash) /\ Is(p.at + 1, Slash) -> AfterAuthority(auth, text)
            [] Is(p.at, Slash) /\ ~Is(p.at + 1, Slash) -> ParsePath(rooted, text, FALSE)
            [] p.at <= Len(text) /\ text[p.at] \in pchar -> ParsePath(p, text, FALSE)
            [] OTHER -> p
  BY Zenon DEF ParseHierPart, inside, rooted
<1> HIDE DEF Is, auth
<1>3. \/ /\ Is(p.at, Slash) /\ Is(p.at + 1, Slash)
         /\ ParseHierPart(p, text) = AfterAuthority(auth, text)
      \/ ParseHierPart(p, text) = ParsePath(rooted, text, FALSE)
      \/ ParseHierPart(p, text) = ParsePath(p, text, FALSE)
      \/ ParseHierPart(p, text) = p
  BY <1>2, Zenon
<1>4. Told(p) /\ Told(ParsePath(rooted, text, FALSE)) /\ Told(ParsePath(p, text, FALSE))
  <2>1. Told(p)
    BY DEF Going, Told
  <2> QED
    BY <1>1, <2>1, PathIsTold, Zenon
<1>5. CASE /\ Is(p.at, Slash) /\ Is(p.at + 1, Slash)
           /\ ParseHierPart(p, text) = AfterAuthority(auth, text)
  <2>1. AuthorityAt(text, inside.at)
    <3> DEFINE k == p.at + 2
    <3>1. p.at \in 3..(Len(text) + 1) /\ Len(text) \in Nat /\ p.at + 1 <= Len(text)
      BY <1>5 DEF AfterColon, Is
    <3>2. /\ k \in 4..(Len(text) + 1)
          /\ k - 3 = p.at - 1 /\ k - 2 = p.at /\ k - 1 = p.at + 1
      BY <3>1
    <3>3. text[k - 2] = Slash /\ text[k - 1] = Slash
      BY <1>5, <3>2, Zenon DEF Is
    <3> HIDE DEF k
    <3>4. AuthorityAt(text, k)
      BY <3>2, <3>3, Zenon DEF AuthorityAt, AfterColon
    <3> QED
      BY <1>1, <3>4 DEF k
  <2>2. Tells(auth, text)
    BY <1>1, <2>1, AuthorityIsTold, Zenon DEF auth
  <2>3. IsParse(auth)
    BY <1>1, AuthorityIsParse, Zenon DEF auth
  <2>4. CASE auth.ok
    <3>1. Going(auth)
      BY <2>2, <2>4 DEF Tells, Told, Going
    <3>2. Told(ParsePath(auth, text, TRUE))
      BY <2>3, <3>1, PathIsTold, Zenon
    <3> QED
      BY <1>5, <2>4, <3>2, Zenon DEF AfterAuthority, Tells
  <2>5. CASE ~auth.ok
    BY <1>5, <2>2, <2>5, Zenon DEF AfterAuthority
  <2> QED
    BY <2>4, <2>5
<1> QED
  BY <1>3, <1>4, <1>5, Zenon DEF Tells

LEMMA QueryIsTold ==
    ASSUME NEW p, IsParse(p), Going(p), NEW data
    PROVE  Told(ParseQuery(p, data)) /\ Told(ParseFragment(p, data))
<1>1. ASSUME NEW q, IsParse(q), Told(q), NEW end PROVE Told([q EXCEPT !.at = end])
  BY <1>1 DEF IsParse, Told
<1>2. Told(ParseQuery(p, data))
  BY <1>1, DecodeIsParse, DecodeIsTold, Zenon DEF ParseQuery
<1>3. Told(ParseFragment(p, data))
  BY <1>1, DecodeIsParse, DecodeIsTold, Zenon DEF ParseFragment
<1> QED
  BY <1>2, <1>3

LEMMA AfterSchemeIsTold ==
    ASSUME NEW text \in Seq(Chars), NEW p, IsParse(p), Told(p),
           p.ok => p.at \in Nat,
           p.ok /\ p.at <= Len(text) /\ text[p.at] = Colon => AfterColon(text, p.at + 1)
    PROVE  Tells(AfterScheme(p, text), text)
<1> DEFINE begin == [p EXCEPT !.at = p.at + 1]
           hier == ParseHierPart(begin, text)
           queried == If(hier, text, Question, ParseQuery)
           whole == If(queried, text, Hash, ParseFragment)
           stops == p.at > Len(text) \/ text[p.at] # Colon
<1>1. \/ ~p.ok /\ AfterScheme(p, text) = p
      \/ stops /\ AfterScheme(p, text) = Fail(p, "URI_NOCOLON")
      \/ p.ok /\ ~stops /\ AfterScheme(p, text) = whole
  BY Zenon DEF AfterScheme
<1>2. Told(Fail(p, "URI_NOCOLON"))
  BY FailIsTold
<1>3. ASSUME p.ok, ~stops PROVE Tells(whole, text)
  <2>1. IsParse(begin) /\ Going(begin) /\ begin.at = p.at + 1
    <3>1. IsParse(begin)
      BY AtIsParse
    <3>2. begin.at = p.at + 1 /\ begin.ok = p.ok /\ begin.errno = p.errno
      BY DEF IsParse
    <3> HIDE DEF begin
    <3> QED
      BY <1>3, <3>1, <3>2 DEF Told, Going
  <2> HIDE DEF begin
  <2>2. AfterColon(text, begin.at)
    <3>1. p.at <= Len(text) /\ text[p.at] = Colon
      <4>1. ~(p.at > Len(text)) /\ text[p.at] = Colon
        BY <1>3
      <4>2. p.at \in Nat /\ Len(text) \in Nat
        BY <1>3
      <4> QED
        BY <4>1, <4>2
    <3> QED
      BY <1>3, <2>1, <3>1
  <2>3. IsParse(hier) /\ Tells(hier, text)
    BY <2>1, <2>2, HierPartIsTold, HierPartIsParse, Zenon
  <2> HIDE DEF hier
  <2>4. ASSUME NEW q, IsParse(q), Tells(q, text), q.ok
        PROVE  IsParse([q EXCEPT !.at = q.at + 1]) /\ Going([q EXCEPT !.at = q.at + 1])
    <3>1. IsParse([q EXCEPT !.at = q.at + 1])
      BY <2>4, AtIsParse
    <3>2. [q EXCEPT !.at = q.at + 1].ok = q.ok /\ [q EXCEPT !.at = q.at + 1].errno = q.errno
      BY <2>4 DEF IsParse
    <3>3. q.ok = TRUE /\ q.errno = "SUCCESS"
      BY <2>4 DEF Tells, Told
    <3> QED
      BY <3>1, <3>2, <3>3, Zenon DEF Going
  <2>5. IsParse(queried) /\ Tells(queried, text)
    <3>1. CASE hier.ok
      BY <2>3, <2>4, <3>1, QueryIsTold, QueryIsParse, Zenon DEF If, Tells
    <3>2. CASE ~hier.ok
      BY <2>3, <3>2, Zenon DEF If
    <3> QED
      BY <3>1, <3>2
  <2> HIDE DEF queried
  <2>6. CASE queried.ok
    BY <2>5, <2>4, <2>6, QueryIsTold, Zenon DEF If, Tells
  <2>7. CASE ~queried.ok
    BY <2>5, <2>7, Zenon DEF If
  <2> QED
    BY <2>6, <2>7
<1> HIDE DEF whole, stops
<1> QED
  BY <1>1, <1>2, <1>3, Zenon DEF Tells

\* A parse says in imp_errno whether it has failed, but for a user info that
\* hides it.
LEMMA ParseUriTells == ASSUME NEW text \in Seq(Chars) PROVE Tells(ParseUri(text), text)
<1> DEFINE class == ALPHA \cup DIGIT \cup {43, 45, Dot}
           end == EndOf(text, 1, class)
           scheme == SubSeq(text, 1, end - 1)
           begun == [StartOfParse EXCEPT !.at = end, !.uri.scheme = scheme]
           p == ParseScheme(StartOfParse, text)
<1>1. CASE text = <<>>
  <2>1. ParseUri(text) = StartOfParse
    BY <1>1 DEF ParseUri
  <2> QED
    BY <2>1 DEF StartOfParse, Tells, Told
<1>2. CASE text # <<>>
  <2>1. IsParse(p)
    BY StartIsParse, SchemeIsParse
  <2>2. \/ p = Fail(StartOfParse, "URI_SCHEME")
        \/ text[1] \in ALPHA /\ p = begun
    BY Zenon DEF ParseScheme
  <2>3. Told(Fail(StartOfParse, "URI_SCHEME")) /\ Fail(StartOfParse, "URI_SCHEME").ok = FALSE
    BY StartIsParse, FailIsTold
  <2> HIDE DEF scheme
  <2>4. Told(begun) /\ begun.at = end
    BY DEF StartOfParse, Told
  <2> HIDE DEF begun, p
  <2>5. ASSUME p.ok, p.at <= Len(text), text[p.at] = Colon PROVE AfterColon(text, p.at + 1)
    <3>1. p.at = end /\ text[1] \in ALPHA
      BY <2>2, <2>3, <2>4, <2>5
    <3>2. end \in 1..(Len(text) + 1) /\ \A i \in 1..(end - 1) : text[i] \in class
      BY EndOfProperties
    <3> HIDE DEF end
    <3>3. \A c \in class : c # Colon
      BY DEF ALPHA, DIGIT, Dot, Colon
    <3>4. end # 1
      <4>1. Colon \notin ALPHA
        BY DEF ALPHA, Colon
      <4> QED
        BY <2>5, <3>1, <4>1
    <3>5. end + 1 \in 3..(Len(text) + 1)
      BY <2>5, <3>1, <3>2, <3>4
    <3>6. \A i \in 1..end : text[i] = Colon <=> i = end
      <4>1. ASSUME NEW i \in 1..end PROVE text[i] = Colon <=> i = end
        <5>1. CASE i = end
          BY <2>5, <3>1, <5>1
        <5>2. CASE i # end
          <6>1. i \in 1..(end - 1)
            BY <3>2, <5>2
          <6> QED
            BY <3>2, <3>3, <5>2, <6>1, Zenon
        <5> QED
          BY <5>1, <5>2
      <4> QED
        BY <4>1
    <3> DEFINE k == end + 1
    <3> HIDE DEF k
    <3>7. AfterColon(text, k)
      <4>1. k \in 3..(Len(text) + 1)
        BY <3>5 DEF k
      <4>2. k - 1 = end
        BY <3>2 DEF k
      <4> QED
        BY <3>6, <4>1, <4>2, Zenon DEF AfterColon
    <3> QED
      BY <3>1, <3>7 DEF k
  <2>6. Tells(AfterScheme(p, text), text)
    <3>1. Told(p) /\ (p.ok => p.at \in Nat)
      <4>1. end \in Nat
        BY EndOfProperties
      <4> HIDE DEF end
      <4> QED
        BY <2>2, <2>3, <2>4, <4>1
    <3> QED
      BY <2>1, <2>5, <3>1, AfterSchemeIsTold, Zenon
  <2> QED
    BY <1>2, <2>6, Zenon DEF ParseUri, p
<1> QED
  BY <1>1, <1>2

------------------------------------------------------------------------------
(* What a parse leaves in an object *)

\* Only permanent schemes are registered (the inverted test of uri.cpp:466).
OnlyPermanent == DOMAIN usr \subseteq DOMAIN Permanent

LEMMA PostParseFlagFits ==
    ASSUME OnlyPermanent, NEW parts, IsParts(parts), NEW outcome \in PostParse(parts)
    PROVE  FlagFits(outcome[1], outcome[2]) /\ outcome[2] \in BOOLEAN
<1> DEFINE scheme == [i \in DOMAIN parts.scheme |-> ToLower(parts.scheme[i])]
           path == PathNormalize(parts.path).str
           result == [parts EXCEPT !.scheme = scheme, !.path = path]
           default == DefaultPort(scheme)
<1>1. \/ parts.port >= 0 /\ Registered(scheme) /\ outcome = <<result, parts.port = default>>
      \/ parts.port >= 0 /\ ~Registered(scheme) /\ outcome \in {result} \X BOOLEAN
      \/ Registered(scheme) /\ default >= 0 /\ outcome = <<[result EXCEPT !.port = default], TRUE>>
      \/ ~(parts.port >= 0) /\ outcome = <<result, FALSE>>
  <2>1. PostParse(parts) =
          CASE parts.port >= 0 /\ Registered(scheme) -> {<<result, parts.port = default>>}
            [] parts.port >= 0 /\ ~Registered(scheme) -> {result} \X BOOLEAN
            [] parts.port < 0 /\ Registered(scheme) /\ default >= 0 ->
                 {<<[result EXCEPT !.port = default], TRUE>>}
            [] OTHER -> {<<result, FALSE>>}
    BY Zenon DEF PostParse
  <2> HIDE DEF scheme, path, result, default
  <2>2. \/ PostParse(parts) = {<<result, parts.port = default>>} /\ parts.port >= 0 /\ Registered(scheme)
        \/ PostParse(parts) = {result} \X BOOLEAN /\ parts.port >= 0 /\ ~Registered(scheme)
        \/ PostParse(parts) = {<<[result EXCEPT !.port = default], TRUE>>} /\ Registered(scheme) /\ default >= 0
        \/ PostParse(parts) = {<<result, FALSE>>} /\ ~(parts.port >= 0)
    BY <2>1, Zenon
  <2> QED
    BY <2>2, Zenon
<1> HIDE DEF scheme, path
<1>2. /\ result.scheme = scheme /\ result.port = parts.port
      /\ [result EXCEPT !.port = default].scheme = scheme
      /\ [result EXCEPT !.port = default].port = default
  <2> HIDE DEF default
  <2> QED
    BY DEF IsParts, Fields
<1>3. Registered(scheme) => scheme \in DOMAIN Permanent /\ default = Permanent[scheme]
  BY Zenon DEF Registered, OnlyPermanent, DefaultPort
<1> HIDE DEF result, default
<1>4. CASE parts.port >= 0 /\ Registered(scheme) /\ outcome = <<result, parts.port = default>>
  <2>1. outcome[1] = result /\ outcome[2] = (parts.port = default)
    BY <1>4
  <2> QED
    BY <1>2, <1>3, <1>4, <2>1, Zenon DEF FlagFits, HoldsPermanent
<1>5. CASE parts.port >= 0 /\ ~Registered(scheme) /\ outcome \in {result} \X BOOLEAN
  <2>1. outcome[1] = result /\ outcome[2] \in BOOLEAN
    BY <1>5
  <2>2. UndefinedFlag(result)
    BY <1>2, <1>5, Zenon DEF UndefinedFlag, Registered
  <2> QED
    BY <2>1, <2>2, Zenon DEF FlagFits, HoldsPermanent
<1>6. CASE Registered(scheme) /\ default >= 0 /\ outcome = <<[result EXCEPT !.port = default], TRUE>>
  <2>1. outcome[1] = [result EXCEPT !.port = default] /\ outcome[2] = TRUE
    BY <1>6
  <2> QED
    BY <1>2, <1>3, <1>6, <2>1, Zenon DEF FlagFits, HoldsPermanent
<1>7. CASE ~(parts.port >= 0) /\ outcome = <<result, FALSE>>
  <2>1. outcome[1] = result /\ outcome[2] = FALSE
    BY <1>7
  <2> QED
    BY <1>2, <1>7, <2>1, Zenon DEF FlagFits, HoldsPermanent
<1> QED
  BY <1>1, <1>4, <1>5, <1>6, <1>7, Zenon

------------------------------------------------------------------------------
(* The inductive invariant *)

------------------------------------------------------------------------------
(* The loops of the decoder, the normalization and the numbers *)

\* The states that the decoder goes through.
DecodeRun(f, t, tolower) ==
    f[0] = StartOfDecode /\ \A i \in 1..Len(t) : f[i] = DecodeNext(f[i - 1], t[i], tolower)

LEMMA DecoderIterates ==
    ASSUME NEW t, Len(t) \in Nat, NEW tolower
    PROVE  \E f : DecodeRun(f, t, tolower) /\ EndOfDecode(t, tolower) = f[Len(t)]
<1> DEFINE Upto(f, m) == f = [i \in 0..m |-> IF i = 0 THEN StartOfDecode ELSE DecodeNext(f[i - 1], t[i], tolower)]
           T == {m \in Nat : \E f : Upto(f, m)}
           n == Len(t)
           chosen == CHOOSE f : Upto(f, n)
<1>1. n \in Nat
  OBVIOUS
<1>2. 0 \in T
  <2> DEFINE f == [i \in 0..0 |-> StartOfDecode]
  <2>1. Upto(f, 0)
    OBVIOUS
  <2> HIDE DEF Upto
  <2> QED
    BY <2>1
<1>3. ASSUME NEW m \in Nat, m \in T PROVE m + 1 \in T
  <2>1. PICK f : Upto(f, m)
    BY <1>3
  <2>2. \A i \in 0..m : f[i] = IF i = 0 THEN StartOfDecode ELSE DecodeNext(f[i - 1], t[i], tolower)
    BY <2>1
  <2> DEFINE last == DecodeNext(f[m], t[m + 1], tolower)
             h == [i \in 0..(m + 1) |-> IF i = m + 1 THEN last ELSE f[i]]
  <2> HIDE DEF Upto, T, last
  <2>3. \A i \in 0..m : h[i] = f[i]
    OBVIOUS
  <2>4. h[m + 1] = last /\ h = [i \in 0..(m + 1) |-> h[i]]
    OBVIOUS
  <2> HIDE DEF h
  <2>5. ASSUME NEW i \in 0..(m + 1) PROVE h[i] = IF i = 0 THEN StartOfDecode ELSE DecodeNext(h[i - 1], t[i], tolower)
    <3>1. CASE i = m + 1
      <4>1. i - 1 = m /\ i # 0 /\ h[m] = f[m]
        BY <2>3, <3>1
      <4> QED
        BY <2>4, <3>1, <4>1, Zenon DEF last
    <3>2. CASE i # m + 1
      <4>1. i \in 0..m /\ (i # 0 => i - 1 \in 0..m)
        BY <3>2
      <4>2. h[i] = f[i] /\ (i # 0 => h[i - 1] = f[i - 1])
        BY <2>3, <4>1
      <4> QED
        BY <2>2, <4>1, <4>2, Zenon
    <3> QED
      BY <3>1, <3>2
  <2>6. Upto(h, m + 1)
    BY <2>4, <2>5, Zenon DEF Upto
  <2> QED
    BY <2>6 DEF T
<1> HIDE DEF T
<1>4. n \in T
  BY <1>1, <1>2, <1>3, SetInduction
<1>5. Upto(chosen, n)
  <2> HIDE DEF Upto
  <2> QED
    BY <1>4, Zenon DEF T
<1>6. EndOfDecode(t, tolower) = chosen[n]
  BY Zenon DEF EndOfDecode
<1> HIDE DEF chosen
<1>7. 0 \in 0..n /\ \A i \in 1..n : i \in 0..n /\ i # 0
  BY <1>1
<1>8. \A i \in 0..n : chosen[i] = IF i = 0 THEN StartOfDecode ELSE DecodeNext(chosen[i - 1], t[i], tolower)
  BY <1>5, Zenon
<1> HIDE DEF Upto
<1>9. /\ chosen[0] = StartOfDecode
      /\ \A i \in 1..n : chosen[i] = DecodeNext(chosen[i - 1], t[i], tolower)
  BY <1>7, <1>8, Zenon
<1> QED
  BY <1>6, <1>9, Zenon DEF DecodeRun

LEMMA DecodeAppend ==
    ASSUME NEW S, NEW t \in Seq(S), NEW c \in S, NEW tolower
    PROVE  EndOfDecode(Append(t, c), tolower) = DecodeNext(EndOfDecode(t, tolower), c, tolower)
<1> DEFINE n == Len(t)
           u == Append(t, c)
<1>1. u \in Seq(S) /\ Len(u) = n + 1 /\ u[n + 1] = c /\ \A i \in 1..n : u[i] = t[i]
  BY AppendProperties
<1>2. n \in Nat
  OBVIOUS
<1>3. Len(u) \in Nat
  BY <1>1, <1>2
<1> HIDE DEF u
<1>4. PICK f : DecodeRun(f, t, tolower) /\ EndOfDecode(t, tolower) = f[n]
  BY <1>2, DecoderIterates, Zenon DEF n
<1>5. PICK g : DecodeRun(g, u, tolower) /\ EndOfDecode(u, tolower) = g[Len(u)]
  BY <1>3, DecoderIterates, Zenon
<1>6. f[0] = StartOfDecode /\ \A i \in 1..n : f[i] = DecodeNext(f[i - 1], t[i], tolower)
  BY <1>4, Zenon DEF DecodeRun, n
<1>7. g[0] = StartOfDecode /\ \A i \in 1..Len(u) : g[i] = DecodeNext(g[i - 1], u[i], tolower)
  BY <1>5, Zenon DEF DecodeRun
<1> HIDE DEF n
<1>8. \A i \in 1..n : i \in 1..(n + 1)
  BY <1>2
<1>9. \A i \in 1..n : f[i - 1] = g[i - 1] => f[i] = g[i]
  BY <1>1, <1>6, <1>7, <1>8, Zenon
<1>10. f[0] = g[0]
  BY <1>6, <1>7, Zenon
<1>11. f[n] = g[n]
  BY <1>2, <1>10, <1>9, LoopsAgree, Zenon
<1>12. n + 1 \in 1..(n + 1) /\ (n + 1) - 1 = n
  BY <1>2
<1>13. g[n + 1] = DecodeNext(g[n], c, tolower)
  <2>1. g[n + 1] = DecodeNext(g[(n + 1) - 1], u[n + 1], tolower)
    BY <1>1, <1>7, <1>12, Zenon
  <2> QED
    BY <2>1, <1>1, <1>12
<1> QED
  BY <1>1, <1>4, <1>5, <1>11, <1>13, Zenon DEF u

LEMMA DecodeEmpty ==
    ASSUME NEW tolower
    PROVE  EndOfDecode(<<>>, tolower) = StartOfDecode
<1>1. Len(<<>>) \in Nat /\ Len(<<>>) = 0
  OBVIOUS
<1>2. PICK f : DecodeRun(f, <<>>, tolower) /\ EndOfDecode(<<>>, tolower) = f[Len(<<>>)]
  BY <1>1, DecoderIterates, Zenon
<1> QED
  BY <1>1, <1>2, Zenon DEF DecodeRun

\* The states that the normalization of a path goes through.
WalkRun(f, t) ==
    f[0] = StartOfPath /\ \A i \in 1..Len(t) : f[i] = NormalizeNext(f[i - 1], t[i])

LEMMA WalkIterates ==
    ASSUME NEW t, Len(t) \in Nat
    PROVE  \E f : WalkRun(f, t) /\ EndOfPath(t) = f[Len(t)]
<1> DEFINE Upto(f, m) == f = [i \in 0..m |-> IF i = 0 THEN StartOfPath ELSE NormalizeNext(f[i - 1], t[i])]
           T == {m \in Nat : \E f : Upto(f, m)}
           n == Len(t)
           chosen == CHOOSE f : Upto(f, n)
<1>1. n \in Nat
  OBVIOUS
<1>2. 0 \in T
  <2> DEFINE f == [i \in 0..0 |-> StartOfPath]
  <2>1. Upto(f, 0)
    OBVIOUS
  <2> HIDE DEF Upto
  <2> QED
    BY <2>1
<1>3. ASSUME NEW m \in Nat, m \in T PROVE m + 1 \in T
  <2>1. PICK f : Upto(f, m)
    BY <1>3
  <2>2. \A i \in 0..m : f[i] = IF i = 0 THEN StartOfPath ELSE NormalizeNext(f[i - 1], t[i])
    BY <2>1
  <2> DEFINE last == NormalizeNext(f[m], t[m + 1])
             h == [i \in 0..(m + 1) |-> IF i = m + 1 THEN last ELSE f[i]]
  <2> HIDE DEF Upto, T, last
  <2>3. \A i \in 0..m : h[i] = f[i]
    OBVIOUS
  <2>4. h[m + 1] = last /\ h = [i \in 0..(m + 1) |-> h[i]]
    OBVIOUS
  <2> HIDE DEF h
  <2>5. ASSUME NEW i \in 0..(m + 1) PROVE h[i] = IF i = 0 THEN StartOfPath ELSE NormalizeNext(h[i - 1], t[i])
    <3>1. CASE i = m + 1
      <4>1. i - 1 = m /\ i # 0 /\ h[m] = f[m]
        BY <2>3, <3>1
      <4> QED
        BY <2>4, <3>1, <4>1, Zenon DEF last
    <3>2. CASE i # m + 1
      <4>1. i \in 0..m /\ (i # 0 => i - 1 \in 0..m)
        BY <3>2
      <4>2. h[i] = f[i] /\ (i # 0 => h[i - 1] = f[i - 1])
        BY <2>3, <4>1
      <4> QED
        BY <2>2, <4>1, <4>2, Zenon
    <3> QED
      BY <3>1, <3>2
  <2>6. Upto(h, m + 1)
    BY <2>4, <2>5, Zenon DEF Upto
  <2> QED
    BY <2>6 DEF T
<1> HIDE DEF T
<1>4. n \in T
  BY <1>1, <1>2, <1>3, SetInduction
<1>5. Upto(chosen, n)
  <2> HIDE DEF Upto
  <2> QED
    BY <1>4, Zenon DEF T
<1>6. EndOfPath(t) = chosen[n]
  BY Zenon DEF EndOfPath
<1> HIDE DEF chosen
<1>7. 0 \in 0..n /\ \A i \in 1..n : i \in 0..n /\ i # 0
  BY <1>1
<1>8. \A i \in 0..n : chosen[i] = IF i = 0 THEN StartOfPath ELSE NormalizeNext(chosen[i - 1], t[i])
  BY <1>5, Zenon
<1> HIDE DEF Upto
<1>9. /\ chosen[0] = StartOfPath
      /\ \A i \in 1..n : chosen[i] = NormalizeNext(chosen[i - 1], t[i])
  BY <1>7, <1>8, Zenon
<1> QED
  BY <1>6, <1>9, Zenon DEF WalkRun

LEMMA WalkAppend ==
    ASSUME NEW S, NEW t \in Seq(S), NEW c \in S
    PROVE  EndOfPath(Append(t, c)) = NormalizeNext(EndOfPath(t), c)
<1> DEFINE n == Len(t)
           u == Append(t, c)
<1>1. u \in Seq(S) /\ Len(u) = n + 1 /\ u[n + 1] = c /\ \A i \in 1..n : u[i] = t[i]
  BY AppendProperties
<1>2. n \in Nat
  OBVIOUS
<1>3. Len(u) \in Nat
  BY <1>1, <1>2
<1> HIDE DEF u
<1>4. PICK f : WalkRun(f, t) /\ EndOfPath(t) = f[n]
  BY <1>2, WalkIterates, Zenon DEF n
<1>5. PICK g : WalkRun(g, u) /\ EndOfPath(u) = g[Len(u)]
  BY <1>3, WalkIterates, Zenon
<1>6. f[0] = StartOfPath /\ \A i \in 1..n : f[i] = NormalizeNext(f[i - 1], t[i])
  BY <1>4, Zenon DEF WalkRun, n
<1>7. g[0] = StartOfPath /\ \A i \in 1..Len(u) : g[i] = NormalizeNext(g[i - 1], u[i])
  BY <1>5, Zenon DEF WalkRun
<1> HIDE DEF n
<1>8. \A i \in 1..n : i \in 1..(n + 1)
  BY <1>2
<1>9. \A i \in 1..n : f[i - 1] = g[i - 1] => f[i] = g[i]
  BY <1>1, <1>6, <1>7, <1>8, Zenon
<1>10. f[0] = g[0]
  BY <1>6, <1>7, Zenon
<1>11. f[n] = g[n]
  BY <1>2, <1>10, <1>9, LoopsAgree, Zenon
<1>12. n + 1 \in 1..(n + 1) /\ (n + 1) - 1 = n
  BY <1>2
<1>13. g[n + 1] = NormalizeNext(g[n], c)
  <2>1. g[n + 1] = NormalizeNext(g[(n + 1) - 1], u[n + 1])
    BY <1>1, <1>7, <1>12, Zenon
  <2> QED
    BY <2>1, <1>1, <1>12
<1> QED
  BY <1>1, <1>4, <1>5, <1>11, <1>13, Zenon DEF u

LEMMA WalkEmpty == EndOfPath(<<>>) = StartOfPath
<1>1. Len(<<>>) \in Nat /\ Len(<<>>) = 0
  OBVIOUS
<1>2. PICK f : WalkRun(f, <<>>) /\ EndOfPath(<<>>) = f[Len(<<>>)]
  BY <1>1, WalkIterates, Zenon
<1> QED
  BY <1>1, <1>2, Zenon DEF WalkRun

\* The values that the reading of a number goes through.
NumberRun(f, t) ==
    f[0] = 0 /\ \A i \in 1..Len(t) : f[i] = 10 * f[i - 1] + t[i] - 48

LEMMA NumberIterates ==
    ASSUME NEW t, Len(t) \in Nat
    PROVE  \E f : NumberRun(f, t) /\ Number(t) = f[Len(t)]
<1> DEFINE Upto(f, m) == f = [i \in 0..m |-> IF i = 0 THEN 0 ELSE 10 * f[i - 1] + t[i] - 48]
           T == {m \in Nat : \E f : Upto(f, m)}
           n == Len(t)
           chosen == CHOOSE f : Upto(f, n)
<1>1. n \in Nat
  OBVIOUS
<1>2. 0 \in T
  <2> DEFINE f == [i \in 0..0 |-> 0]
  <2>1. Upto(f, 0)
    OBVIOUS
  <2> HIDE DEF Upto
  <2> QED
    BY <2>1
<1>3. ASSUME NEW m \in Nat, m \in T PROVE m + 1 \in T
  <2>1. PICK f : Upto(f, m)
    BY <1>3
  <2>2. \A i \in 0..m : f[i] = IF i = 0 THEN 0 ELSE 10 * f[i - 1] + t[i] - 48
    BY <2>1
  <2> DEFINE last == 10 * f[m] + t[m + 1] - 48
             h == [i \in 0..(m + 1) |-> IF i = m + 1 THEN last ELSE f[i]]
  <2> HIDE DEF Upto, T, last
  <2>3. \A i \in 0..m : h[i] = f[i]
    OBVIOUS
  <2>4. h[m + 1] = last /\ h = [i \in 0..(m + 1) |-> h[i]]
    OBVIOUS
  <2> HIDE DEF h
  <2>5. ASSUME NEW i \in 0..(m + 1) PROVE h[i] = IF i = 0 THEN 0 ELSE 10 * h[i - 1] + t[i] - 48
    <3>1. CASE i = m + 1
      <4>1. i - 1 = m /\ i # 0 /\ h[m] = f[m]
        BY <2>3, <3>1
      <4> QED
        BY <2>4, <3>1, <4>1, Zenon DEF last
    <3>2. CASE i # m + 1
      <4>1. i \in 0..m /\ (i # 0 => i - 1 \in 0..m)
        BY <3>2
      <4>2. h[i] = f[i] /\ (i # 0 => h[i - 1] = f[i - 1])
        BY <2>3, <4>1
      <4> QED
        BY <2>2, <4>1, <4>2, Zenon
    <3> QED
      BY <3>1, <3>2
  <2>6. Upto(h, m + 1)
    BY <2>4, <2>5, Zenon DEF Upto
  <2> QED
    BY <2>6 DEF T
<1> HIDE DEF T
<1>4. n \in T
  BY <1>1, <1>2, <1>3, SetInduction
<1>5. Upto(chosen, n)
  <2> HIDE DEF Upto
  <2> QED
    BY <1>4, Zenon DEF T
<1>6. Number(t) = chosen[n]
  BY Zenon DEF Number
<1> HIDE DEF chosen
<1>7. 0 \in 0..n /\ \A i \in 1..n : i \in 0..n /\ i # 0
  BY <1>1
<1>8. \A i \in 0..n : chosen[i] = IF i = 0 THEN 0 ELSE 10 * chosen[i - 1] + t[i] - 48
  BY <1>5, Zenon
<1> HIDE DEF Upto
<1>9. /\ chosen[0] = 0
      /\ \A i \in 1..n : chosen[i] = 10 * chosen[i - 1] + t[i] - 48
  BY <1>7, <1>8, Zenon
<1> QED
  BY <1>6, <1>9, Zenon DEF NumberRun

LEMMA NumberAppend ==
    ASSUME NEW S, NEW t \in Seq(S), NEW c \in S
    PROVE  Number(Append(t, c)) = 10 * Number(t) + c - 48
<1> DEFINE n == Len(t)
           u == Append(t, c)
<1>1. u \in Seq(S) /\ Len(u) = n + 1 /\ u[n + 1] = c /\ \A i \in 1..n : u[i] = t[i]
  BY AppendProperties
<1>2. n \in Nat
  OBVIOUS
<1>3. Len(u) \in Nat
  BY <1>1, <1>2
<1> HIDE DEF u
<1>4. PICK f : NumberRun(f, t) /\ Number(t) = f[n]
  BY <1>2, NumberIterates, Zenon DEF n
<1>5. PICK g : NumberRun(g, u) /\ Number(u) = g[Len(u)]
  BY <1>3, NumberIterates, Zenon
<1>6. f[0] = 0 /\ \A i \in 1..n : f[i] = 10 * f[i - 1] + t[i] - 48
  BY <1>4, Zenon DEF NumberRun, n
<1>7. g[0] = 0 /\ \A i \in 1..Len(u) : g[i] = 10 * g[i - 1] + u[i] - 48
  BY <1>5, Zenon DEF NumberRun
<1> HIDE DEF n
<1>8. \A i \in 1..n : i \in 1..(n + 1)
  BY <1>2
<1>9. \A i \in 1..n : f[i - 1] = g[i - 1] => f[i] = g[i]
  BY <1>1, <1>6, <1>7, <1>8, Zenon
<1>10. f[0] = g[0]
  BY <1>6, <1>7, Zenon
<1>11. f[n] = g[n]
  BY <1>2, <1>10, <1>9, LoopsAgree, Zenon
<1>12. n + 1 \in 1..(n + 1) /\ (n + 1) - 1 = n
  BY <1>2
<1>13. g[n + 1] = 10 * g[n] + c - 48
  <2>1. g[n + 1] = 10 * g[(n + 1) - 1] + u[n + 1] - 48
    BY <1>1, <1>7, <1>12, Zenon
  <2> QED
    BY <2>1, <1>1, <1>12
<1> QED
  BY <1>1, <1>4, <1>5, <1>11, <1>13, Zenon DEF u

LEMMA NumberEmpty == Number(<<>>) = 0
<1>1. Len(<<>>) \in Nat /\ Len(<<>>) = 0
  OBVIOUS
<1>2. PICK f : NumberRun(f, <<>>) /\ Number(<<>>) = f[Len(<<>>)]
  BY <1>1, NumberIterates, Zenon
<1> QED
  BY <1>1, <1>2, Zenon DEF NumberRun

------------------------------------------------------------------------------
(* What the decoder makes *)

LEMMA ToSetAppend ==
    ASSUME NEW S, NEW s \in Seq(S), NEW x \in S
    PROVE  ToSet(Append(s, x)) = ToSet(s) \cup {x}
<1> DEFINE t == Append(s, x)
           n == Len(s)
<1>1. Len(t) = n + 1 /\ t[n + 1] = x /\ \A i \in 1..n : t[i] = s[i]
  BY AppendProperties
<1>2. n \in Nat /\ DOMAIN s = 1..n /\ DOMAIN t = 1..(n + 1)
  BY <1>1
<1> HIDE DEF t, n
<1>3. 1..(n + 1) = 1..n \cup {n + 1}
  BY <1>2
<1> QED
  BY <1>1, <1>2, <1>3 DEF ToSet, t

LEMMA ToSetConcat ==
    ASSUME NEW S, NEW s \in Seq(S), NEW t \in Seq(S)
    PROVE  ToSet(s \o t) = ToSet(s) \cup ToSet(t)
<1> DEFINE T == {u \in Seq(S) : ToSet(s \o u) = ToSet(s) \cup ToSet(u)}
<1>1. <<>> \in T
  <2>1. s \o <<>> = s /\ <<>> \in Seq(S)
    BY ConcatEmptySeq
  <2>2. ToSet(<<>>) = {}
    BY DEF ToSet
  <2> QED
    BY <2>1, <2>2
<1>2. ASSUME NEW u \in Seq(S), NEW x \in S, u \in T PROVE Append(u, x) \in T
  <2>1. s \o Append(u, x) = Append(s \o u, x) /\ s \o u \in Seq(S) /\ Append(u, x) \in Seq(S)
    OBVIOUS
  <2>2. ToSet(s \o Append(u, x)) = ToSet(s \o u) \cup {x} /\ ToSet(Append(u, x)) = ToSet(u) \cup {x}
    <3>1. ASSUME NEW v \in Seq(S) PROVE ToSet(Append(v, x)) = ToSet(v) \cup {x}
      BY ToSetAppend
    <3> QED
      BY <2>1, <3>1
  <2>3. ToSet(s \o u) = ToSet(s) \cup ToSet(u)
    BY <1>2
  <2> HIDE DEF T
  <2>4. ToSet(s \o Append(u, x)) = ToSet(s) \cup ToSet(Append(u, x))
    BY <2>2, <2>3
  <2> QED
    BY <2>1, <2>4 DEF T
<1> HIDE DEF T
<1>3. t \in T
  BY <1>1, <1>2, AppendInduction
<1> QED
  BY <1>3 DEF T

\* A state of the decoder that has not failed.
Decoding(escape, out) == [ok |-> TRUE, escape |-> escape, out |-> out]

\* The character that is put out.
Lowered(c, tolower) == IF tolower THEN ToLower(c) ELSE c

LEMMA DecodeSteps ==
    ASSUME NEW s, s = Decoding(s.escape, s.out), NEW c, c \notin WhiteSpace, NEW tolower
    PROVE  /\ s.escape = <<>> /\ c = Percent => DecodeNext(s, c, tolower) = Decoding(<<c>>, s.out)
           /\ s.escape = <<>> /\ c # Percent =>
                DecodeNext(s, c, tolower) = Decoding(s.escape, Append(s.out, Lowered(c, tolower)))
           /\ s.escape # <<>> /\ c \notin HEXDIG => DecodeNext(s, c, tolower).ok = FALSE
           /\ s.escape # <<>> /\ Len(s.escape) = 1 /\ c \in HEXDIG =>
                DecodeNext(s, c, tolower) = Decoding(Append(s.escape, ToUpper(c)), s.out)
           /\ s.escape # <<>> /\ Len(s.escape) # 1 /\ c \in HEXDIG =>
                DecodeNext(s, c, tolower) =
                  Decoding(<<>>, s.out \o Unescape(Append(s.escape, ToUpper(c))))
<1> DEFINE escape == s.escape
           out == s.out
           low == Lowered(c, tolower)
           longer == Append(escape, ToUpper(c))
           kept == out \o Unescape(longer)
           added == Append(out, low)
           next == DecodeNext(s, c, tolower)
<1>1. s.ok = TRUE /\ s.escape = escape /\ s.out = out
  BY DEF Decoding
<1>2. s = Decoding(escape, out)
  OBVIOUS
<1>3. /\ s.escape = <<>> /\ c = Percent => next = [s EXCEPT !.escape = <<c>>]
      /\ s.escape = <<>> /\ c # Percent => next = [s EXCEPT !.out = Append(s.out, low)]
      /\ s.escape # <<>> /\ c \notin HEXDIG => next = [s EXCEPT !.ok = FALSE]
      /\ s.escape # <<>> /\ Len(s.escape) = 1 /\ c \in HEXDIG =>
           next = [s EXCEPT !.escape = Append(s.escape, ToUpper(c))]
      /\ s.escape # <<>> /\ Len(s.escape) # 1 /\ c \in HEXDIG =>
           next = [s EXCEPT !.escape = <<>>, !.out = s.out \o Unescape(Append(s.escape, ToUpper(c)))]
  <2>1. s.escape = <<>> => Len(s.escape) # 1
    OBVIOUS
  <2> QED
    BY <1>1, <2>1, Zenon DEF DecodeNext, Lowered
<1>4. /\ escape = <<>> /\ c = Percent => next = [s EXCEPT !.escape = <<c>>]
      /\ escape = <<>> /\ c # Percent => next = [s EXCEPT !.out = added]
      /\ escape # <<>> /\ c \notin HEXDIG => next = [s EXCEPT !.ok = FALSE]
      /\ escape # <<>> /\ Len(escape) = 1 /\ c \in HEXDIG => next = [s EXCEPT !.escape = longer]
      /\ escape # <<>> /\ Len(escape) # 1 /\ c \in HEXDIG =>
           next = [s EXCEPT !.escape = <<>>, !.out = kept]
  BY <1>1, <1>3, Zenon
<1> HIDE DEF next, low, longer, kept, added, escape, out
<1>5. ASSUME next = [s EXCEPT !.escape = <<c>>] PROVE next = Decoding(<<c>>, out)
  BY <1>5, <1>2 DEF Decoding
<1>6. ASSUME next = [s EXCEPT !.out = added] PROVE next = Decoding(escape, added)
  BY <1>6, <1>2 DEF Decoding
<1>7. ASSUME next = [s EXCEPT !.escape = longer] PROVE next = Decoding(longer, out)
  BY <1>7, <1>2 DEF Decoding
<1>8. ASSUME next = [s EXCEPT !.escape = <<>>, !.out = kept] PROVE next = Decoding(<<>>, kept)
  BY <1>8, <1>2 DEF Decoding
<1>9. [s EXCEPT !.ok = FALSE].ok = FALSE
  BY DEF Decoding
<1> QED
  BY <1>4, <1>5, <1>6, <1>7, <1>8, <1>9, Zenon DEF next, low, longer, kept, added, escape, out

LEMMA DecodeCharacter ==
    ASSUME NEW out, NEW c, c \notin WhiteSpace, c # Percent, NEW tolower
    PROVE  DecodeNext(Decoding(<<>>, out), c, tolower)
             = Decoding(<<>>, Append(out, Lowered(c, tolower)))
<1> DEFINE s == Decoding(<<>>, out)
           e == <<>>
<1>1. s.escape = e /\ s.out = out /\ s = Decoding(s.escape, s.out) /\ e = <<>>
  BY DEF Decoding
<1> HIDE DEF s, e
<1>2. DecodeNext(s, c, tolower) = Decoding(e, Append(out, Lowered(c, tolower)))
  BY <1>1, DecodeSteps, ZenonT(60)
<1> QED
  BY <1>1, <1>2

LEMMA DecodePercent ==
    ASSUME NEW out, NEW tolower
    PROVE  DecodeNext(Decoding(<<>>, out), Percent, tolower) = Decoding(<<Percent>>, out)
<1> DEFINE s == Decoding(<<>>, out)
           e == <<>>
           c == Percent
<1>1. /\ s.escape = e /\ s.out = out /\ s = Decoding(s.escape, s.out) /\ e = <<>>
      /\ c = Percent /\ c \notin WhiteSpace
  BY DEF Percent, WhiteSpace, Decoding
<1> HIDE DEF s, e, c
<1>2. DecodeNext(s, c, tolower) = Decoding(<<c>>, out)
  BY <1>1, DecodeSteps
<1> QED
  BY <1>1, <1>2

\* The digits of an escape, as the decoder keeps them.
UpperHex == DIGIT \cup (65..70)

LEMMA UpperHexFacts ==
    /\ \A c \in HEXDIG : ToUpper(c) \in UpperHex
    /\ \A x \in UpperHex : /\ x \in HEXDIG /\ x \in Chars /\ ToUpper(x) = x /\ x \notin WhiteSpace
                           /\ x \notin reserved /\ Nibble(x) \in 0..15
<1>1. \A c \in HEXDIG : ToUpper(c) \in UpperHex
  BY DEF HEXDIG, DIGIT, ToUpper, UpperHex
<1>2. \A x \in UpperHex : /\ x \in HEXDIG /\ x \in Chars /\ ToUpper(x) = x /\ x \notin WhiteSpace
                          /\ Nibble(x) \in 0..15
  BY DEF HEXDIG, DIGIT, ToUpper, UpperHex, Chars, WhiteSpace, Nibble
<1>3. \A x \in UpperHex : x \notin reserved
  BY DEF UpperHex, DIGIT, reserved, gen_delims, sub_delims, Hash, Slash, Colon, Question, At
<1> QED
  BY <1>1, <1>2, <1>3

LEMMA PercentFacts == Percent \in Chars /\ Percent \notin reserved /\ Percent \notin WhiteSpace
  BY DEF Percent, Chars, reserved, gen_delims, sub_delims, Hash, Slash, Colon, Question, At, WhiteSpace

\* An escape with its second digit, and a text with an escape.
LEMMA EscapeGrows ==
    ASSUME NEW x \in Chars, NEW y \in Chars
    PROVE  /\ Append(<<Percent>>, x) = <<Percent, x>> /\ Len(<<Percent>>) = 1 /\ <<Percent>> # <<>>
           /\ Append(<<Percent, x>>, y) = <<Percent, x, y>>
           /\ Len(<<Percent, x>>) # 1 /\ <<Percent, x>> # <<>>
           /\ <<Percent, x, y>> \in Seq(Chars)
           /\ \A out \in Seq(Chars) :
                out \o <<Percent, x, y>> = Append(Append(Append(out, Percent), x), y)
<1>1. Percent \in Chars
  BY PercentFacts
<1>2. ASSUME NEW a \in Nat, NEW b \in Nat, NEW c \in Nat
      PROVE  Append(<<a>>, b) = <<a, b>> /\ Append(<<a, b>>, c) = <<a, b, c>>
  <2> DEFINE s == Append(<<a>>, b)
             t == Append(<<a, b>>, c)
  <2>1. <<a>> \in Seq(Nat) /\ Len(<<a>>) = 1 /\ <<a>>[1] = a
    OBVIOUS
  <2>2. <<a, b>> \in Seq(Nat) /\ Len(<<a, b>>) = 2 /\ <<a, b>>[1] = a /\ <<a, b>>[2] = b
    OBVIOUS
  <2>3. /\ <<a, b, c>> \in Seq(Nat) /\ Len(<<a, b, c>>) = 3
        /\ <<a, b, c>>[1] = a /\ <<a, b, c>>[2] = b /\ <<a, b, c>>[3] = c
    OBVIOUS
  <2>4. s \in Seq(Nat) /\ Len(s) = 2 /\ s[1] = a /\ s[2] = b
    BY <2>1, AppendProperties
  <2>5. t \in Seq(Nat) /\ Len(t) = 3 /\ t[1] = a /\ t[2] = b /\ t[3] = c
    BY <2>2, AppendProperties
  <2> DEFINE p == <<a, b>>
             q == <<a, b, c>>
  <2> HIDE DEF s, t, p, q
  <2>6. \A i \in 1..2 : s[i] = p[i]
    BY <2>2, <2>4 DEF p
  <2>7. \A i \in 1..3 : t[i] = q[i]
    BY <2>3, <2>5 DEF q
  <2>8. p \in Seq(Nat) /\ q \in Seq(Nat) /\ Len(p) = 2 /\ Len(q) = 3
    BY <2>2, <2>3 DEF p, q
  <2>9. s = p
    BY <2>4, <2>6, <2>8, SeqEqual
  <2>10. t = q
    BY <2>5, <2>7, <2>8, SeqEqual
  <2> QED
    BY <2>9, <2>10, Zenon DEF s, t, p, q
<1>3. Append(<<Percent>>, x) = <<Percent, x>> /\ Append(<<Percent, x>>, y) = <<Percent, x, y>>
  <2>1. x \in Nat /\ y \in Nat /\ Percent \in Nat
    BY <1>1 DEF Chars
  <2> QED
    BY <1>2, <2>1, Zenon
<1>4. <<Percent, x, y>> \in Seq(Chars)
  BY <1>1
<1>5. ASSUME NEW out \in Seq(Chars)
      PROVE  out \o <<Percent, x, y>> = Append(Append(Append(out, Percent), x), y)
  <2> DEFINE e == <<Percent, x, y>>
             a == Append(out, Percent)
             b == Append(a, x)
             d == Append(b, y)
             n == Len(out)
  <2>1. e \in Seq(Chars) /\ Len(e) = 3 /\ e[1] = Percent /\ e[2] = x /\ e[3] = y
    BY <1>4
  <2>2. n \in Nat
    OBVIOUS
  <2>3. a \in Seq(Chars) /\ Len(a) = n + 1 /\ a[n + 1] = Percent /\ \A i \in 1..n : a[i] = out[i]
    BY <1>1, AppendProperties
  <2> HIDE DEF a
  <2>4. b \in Seq(Chars) /\ Len(b) = Len(a) + 1 /\ b[Len(a) + 1] = x /\ \A i \in 1..Len(a) : b[i] = a[i]
    BY <2>3, AppendProperties
  <2> HIDE DEF b
  <2>5. d \in Seq(Chars) /\ Len(d) = Len(b) + 1 /\ d[Len(b) + 1] = y /\ \A i \in 1..Len(b) : d[i] = b[i]
    BY <2>4, AppendProperties
  <2> HIDE DEF d, e
  <2>6. /\ out \o e \in Seq(Chars) /\ Len(out \o e) = n + Len(e)
        /\ \A i \in 1..(n + Len(e)) : (out \o e)[i] = IF i <= n THEN out[i] ELSE e[i - n]
    BY <2>1, ConcatProperties
  <2> HIDE DEF n
  <2>7. \A i \in 1..(n + 3) : i \in 1..n \/ i = n + 1 \/ i = n + 2 \/ i = n + 3
    BY <2>2
  <2>8. \A i \in 1..(n + 3) : (out \o e)[i] = d[i]
    <3> DEFINE w == out \o e
    <3>1. w[n + 1] = Percent /\ w[n + 2] = x /\ w[n + 3] = y /\ \A i \in 1..n : w[i] = out[i]
      <4>1. \A i \in 1..(n + 3) : w[i] = IF i <= n THEN out[i] ELSE e[i - n]
        BY <2>1, <2>6
      <4>2. e[1] = Percent /\ e[2] = x /\ e[3] = y
        BY <2>1
      <4> HIDE DEF w
      <4>3. w[n + 1] = Percent
        BY ONLY <2>2, <4>1, <4>2
      <4>4. w[n + 2] = x
        BY ONLY <2>2, <4>1, <4>2
      <4>5. w[n + 3] = y
        BY ONLY <2>2, <4>1, <4>2
      <4>6. \A i \in 1..n : w[i] = out[i]
        BY ONLY <2>2, <4>1
      <4> QED
        BY <4>3, <4>4, <4>5, <4>6
    <3>2. d[n + 1] = Percent /\ d[n + 2] = x /\ d[n + 3] = y /\ \A i \in 1..n : d[i] = out[i]
      BY <2>2, <2>3, <2>4, <2>5
    <3> QED
      BY <2>7, <3>1, <3>2
  <2>9. out \o e = d
    <3>1. Len(out \o e) = n + 3 /\ Len(d) = n + 3
      BY <2>1, <2>2, <2>3, <2>4, <2>5, <2>6
    <3> DEFINE w == out \o e
    <3>2. w \in Seq(Chars) /\ d \in Seq(Chars) /\ Len(w) = Len(d) /\ \A i \in 1..Len(w) : w[i] = d[i]
      BY <2>5, <2>6, <2>8, <3>1
    <3> HIDE DEF w
    <3> QED
      BY <3>2, SeqEqual DEF w
  <2> QED
    BY <2>9 DEF d, b, a, e
<1> QED
  BY <1>3, <1>4, <1>5

EndsWith(t, c) == t # <<>> /\ t[Len(t)] = c
DoubleSlash(t) == \E i \in 2..Len(t) : t[i] = Slash /\ t[i - 1] = Slash
NoSpace(t) == ToSet(t) \cap WhiteSpace = {}

LEMMA AppendFacts ==
    ASSUME NEW t \in Seq(Chars), NEW c \in Chars
    PROVE  /\ Append(t, c) \in Seq(Chars)
           /\ ToSet(Append(t, c)) = ToSet(t) \cup {c}
           /\ \A x : EndsWith(Append(t, c), x) <=> c = x
           /\ DoubleSlash(Append(t, c)) <=> DoubleSlash(t) \/ (c = Slash /\ EndsWith(t, Slash))
<1> DEFINE n == Len(t)
           u == Append(t, c)
<1>1. /\ u \in Seq(Chars) /\ u # <<>> /\ Len(u) = n + 1 /\ u[n + 1] = c
      /\ \A i \in 1..n : u[i] = t[i]
  BY AppendProperties
<1>2. ToSet(u) = ToSet(t) \cup {c}
  BY ToSetAppend
<1>3. n \in Nat /\ (t # <<>> <=> n # 0)
  BY EmptySeq
<1> HIDE DEF u
<1>4. \A x : EndsWith(u, x) <=> c = x
  BY <1>1 DEF EndsWith
<1> HIDE DEF n
<1>5. ASSUME DoubleSlash(u) PROVE DoubleSlash(t) \/ (c = Slash /\ EndsWith(t, Slash))
  <2>1. PICK i \in 2..(n + 1) : u[i] = Slash /\ u[i - 1] = Slash
    BY <1>1, <1>5 DEF DoubleSlash
  <2>2. CASE i = n + 1
    <3>1. i - 1 = n /\ n \in 1..n
      BY <1>3, <2>2
    <3> QED
      BY <1>1, <1>3, <2>1, <2>2, <3>1 DEF EndsWith, n
  <2>3. CASE i # n + 1
    <3>1. i \in 2..n /\ i \in 1..n /\ i - 1 \in 1..n
      BY <1>3, <2>3
    <3> QED
      BY <1>1, <2>1, <3>1 DEF DoubleSlash, n
  <2> QED
    BY <2>2, <2>3
<1>6. ASSUME DoubleSlash(t) PROVE DoubleSlash(u)
  <2>1. PICK i \in 2..n : t[i] = Slash /\ t[i - 1] = Slash
    BY <1>6 DEF DoubleSlash, n
  <2>2. i \in 2..(n + 1) /\ i \in 1..n /\ i - 1 \in 1..n
    BY <1>3
  <2> QED
    BY <1>1, <2>1, <2>2 DEF DoubleSlash
<1>7. ASSUME c = Slash, EndsWith(t, Slash) PROVE DoubleSlash(u)
  <2>1. n + 1 \in 2..(n + 1) /\ (n + 1) - 1 = n /\ n \in 1..n
    BY <1>3, <1>7 DEF EndsWith
  <2>2. u[n + 1] = Slash /\ u[(n + 1) - 1] = Slash
    BY <1>1, <1>7, <2>1 DEF EndsWith, n
  <2> QED
    BY <1>1, <2>1, <2>2 DEF DoubleSlash
<1> QED
  BY <1>1, <1>2, <1>4, <1>5, <1>6, <1>7 DEF u

\* What the decoder has put out of a text.
PutsOut(t, out, tolower) ==
    /\ out \in Seq(Chars)
    /\ ToSet(out) \cap reserved \subseteq ToSet(t)
    /\ ~tolower /\ NoSpace(out) => EndOfDecode(out, FALSE) = Decoding(<<>>, out)
    /\ NoSpace(t) /\ ~DoubleSlash(t) => ~DoubleSlash(out)

LEMMA PutsOutLess ==
    ASSUME NEW t \in Seq(Chars), NEW c \in Chars, NEW out, NEW tolower, PutsOut(t, out, tolower)
    PROVE  PutsOut(Append(t, c), out, tolower)
<1>1. ToSet(Append(t, c)) = ToSet(t) \cup {c} /\ (DoubleSlash(t) => DoubleSlash(Append(t, c)))
  BY AppendFacts
<1>2. NoSpace(Append(t, c)) => NoSpace(t)
  BY <1>1 DEF NoSpace
<1>3. ToSet(out) \cap reserved \subseteq ToSet(Append(t, c))
  BY <1>1 DEF PutsOut
<1> QED
  BY <1>1, <1>2, <1>3, Zenon DEF PutsOut

\* A character is put out, which may be a slash only if a slash was read.
LEMMA PutsOutCharacter ==
    ASSUME NEW t \in Seq(Chars), NEW c \in Chars, NEW out, NEW tolower, PutsOut(t, out, tolower),
           NEW x \in Chars, x # Percent, x \in reserved => x = c,
           x = Slash /\ NoSpace(t) /\ EndsWith(out, Slash) => EndsWith(t, Slash)
    PROVE  PutsOut(Append(t, c), Append(out, x), tolower)
<1> DEFINE u == Append(t, c)
           o == Append(out, x)
<1>1. out \in Seq(Chars)
  BY DEF PutsOut
<1>2. /\ u \in Seq(Chars) /\ ToSet(u) = ToSet(t) \cup {c}
      /\ DoubleSlash(u) <=> DoubleSlash(t) \/ (c = Slash /\ EndsWith(t, Slash))
  BY AppendFacts
<1>3. /\ o \in Seq(Chars) /\ ToSet(o) = ToSet(out) \cup {x}
      /\ DoubleSlash(o) <=> DoubleSlash(out) \/ (x = Slash /\ EndsWith(out, Slash))
  BY <1>1, AppendFacts
<1>4. ToSet(o) \cap reserved \subseteq ToSet(u)
  BY <1>2, <1>3 DEF PutsOut
<1>5. ASSUME ~tolower, NoSpace(o) PROVE EndOfDecode(o, FALSE) = Decoding(<<>>, o)
  <2>1. NoSpace(out) /\ x \notin WhiteSpace
    BY <1>3, <1>5 DEF NoSpace
  <2>2. EndOfDecode(out, FALSE) = Decoding(<<>>, out)
    BY <1>5, <2>1 DEF PutsOut
  <2>3. EndOfDecode(o, FALSE) = DecodeNext(EndOfDecode(out, FALSE), x, FALSE)
    BY <1>1, DecodeAppend, Zenon
  <2>4. DecodeNext(Decoding(<<>>, out), x, FALSE) = Decoding(<<>>, o)
    <3>1. DecodeNext(Decoding(<<>>, out), x, FALSE) = Decoding(<<>>, Append(out, Lowered(x, FALSE)))
      BY <2>1, DecodeCharacter, Zenon
    <3> QED
      BY <3>1 DEF Lowered
  <2> QED
    BY <2>2, <2>3, <2>4
<1>6. ASSUME NoSpace(u), ~DoubleSlash(u) PROVE ~DoubleSlash(o)
  <2>1. NoSpace(t)
    BY <1>2, <1>6 DEF NoSpace
  <2>2. Slash \in reserved
    BY DEF reserved, gen_delims
  <2> QED
    BY <1>2, <1>3, <1>6, <2>1, <2>2 DEF PutsOut
<1> HIDE DEF u, o
<1> QED
  BY <1>3, <1>4, <1>5, <1>6, Zenon DEF PutsOut, u, o

\* The digits of an escape, read one after the other.
LEMMA DecodeDigit ==
    ASSUME NEW out, NEW x \in HEXDIG, NEW tolower
    PROVE  DecodeNext(Decoding(<<Percent>>, out), x, tolower) = Decoding(<<Percent, ToUpper(x)>>, out)
<1> DEFINE s == Decoding(<<Percent>>, out)
           e == <<Percent>>
<1>1. s.escape = e /\ s.out = out /\ s = Decoding(s.escape, s.out) /\ x \notin WhiteSpace
  BY CharFacts DEF Decoding
<1>2. ToUpper(x) \in Chars
  BY UpperHexFacts
<1>3. e # <<>> /\ Len(e) = 1 /\ Append(e, ToUpper(x)) = <<Percent, ToUpper(x)>>
  BY <1>2, EscapeGrows, Zenon
<1> HIDE DEF s, e
<1>4. DecodeNext(s, x, tolower) = Decoding(Append(s.escape, ToUpper(x)), s.out)
  BY <1>1, <1>3, DecodeSteps
<1> QED
  BY <1>1, <1>3, <1>4, Zenon DEF s

LEMMA DecodeDigits ==
    ASSUME NEW out, NEW y \in UpperHex, NEW x \in HEXDIG, NEW tolower
    PROVE  DecodeNext(Decoding(<<Percent, y>>, out), x, tolower)
             = Decoding(<<>>, out \o Unescape(<<Percent, y, ToUpper(x)>>))
<1> DEFINE s == Decoding(<<Percent, y>>, out)
           e == <<Percent, y>>
<1>1. s.escape = e /\ s.out = out /\ s = Decoding(s.escape, s.out) /\ x \notin WhiteSpace
  BY CharFacts DEF Decoding
<1>2. ToUpper(x) \in Chars /\ y \in Chars
  BY UpperHexFacts
<1>3. e # <<>> /\ Len(e) # 1 /\ Append(e, ToUpper(x)) = <<Percent, y, ToUpper(x)>>
  BY <1>2, EscapeGrows, Zenon
<1> HIDE DEF s, e
<1>4. DecodeNext(s, x, tolower) = Decoding(<<>>, s.out \o Unescape(Append(s.escape, ToUpper(x))))
  BY <1>1, <1>3, DecodeSteps
<1> QED
  BY <1>1, <1>3, <1>4, Zenon DEF s

\* What an escape is decoded to.
LEMMA UnescapeFacts ==
    ASSUME NEW x \in UpperHex, NEW y \in UpperHex
    PROVE  \/ Unescape(<<Percent, x, y>>) = <<Percent, x, y>>
           \/ \E n \in Chars : n \notin reserved /\ n # Percent /\ Unescape(<<Percent, x, y>>) = <<n>>
<1> DEFINE e == <<Percent, x, y>>
           n == 16 * Nibble(x) + Nibble(y)
<1>1. e[2] = x /\ e[3] = y
  OBVIOUS
<1> HIDE DEF e
<1>2. Unescape(e) = IF n \in KeptEncoded THEN e ELSE <<n>>
  BY <1>1, Zenon DEF Unescape
<1>3. n \in Chars
  <2>1. Nibble(x) \in 0..15 /\ Nibble(y) \in 0..15
    BY UpperHexFacts
  <2> QED
    BY <2>1 DEF Chars
<1> HIDE DEF n
<1> QED
  BY <1>2, <1>3 DEF e, KeptEncoded

\* An escape that is kept is put out, and decodes to itself.
LEMMA PutsOutEscape ==
    ASSUME NEW t \in Seq(Chars), NEW out, NEW tolower, PutsOut(t, out, tolower),
           NEW x \in UpperHex, NEW y \in UpperHex, Unescape(<<Percent, x, y>>) = <<Percent, x, y>>
    PROVE  /\ PutsOut(t, out \o <<Percent, x, y>>, tolower)
           /\ ~EndsWith(out \o <<Percent, x, y>>, Slash)
<1> DEFINE a == Append(out, Percent)
           b == Append(a, x)
           d == Append(b, y)
<1>1. out \in Seq(Chars) /\ Percent \in Chars /\ x \in Chars /\ y \in Chars
  BY PercentFacts, UpperHexFacts DEF PutsOut
<1>2. out \o <<Percent, x, y>> = d
  BY <1>1, EscapeGrows
<1>3. Slash \notin {Percent, x, y}
  BY UpperHexFacts, PercentFacts DEF reserved, gen_delims
<1>4. a \in Seq(Chars) /\ ToSet(a) = ToSet(out) \cup {Percent} /\ (DoubleSlash(a) => DoubleSlash(out))
  BY <1>1, <1>3, AppendFacts
<1>5. b \in Seq(Chars) /\ ToSet(b) = ToSet(a) \cup {x} /\ (DoubleSlash(b) => DoubleSlash(a))
  <2> HIDE DEF a
  <2> QED
    BY <1>1, <1>3, <1>4, AppendFacts
<1>6. /\ d \in Seq(Chars) /\ ToSet(d) = ToSet(b) \cup {y} /\ (DoubleSlash(d) => DoubleSlash(b))
      /\ ~EndsWith(d, Slash)
  <2> HIDE DEF b
  <2> QED
    BY <1>1, <1>3, <1>5, AppendFacts
<1>7. ToSet(d) \cap reserved \subseteq ToSet(t)
  <2>1. {Percent, x, y} \cap reserved = {}
    BY UpperHexFacts, PercentFacts
  <2> HIDE DEF d, b, a
  <2> QED
    BY <1>4, <1>5, <1>6, <2>1 DEF PutsOut
<1>8. ASSUME ~tolower, NoSpace(d) PROVE EndOfDecode(d, FALSE) = Decoding(<<>>, d)
  <2>1. NoSpace(out)
    <3> HIDE DEF d, b, a
    <3> QED
      BY <1>4, <1>5, <1>6, <1>8 DEF NoSpace
  <2>2. EndOfDecode(out, FALSE) = Decoding(<<>>, out)
    BY <1>8, <2>1 DEF PutsOut
  <2>3. EndOfDecode(a, FALSE) = DecodeNext(EndOfDecode(out, FALSE), Percent, FALSE)
    BY <1>1, DecodeAppend, Zenon
  <2>4. EndOfDecode(b, FALSE) = DecodeNext(EndOfDecode(a, FALSE), x, FALSE)
    <3> HIDE DEF a
    <3> QED
      BY <1>1, <1>4, DecodeAppend, Zenon
  <2>5. EndOfDecode(d, FALSE) = DecodeNext(EndOfDecode(b, FALSE), y, FALSE)
    <3> HIDE DEF b
    <3> QED
      BY <1>1, <1>5, DecodeAppend, Zenon
  <2>6. EndOfDecode(a, FALSE) = Decoding(<<Percent>>, out)
    BY <2>2, <2>3, DecodePercent, Zenon
  <2>7. x \in HEXDIG /\ y \in HEXDIG /\ ToUpper(x) = x /\ ToUpper(y) = y
    BY UpperHexFacts
  <2>8. DecodeNext(Decoding(<<Percent>>, out), x, FALSE) = Decoding(<<Percent, ToUpper(x)>>, out)
    BY <2>7, DecodeDigit, Zenon
  <2>9. EndOfDecode(b, FALSE) = Decoding(<<Percent, x>>, out)
    BY <2>4, <2>6, <2>7, <2>8, Zenon
  <2>10. DecodeNext(Decoding(<<Percent, x>>, out), y, FALSE)
           = Decoding(<<>>, out \o Unescape(<<Percent, x, ToUpper(y)>>))
    BY <2>7, DecodeDigits, Zenon
  <2> HIDE DEF d
  <2>11. EndOfDecode(d, FALSE) = Decoding(<<>>, out \o <<Percent, x, y>>)
    BY <2>5, <2>7, <2>9, <2>10, Zenon
  <2> QED
    BY <1>2, <2>11, Zenon
<1> HIDE DEF d, b, a
<1>9. PutsOut(t, d, tolower)
  BY <1>4, <1>5, <1>6, <1>7, <1>8 DEF PutsOut
<1> QED
  BY <1>2, <1>6, <1>9, Zenon

\* Where the decoder is after a text: it has failed, or is between escapes, or in one.
Reaches(t, s, tolower) ==
    \/ s.ok = FALSE
    \/ \E out :
         /\ PutsOut(t, out, tolower)
         /\ \/ /\ s = Decoding(<<>>, out)
               /\ NoSpace(t) /\ EndsWith(out, Slash) => EndsWith(t, Slash)
            \/ s = Decoding(<<Percent>>, out)
            \/ \E x \in UpperHex : s = Decoding(<<Percent, x>>, out)

LEMMA ReachesNext ==
    ASSUME NEW t \in Seq(Chars), NEW c \in Chars, NEW s, NEW tolower, Reaches(t, s, tolower)
    PROVE  Reaches(Append(t, c), DecodeNext(s, c, tolower), tolower)
<1> DEFINE next == DecodeNext(s, c, tolower)
           u == Append(t, c)
<1>1. ASSUME NEW out, PutsOut(t, out, tolower)
      PROVE  PutsOut(u, out, tolower)
  BY <1>1, PutsOutLess, Zenon
<1>2. CASE s.ok = FALSE
  <2>1. next = s
    BY <1>2, Zenon DEF DecodeNext
  <2> QED
    BY <1>2, <2>1, Zenon DEF Reaches
<1>3. CASE c \in WhiteSpace
  <2>1. next = s
    BY <1>3, Zenon DEF DecodeNext
  <2>2. ~NoSpace(u)
    BY <1>3, AppendFacts DEF NoSpace
  <2> HIDE DEF next, u
  <2> QED
    BY <1>1, <2>1, <2>2, Zenon DEF Reaches, next, u
<1>4. ASSUME c \notin WhiteSpace, NEW out, PutsOut(t, out, tolower), s = Decoding(<<>>, out),
             NoSpace(t) /\ EndsWith(out, Slash) => EndsWith(t, Slash)
      PROVE  Reaches(u, next, tolower)
  <2>1. CASE c = Percent
    <3>1. next = Decoding(<<Percent>>, out)
      BY <1>4, <2>1, DecodePercent, Zenon
    <3> QED
      BY <1>1, <1>4, <3>1, Zenon DEF Reaches
  <2>2. CASE c # Percent
    <3> DEFINE low == Lowered(c, tolower)
               o == Append(out, low)
    <3>1. next = Decoding(<<>>, o)
      BY <1>4, <2>2, DecodeCharacter, Zenon
    <3>2. low \in Chars /\ low # Percent /\ (low \in reserved => low = c)
      BY <2>2 DEF Lowered, ToLower, Chars, Percent, reserved, gen_delims, sub_delims, Hash, Slash,
                  Colon, Question, At
    <3> HIDE DEF low
    <3>3. PutsOut(u, o, tolower)
      BY <1>4, <3>2, PutsOutCharacter, Zenon
    <3>4. EndsWith(o, Slash) => EndsWith(u, Slash)
      <4>1. out \in Seq(Chars) /\ Slash \in reserved
        BY <1>4 DEF PutsOut, reserved, gen_delims
      <4>2. (EndsWith(o, Slash) <=> low = Slash) /\ (EndsWith(u, Slash) <=> c = Slash)
        BY <3>2, <4>1, AppendFacts, Zenon
      <4> QED
        BY <3>2, <4>1, <4>2, Zenon
    <3> HIDE DEF next, o, u
    <3> QED
      BY <3>1, <3>3, <3>4, Zenon DEF Reaches
  <2> QED
    BY <2>1, <2>2
<1>5. ASSUME c \notin WhiteSpace, NEW out, PutsOut(t, out, tolower), s = Decoding(<<Percent>>, out)
      PROVE  Reaches(u, next, tolower)
  <2>1. CASE c \in HEXDIG
    <3>1. next = Decoding(<<Percent, ToUpper(c)>>, out) /\ ToUpper(c) \in UpperHex
      BY <1>5, <2>1, DecodeDigit, UpperHexFacts, Zenon
    <3> QED
      BY <1>1, <1>5, <3>1, Zenon DEF Reaches
  <2>2. CASE c \notin HEXDIG
    <3>1. next.ok = FALSE
      <4>1. s.escape = <<Percent>> /\ s.escape # <<>> /\ s = Decoding(s.escape, s.out)
        BY <1>5 DEF Decoding
      <4> QED
        BY <1>5, <2>2, <4>1, DecodeSteps, ZenonT(60)
    <3> QED
      BY <3>1, Zenon DEF Reaches
  <2> QED
    BY <2>1, <2>2
<1>6. ASSUME c \notin WhiteSpace, NEW out, PutsOut(t, out, tolower),
             NEW x \in UpperHex, s = Decoding(<<Percent, x>>, out)
      PROVE  Reaches(u, next, tolower)
  <2>1. CASE c \in HEXDIG
    <3> DEFINE y == ToUpper(c)
               kept == Unescape(<<Percent, x, y>>)
    <3>1. next = Decoding(<<>>, out \o kept) /\ y \in UpperHex
      <4>1. y \in UpperHex
        BY <2>1, UpperHexFacts, Zenon
      <4>2. DecodeNext(Decoding(<<Percent, x>>, out), c, tolower) = Decoding(<<>>, out \o kept)
        BY <2>1, DecodeDigits
      <4> QED
        BY <1>6, <4>1, <4>2, Zenon
    <3> HIDE DEF y
    <3>2. CASE kept = <<Percent, x, y>>
      <4> DEFINE o == out \o <<Percent, x, y>>
      <4>1. PutsOut(t, o, tolower) /\ ~EndsWith(o, Slash)
        BY <1>6, <3>1, <3>2, PutsOutEscape, Zenon
      <4> HIDE DEF o
      <4>2. PutsOut(u, o, tolower)
        BY <4>1, PutsOutLess, Zenon
      <4>3. next = Decoding(<<>>, o)
        BY <3>1, <3>2, Zenon DEF o
      <4> HIDE DEF next, u, kept
      <4> QED
        BY <4>1, <4>2, <4>3, Zenon DEF Reaches
    <3>3. CASE kept # <<Percent, x, y>>
      <4>1. PICK n \in Chars : n \notin reserved /\ n # Percent /\ kept = <<n>>
        BY <3>1, <3>3, UnescapeFacts, Zenon
      <4>2. out \in Seq(Chars) /\ out \o <<n>> = Append(out, n) /\ Slash \in reserved
        BY <1>6 DEF PutsOut, reserved, gen_delims
      <4> DEFINE o == Append(out, n)
      <4>3. ~EndsWith(o, Slash)
        BY <4>1, <4>2, AppendFacts, Zenon
      <4>4. PutsOut(u, o, tolower)
        <5>1. n # Slash
          BY <4>1, <4>2
        <5>2. PutsOut(Append(t, c), Append(out, n), tolower)
          BY <1>6, <4>1, <5>1, PutsOutCharacter, Zenon
        <5> QED
          BY <5>2
      <4>5. next = Decoding(<<>>, o)
        BY <3>1, <4>1, <4>2, Zenon
      <4> HIDE DEF next, u, o, kept
      <4> QED
        BY <4>3, <4>4, <4>5, Zenon DEF Reaches
    <3> QED
      BY <3>2, <3>3
  <2>2. CASE c \notin HEXDIG
    <3>1. next.ok = FALSE
      <4>1. s.escape = <<Percent, x>> /\ s.escape # <<>> /\ s = Decoding(s.escape, s.out)
        BY <1>6 DEF Decoding
      <4> QED
        BY <1>6, <2>2, <4>1, DecodeSteps, ZenonT(60)
    <3> QED
      BY <3>1, Zenon DEF Reaches
  <2> QED
    BY <2>1, <2>2
<1> HIDE DEF next, u
<1>7. \/ s.ok = FALSE
      \/ \E out :
           /\ PutsOut(t, out, tolower)
           /\ \/ /\ s = Decoding(<<>>, out)
                 /\ NoSpace(t) /\ EndsWith(out, Slash) => EndsWith(t, Slash)
              \/ s = Decoding(<<Percent>>, out)
              \/ \E x \in UpperHex : s = Decoding(<<Percent, x>>, out)
  BY Zenon DEF Reaches
<1> QED
  BY <1>2, <1>3, <1>4, <1>5, <1>6, <1>7, Zenon DEF next, u

LEMMA ReachesEnd ==
    ASSUME NEW t \in Seq(Chars), NEW tolower
    PROVE  Reaches(t, EndOfDecode(t, tolower), tolower)
<1> DEFINE T == {u \in Seq(Chars) : Reaches(u, EndOfDecode(u, tolower), tolower)}
<1>1. <<>> \in T
  <2>1. EndOfDecode(<<>>, tolower) = Decoding(<<>>, <<>>)
    BY DecodeEmpty DEF StartOfDecode, Decoding
  <2>2. EndOfDecode(<<>>, FALSE) = Decoding(<<>>, <<>>)
    BY DecodeEmpty DEF StartOfDecode, Decoding
  <2>3. ToSet(<<>>) = {} /\ ~DoubleSlash(<<>>) /\ ~EndsWith(<<>>, Slash) /\ <<>> \in Seq(Chars)
    BY DEF ToSet, DoubleSlash, EndsWith
  <2>4. PutsOut(<<>>, <<>>, tolower)
    BY <2>2, <2>3 DEF PutsOut
  <2> QED
    BY <2>1, <2>3, <2>4, Zenon DEF Reaches
<1>2. ASSUME NEW u \in Seq(Chars), NEW c \in Chars, u \in T PROVE Append(u, c) \in T
  <2>1. Append(u, c) \in Seq(Chars)
    BY AppendFacts
  <2>2. EndOfDecode(Append(u, c), tolower) = DecodeNext(EndOfDecode(u, tolower), c, tolower)
    BY DecodeAppend, Zenon
  <2>3. Reaches(u, EndOfDecode(u, tolower), tolower)
    BY <1>2
  <2>4. Reaches(Append(u, c), EndOfDecode(Append(u, c), tolower), tolower)
    BY <2>2, <2>3, ReachesNext, Zenon
  <2> QED
    BY <2>1, <2>4
<1> HIDE DEF T
<1>3. t \in T
  BY <1>1, <1>2, AppendInduction
<1> QED
  BY <1>3 DEF T

\* A decoding that succeeds, by the decoder's last state.
LEMMA DecodedWhen ==
    ASSUME NEW t, NEW tolower
    PROVE  LET end == EndOfDecode(t, tolower)
               d == PercentDecode(t, tolower)
           IN  /\ d.ok \in BOOLEAN /\ (d.ok <=> end.ok /\ end.escape = <<>>)
               /\ d.ok => d = [ok |-> TRUE, str |-> end.out] /\ d.str = end.out
<1> DEFINE end == EndOfDecode(t, tolower)
           d == PercentDecode(t, tolower)
<1>1. d = IF end.ok /\ end.escape = <<>> THEN [ok |-> TRUE, str |-> end.out] ELSE [ok |-> FALSE, str |-> t]
  BY Zenon DEF PercentDecode, Unescaped
<1> HIDE DEF end, d
<1>2. CASE end.ok /\ end.escape = <<>>
  <2>1. d = [ok |-> TRUE, str |-> end.out]
    BY <1>1, <1>2, Zenon
  <2>2. d.ok = TRUE /\ d.str = end.out
    BY <2>1
  <2> QED
    BY <1>2, <2>1, <2>2 DEF d, end
<1>3. CASE ~(end.ok /\ end.escape = <<>>)
  <2>1. d = [ok |-> FALSE, str |-> t]
    BY <1>1, <1>3, Zenon
  <2>2. d.ok = FALSE
    BY <2>1
  <2> QED
    BY <1>3, <2>2 DEF d, end
<1> QED
  BY <1>2, <1>3

\* What a text is decoded to has only the text's delimiters, decodes to itself
\* unless there is white space in it, and has two slashes only where the text has.
LEMMA DecodedText ==
    ASSUME NEW t \in Seq(Chars), NEW tolower, PercentDecode(t, tolower).ok
    PROVE  PutsOut(t, PercentDecode(t, tolower).str, tolower)
<1> DEFINE end == EndOfDecode(t, tolower)
<1>1. end.ok /\ end.escape = <<>> /\ PercentDecode(t, tolower).str = end.out
  BY DecodedWhen
<1>2. Reaches(t, end, tolower)
  BY ReachesEnd
<1> HIDE DEF end
<1>3. PICK out : PutsOut(t, out, tolower)
                 /\ \E escape : end = Decoding(escape, out)
  BY <1>1, <1>2, Zenon DEF Reaches
<1>4. end.out = out
  BY <1>3 DEF Decoding
<1> QED
  BY <1>1, <1>3, <1>4, Zenon

LEMMA ItselfWhen ==
    ASSUME NEW t, NEW tolower, EndOfDecode(t, tolower) = Decoding(<<>>, t)
    PROVE  DecodesToItself(t, tolower)
<1>1. EndOfDecode(t, tolower).ok = TRUE /\ EndOfDecode(t, tolower).escape = <<>> /\ EndOfDecode(t, tolower).out = t
  BY DEF Decoding
<1> QED
  BY <1>1, DecodedWhen, Zenon DEF DecodesToItself

\* A text that is decoded without lowering decodes to what decodes to itself.
LEMMA DecodedIsDecoded ==
    ASSUME NEW t \in Seq(Chars), PercentDecode(t, FALSE).ok, NoSpace(PercentDecode(t, FALSE).str)
    PROVE  DecodesToItself(PercentDecode(t, FALSE).str, FALSE)
<1> DEFINE d == PercentDecode(t, FALSE).str
           f == FALSE
<1> HIDE DEF d
<1>1. PutsOut(t, d, f)
  BY DecodedText DEF d
<1>2. EndOfDecode(d, FALSE) = Decoding(<<>>, d)
  BY <1>1 DEF PutsOut, d
<1> QED
  BY <1>2, ItselfWhen DEF d

\* The decoder's state with a slash before what it has put out.
Shift(s) == [ok |-> s.ok, escape |-> s.escape, out |-> <<Slash>> \o s.out]

LEMMA ShiftNext ==
    ASSUME NEW s \in DecodeStates, NEW c \in Chars, NEW tolower, tolower = FALSE
    PROVE  DecodeNext(Shift(s), c, tolower) = Shift(DecodeNext(s, c, tolower))
<1> DEFINE r == Shift(s)
           upper == ToUpper(c)
           e == s.escape
           longer == Append(e, upper)
           kept == Unescape(longer)
           next == DecodeNext(s, c, tolower)
           other == DecodeNext(r, c, tolower)
<1>1. /\ s.ok \in BOOLEAN /\ e \in Seq(Int) /\ s.out \in Seq(Int)
      /\ c \in Int /\ upper \in Int /\ Slash \in Int
  BY CharFacts DEF DecodeStates, Slash
<1>2. s = [ok |-> s.ok, escape |-> s.escape, out |-> s.out]
  BY DEF DecodeStates
<1>3. r.ok = s.ok /\ r.escape = e /\ r.out = <<Slash>> \o s.out
  BY DEF Shift
<1>4. \A x \in Int : <<Slash>> \o Append(s.out, x) = Append(<<Slash>> \o s.out, x)
  <2>1. TAKE x \in Int
  <2> DEFINE o == s.out
             a == <<Slash>>
  <2>2. o \in Seq(Int) /\ a \in Seq(Int) /\ <<x>> \in Seq(Int)
    BY <1>1
  <2> HIDE DEF o, a
  <2>3. Append(o, x) = o \o <<x>> /\ a \o o \in Seq(Int)
    BY <2>2, AppendIsConcat, ConcatProperties
  <2>4. Append(a \o o, x) = (a \o o) \o <<x>>
    BY <2>3, AppendIsConcat
  <2>5. (a \o o) \o <<x>> = a \o (o \o <<x>>)
    BY <2>2, ConcatAssociative, SMTT(60)
  <2> QED
    BY <2>3, <2>4, <2>5 DEF o, a
<1> HIDE DEF r, e, upper
<1>5. CASE ~s.ok \/ c \in WhiteSpace
  <2>1. ~r.ok \/ c \in WhiteSpace
    BY <1>3, <1>5
  <2>2. next = s /\ other = r
    BY <1>5, <2>1, Zenon DEF DecodeNext
  <2> QED
    BY <2>2 DEF r
<1>6. CASE s.ok /\ c \notin WhiteSpace
  <2>1. e = <<>> => Len(e) # 1
    OBVIOUS
  <2>2. r.ok /\ (e = <<>> => Len(e) # 1)
    BY <1>3, <1>6, <2>1, Zenon
  <2>3. CASE e = <<>> /\ c = Percent
    <3>1. next = [s EXCEPT !.escape = <<c>>] /\ other = [r EXCEPT !.escape = <<c>>]
      BY <1>3, <1>6, <2>2, <2>3, Zenon DEF DecodeNext, e
    <3> QED
      BY <1>2, <1>3, <3>1 DEF Shift, r
  <2>4. CASE e = <<>> /\ c # Percent
    <3>1. next = [s EXCEPT !.out = Append(s.out, c)] /\ other = [r EXCEPT !.out = Append(r.out, c)]
      BY <1>3, <1>6, <2>2, <2>4, Zenon DEF DecodeNext, e
    <3>2. <<Slash>> \o Append(s.out, c) = Append(r.out, c)
      BY <1>1, <1>3, <1>4
    <3> QED
      BY <1>2, <1>3, <3>1, <3>2 DEF Shift, r
  <2>5. CASE e # <<>> /\ c \notin HEXDIG
    <3>1. next = [s EXCEPT !.ok = FALSE] /\ other = [r EXCEPT !.ok = FALSE]
      BY <1>3, <1>6, <2>2, <2>5, Zenon DEF DecodeNext, e
    <3> QED
      BY <1>2, <1>3, <3>1 DEF Shift, r
  <2>6. CASE e # <<>> /\ c \in HEXDIG /\ Len(e) = 1
    <3>1. next = [s EXCEPT !.escape = longer] /\ other = [r EXCEPT !.escape = longer]
      BY <1>3, <1>6, <2>2, <2>6, Zenon DEF DecodeNext, e, upper
    <3> HIDE DEF longer
    <3> QED
      BY <1>2, <1>3, <3>1 DEF Shift, r
  <2>7. CASE e # <<>> /\ c \in HEXDIG /\ Len(e) # 1
    <3>1. /\ next = [s EXCEPT !.escape = <<>>, !.out = s.out \o kept]
          /\ other = [r EXCEPT !.escape = <<>>, !.out = r.out \o kept]
      BY <1>3, <1>6, <2>2, <2>7, Zenon DEF DecodeNext, e, upper
    <3>2. kept \in Seq(Int)
      <4>1. Len(e) \in Nat /\ Len(e) # 0
        BY <1>1, <2>7, EmptySeq
      <4>2. longer \in Seq(Int) /\ Len(longer) = Len(e) + 1
        BY <1>1, AppendProperties
      <4> HIDE DEF longer
      <4>3. Len(e) # 1
        BY <2>7
      <4>4. \A k \in Nat : k # 0 /\ k # 1 => k >= 2
        OBVIOUS
      <4>5. Len(e) >= 2
        BY <4>1, <4>3, <4>4, Zenon
      <4>6. 2 \in 1..Len(longer) /\ 3 \in 1..Len(longer)
        BY <4>1, <4>2, <4>5
      <4>7. longer[2] \in Int /\ longer[3] \in Int
        BY <4>2, <4>6, ElementOfSeq
      <4>8. 16 * Nibble(longer[2]) + Nibble(longer[3]) \in Int
        BY <4>7 DEF Nibble
      <4> QED
        BY <4>2, <4>8 DEF Unescape
    <3> HIDE DEF kept
    <3>3. <<Slash>> \o (s.out \o kept) = (<<Slash>> \o s.out) \o kept
      <4> DEFINE a == <<Slash>>
                 o == s.out
                 k == kept
      <4>1. a \in Seq(Int) /\ o \in Seq(Int) /\ k \in Seq(Int)
        BY <1>1, <3>2
      <4> HIDE DEF a, o, k
      <4>2. (a \o o) \o k = a \o (o \o k)
        BY <4>1, ConcatAssociative, SMTT(60)
      <4> QED
        BY <4>2 DEF a, o, k
    <3> QED
      BY <1>2, <1>3, <3>1, <3>3 DEF Shift, r
  <2> QED
    BY <2>3, <2>4, <2>5, <2>6, <2>7
<1> QED
  BY <1>1, <1>5, <1>6 DEF r

LEMMA ShiftDecodes ==
    ASSUME NEW t \in Seq(Chars)
    PROVE  /\ EndOfDecode(t, FALSE) \in DecodeStates
           /\ EndOfDecode(<<Slash>> \o t, FALSE) = Shift(EndOfDecode(t, FALSE))
<1> DEFINE f == FALSE
           T == {u \in Seq(Chars) : /\ EndOfDecode(u, f) \in DecodeStates
                                    /\ EndOfDecode(<<Slash>> \o u, f) = Shift(EndOfDecode(u, f))}
<1>1. Slash \in Chars /\ Slash # Percent /\ Slash \notin WhiteSpace /\ <<Slash>> \in Seq(Chars)
  BY DEF Slash, Percent, WhiteSpace, Chars
<1>2. <<>> \in T
  <2>1. EndOfDecode(<<>>, f) = StartOfDecode /\ StartOfDecode \in DecodeStates
    <3>1. StartOfDecode \in DecodeStates
      BY DEF StartOfDecode, DecodeStates
    <3> QED
      BY <3>1, DecodeEmpty
  <2>2. <<Slash>> = Append(<<>>, Slash) /\ <<Slash>> \o <<>> = <<Slash>> /\ <<>> \in Seq(Chars)
    BY <1>1, ConcatEmptySeq
  <2>3. EndOfDecode(Append(<<>>, Slash), f) = DecodeNext(EndOfDecode(<<>>, f), Slash, f)
    BY <1>1, <2>2, DecodeAppend, Zenon
  <2>4. DecodeNext(StartOfDecode, Slash, f) = Decoding(<<>>, Append(<<>>, Slash))
    <3>1. StartOfDecode = Decoding(<<>>, <<>>)
      BY DEF StartOfDecode, Decoding
    <3>2. DecodeNext(Decoding(<<>>, <<>>), Slash, f) = Decoding(<<>>, Append(<<>>, Lowered(Slash, f)))
      BY <1>1, DecodeCharacter, Zenon
    <3>3. Lowered(Slash, f) = Slash
      BY DEF Lowered
    <3> QED
      BY <3>1, <3>2, <3>3, Zenon
  <2>5. Shift(StartOfDecode) = Decoding(<<>>, <<Slash>>)
    BY <2>2 DEF Shift, StartOfDecode, Decoding
  <2> QED
    BY <2>1, <2>2, <2>3, <2>4, <2>5
<1>3. ASSUME NEW u \in Seq(Chars), NEW c \in Chars, u \in T PROVE Append(u, c) \in T
  <2>1. /\ Append(u, c) \in Seq(Chars) /\ <<Slash>> \o u \in Seq(Chars)
        /\ <<Slash>> \o Append(u, c) = Append(<<Slash>> \o u, c)
    BY <1>1
  <2>2. EndOfDecode(Append(u, c), f) = DecodeNext(EndOfDecode(u, f), c, f)
    BY DecodeAppend, Zenon
  <2>3. EndOfDecode(Append(<<Slash>> \o u, c), f) = DecodeNext(EndOfDecode(<<Slash>> \o u, f), c, f)
    BY <2>1, DecodeAppend, Zenon
  <2> DEFINE s == EndOfDecode(u, f)
  <2>4. s \in DecodeStates /\ EndOfDecode(<<Slash>> \o u, f) = Shift(s)
    BY <1>3
  <2>5. DecodeNext(s, c, f) \in DecodeStates /\ DecodeNext(Shift(s), c, f) = Shift(DecodeNext(s, c, f))
    BY <2>4, DecodeNextType, ShiftNext
  <2> HIDE DEF f
  <2> QED
    BY <2>1, <2>2, <2>3, <2>4, <2>5
<1> HIDE DEF T
<1>4. t \in T
  BY <1>2, <1>3, AppendInduction
<1> QED
  BY <1>4 DEF T

\* A slash before a text stays before what the text is decoded to.
LEMMA SlashDecodes ==
    ASSUME NEW t \in Seq(Chars)
    PROVE  /\ PercentDecode(<<Slash>> \o t, FALSE).ok <=> PercentDecode(t, FALSE).ok
           /\ PercentDecode(t, FALSE).ok =>
                PercentDecode(<<Slash>> \o t, FALSE).str = <<Slash>> \o PercentDecode(t, FALSE).str
<1> DEFINE s == EndOfDecode(t, FALSE)
           r == EndOfDecode(<<Slash>> \o t, FALSE)
<1>1. r = Shift(s)
  BY ShiftDecodes
<1>2. /\ PercentDecode(t, FALSE).ok <=> s.ok /\ s.escape = <<>>
      /\ PercentDecode(t, FALSE).ok => PercentDecode(t, FALSE).str = s.out
  BY DecodedWhen, Zenon
<1>3. /\ PercentDecode(<<Slash>> \o t, FALSE).ok <=> r.ok /\ r.escape = <<>>
      /\ PercentDecode(<<Slash>> \o t, FALSE).ok => PercentDecode(<<Slash>> \o t, FALSE).str = r.out
  BY DecodedWhen, Zenon
<1> HIDE DEF s, r
<1>4. r.ok = s.ok /\ r.escape = s.escape /\ r.out = <<Slash>> \o s.out
  BY <1>1 DEF Shift
<1> QED
  BY <1>2, <1>3, <1>4, Zenon

------------------------------------------------------------------------------
(* What the normalization makes *)

WalkStates == [dir : Seq(Nat \ {0}), out : Seq(Chars), dots : Nat, defined : BOOLEAN]

\* A text with dots after it.
Dotted(out, dots) == out \o [i \in 1..dots |-> Dot]

LEMMA DottedFacts ==
    ASSUME NEW out \in Seq(Chars), NEW dots \in Nat
    PROVE  /\ Dotted(out, dots) \in Seq(Chars)
           /\ Len(Dotted(out, dots)) = Len(out) + dots
           /\ \A i \in 1..Len(out) : Dotted(out, dots)[i] = out[i]
           /\ \A i \in (Len(out) + 1)..(Len(out) + dots) : Dotted(out, dots)[i] = Dot
           /\ Dotted(out, 0) = out
           /\ Dotted(out, dots + 1) = Append(Dotted(out, dots), Dot)
<1> DEFINE n == Len(out)
           D(k) == [i \in 1..k |-> Dot]
<1>1. Dot \in Chars /\ n \in Nat
  BY DEF Dot, Chars
<1>2. ASSUME NEW k \in Nat
      PROVE  /\ Dotted(out, k) \in Seq(Chars) /\ Len(Dotted(out, k)) = n + k
             /\ \A i \in 1..n : Dotted(out, k)[i] = out[i]
             /\ \A i \in (n + 1)..(n + k) : Dotted(out, k)[i] = Dot
  <2> DEFINE d == D(k)
  <2>1. d \in Seq(Chars) /\ Len(d) = k /\ \A i \in 1..k : d[i] = Dot
    BY <1>1
  <2> HIDE DEF d
  <2>2. /\ out \o d \in Seq(Chars) /\ Len(out \o d) = n + k
        /\ \A i \in 1..(n + k) : (out \o d)[i] = IF i <= n THEN out[i] ELSE d[i - n]
    BY <2>1, ConcatProperties
  <2> DEFINE w == out \o d
  <2> HIDE DEF w, n
  <2>3. \A i \in 1..n : w[i] = out[i]
    BY <1>1, <2>2 DEF w, n
  <2>4. \A i \in (n + 1)..(n + k) : w[i] = Dot
    BY <1>1, <2>1, <2>2 DEF w, n
  <2> QED
    BY <2>2, <2>3, <2>4, Zenon DEF w, d, Dotted, n
<1>3. Dotted(out, 0) = out
  <2> DEFINE w == Dotted(out, 0)
  <2>1. w \in Seq(Chars) /\ Len(w) = n + 0 /\ \A i \in 1..n : w[i] = out[i]
    BY <1>2
  <2> HIDE DEF w
  <2>2. Len(w) = Len(out) /\ \A i \in 1..Len(w) : w[i] = out[i]
    BY <1>1, <2>1
  <2>3. w = out
    BY <2>1, <2>2, SeqEqual
  <2> QED
    BY <2>3 DEF w
<1>4. Dotted(out, dots + 1) = Append(Dotted(out, dots), Dot)
  <2> DEFINE w == Dotted(out, dots + 1)
             v == Dotted(out, dots)
             x == Append(v, Dot)
  <2>1. /\ w \in Seq(Chars) /\ Len(w) = n + (dots + 1)
        /\ \A i \in 1..n : w[i] = out[i]
        /\ \A i \in (n + 1)..(n + (dots + 1)) : w[i] = Dot
    <3>1. dots + 1 \in Nat
      OBVIOUS
    <3> QED
      BY <1>2, <3>1, Zenon
  <2>2. /\ v \in Seq(Chars) /\ Len(v) = n + dots
        /\ \A i \in 1..n : v[i] = out[i]
        /\ \A i \in (n + 1)..(n + dots) : v[i] = Dot
    BY <1>2
  <2> HIDE DEF w, v
  <2>3. /\ x \in Seq(Chars) /\ Len(x) = Len(v) + 1 /\ x[Len(v) + 1] = Dot
        /\ \A i \in 1..Len(v) : x[i] = v[i]
    BY <1>1, <2>2, AppendProperties
  <2> HIDE DEF x, n
  <2>4. Len(x) = Len(w)
    BY <1>1, <2>1, <2>2, <2>3
  <2>5. ASSUME NEW i \in 1..Len(w) PROVE x[i] = w[i]
    <3>1. i \in 1..n \/ i \in (n + 1)..(n + dots) \/ i = n + dots + 1
      BY <1>1, <2>1
    <3>2. CASE i \in 1..n
      BY <1>1, <2>1, <2>2, <2>3, <3>2
    <3>3. CASE i \in (n + 1)..(n + dots)
      BY <1>1, <2>1, <2>2, <2>3, <3>3
    <3>4. CASE i = n + dots + 1
      BY <1>1, <2>1, <2>2, <2>3, <3>4
    <3> QED
      BY <3>1, <3>2, <3>3, <3>4
  <2>6. x = w
    BY <2>1, <2>3, <2>4, <2>5, SeqEqual
  <2> QED
    BY <2>6 DEF x, v, w
<1> QED
  BY <1>2, <1>3, <1>4

\* The character that the normalization reads, case by case.
LEMMA WalkNext ==
    ASSUME NEW s \in WalkStates, NEW c \in Chars
    PROVE  LET next == NormalizeNext(s, c)
           IN  /\ next \in WalkStates
               /\ c = Dot => next.out = s.out /\ next.dots = s.dots + 1
               /\ c # Dot => next.dots = 0
               /\ c \notin {Dot, Slash} => next.out = Append(Dotted(s.out, s.dots), c)
               /\ c = Slash /\ s.dots = 0 => next.out = Append(s.out, Slash)
               /\ c = Slash /\ s.dots # 0 =>
                    \/ next.out = s.out
                    \/ next.out = Dotted(s.out, s.dots)
                    \/ next.out = <<>> /\ (s.out = <<>> \/ s.out[1] # Slash)
                    \/ next.out = <<Slash>>
                    \/ \E k \in 1..Len(s.out) : next.out = SubSeq(s.out, 1, k)
<1> DEFINE next == NormalizeNext(s, c)
           dir == s.dir
           out == s.out
           dots == s.dots
           longer == Append(out, c)
           deeper == Append(dir, Len(out) + 1)
           whole == Dotted(out, dots)
           last == Append(whole, c)
           up == UpOneDirectory(s)
<1>1. /\ dir \in Seq(Nat \ {0}) /\ out \in Seq(Chars) /\ dots \in Nat /\ s.defined \in BOOLEAN
      /\ Slash # Dot /\ Slash \in Chars
  BY DEF WalkStates, Slash, Dot, Chars
<1>2. whole \in Seq(Chars) /\ WithDots(s) = whole
  <2>1. whole \in Seq(Chars)
    BY <1>1, DottedFacts
  <2> QED
    BY <2>1 DEF WithDots, Dotted
<1>3. last \in Seq(Chars) /\ longer \in Seq(Chars) /\ deeper \in Seq(Nat \ {0})
  <2>1. Len(out) + 1 \in Nat \ {0}
    BY <1>1
  <2> HIDE DEF whole
  <2> QED
    BY <1>1, <1>2, <2>1, AppendProperties
<1> HIDE DEF whole, next, last, longer, deeper
<1>4. \/ c = Dot /\ next = [s EXCEPT !.dots = dots + 1]
      \/ c = Slash /\ dots = 0 /\ next = [s EXCEPT !.out = longer, !.dir = deeper]
      \/ c = Slash /\ dots = 1 /\ next = [s EXCEPT !.dots = 0]
      \/ c = Slash /\ dots = 2 /\ next = [up EXCEPT !.dots = 0]
      \/ c = Slash /\ dots \notin {0, 1, 2} /\ next = [s EXCEPT !.out = whole, !.dots = 0]
      \/ c \notin {Dot, Slash} /\ next = [s EXCEPT !.out = last, !.dots = 0]
  <2>1. c = Slash => dots = 0 \/ dots = 1 \/ dots = 2 \/ dots > 2
    BY <1>1
  <2>2. dots > 2 => dots \notin {0, 1, 2}
    BY <1>1
  <2>3. /\ dots = 0 => dots # 1 /\ dots # 2 /\ ~(dots > 2)
        /\ dots = 1 => dots # 0 /\ dots # 2 /\ ~(dots > 2)
        /\ dots = 2 => dots # 0 /\ dots # 1 /\ ~(dots > 2)
    OBVIOUS
  <2>4. CASE c = Dot
    BY <1>1, <2>4, Zenon DEF NormalizeNext, next
  <2>5. CASE c = Slash /\ dots = 0
    BY <1>1, <2>3, <2>5, Zenon DEF NormalizeNext, next, longer, deeper
  <2>6. CASE c = Slash /\ dots = 1
    BY <1>1, <2>3, <2>6, Zenon DEF NormalizeNext, next
  <2>7. CASE c = Slash /\ dots = 2
    BY <1>1, <2>3, <2>7, Zenon DEF NormalizeNext, next
  <2>8. CASE c = Slash /\ dots > 2
    <3>1. next = [s EXCEPT !.out = WithDots(s), !.dots = 0]
      BY <1>1, <2>2, <2>8, Zenon DEF NormalizeNext, next
    <3> QED
      BY <1>2, <2>2, <2>8, <3>1
  <2>9. CASE c # Slash /\ c # Dot
    <3>1. next = [s EXCEPT !.out = Append(WithDots(s), c), !.dots = 0]
      BY <2>9, Zenon DEF NormalizeNext, next
    <3> QED
      BY <1>2, <2>9, <3>1 DEF last
  <2> QED
    BY <2>1, <2>4, <2>5, <2>6, <2>7, <2>8, <2>9
<1>5. CASE c = Dot /\ next = [s EXCEPT !.dots = dots + 1]
  BY <1>1, <1>5 DEF WalkStates, next
<1>6. CASE c = Slash /\ dots = 0 /\ next = [s EXCEPT !.out = longer, !.dir = deeper]
  <2>1. next \in WalkStates /\ next.out = longer /\ next.dots = 0
    BY <1>1, <1>3, <1>6 DEF WalkStates
  <2> QED
    BY <1>1, <1>6, <2>1 DEF longer, next
<1>7. CASE c = Slash /\ dots = 1 /\ next = [s EXCEPT !.dots = 0]
  <2>1. next \in WalkStates /\ next.out = out /\ next.dots = 0
    BY <1>1, <1>7 DEF WalkStates
  <2> QED
    BY <1>1, <1>7, <2>1 DEF next
<1>8. CASE c = Slash /\ dots = 2 /\ next = [up EXCEPT !.dots = 0]
  <2> DEFINE to == dir[Len(dir) - 1]
             front == Front(dir)
             cut == SubSeq(out, 1, to)
  <2>1. Len(dir) \in Nat /\ Len(out) \in Nat /\ (Len(dir) <= 1 <=> ~(Len(dir) > 1))
    BY <1>1
  <2>2. ASSUME Len(dir) > 1 PROVE to \in Nat \ {0} /\ (to <= Len(out) <=> ~(to > Len(out)))
    <3>1. Len(dir) - 1 \in 1..Len(dir)
      BY <2>1, <2>2
    <3>2. to \in Nat \ {0}
      BY <1>1, <3>1, ElementOfSeq
    <3> HIDE DEF to
    <3> QED
      BY <2>1, <3>2
  <2>3. CASE Len(dir) > 1 /\ to <= Len(out)
    <3>1. up = [s EXCEPT !.dir = front, !.out = cut]
      BY <2>3, <2>1, <2>2, Zenon DEF UpOneDirectory
    <3>2. front \in Seq(Nat \ {0})
      BY <1>1, <2>3 DEF Front
    <3>3. to \in Nat \ {0}
      BY <2>3, <2>2
    <3> HIDE DEF to
    <3>4. to \in 1..Len(out)
      BY <1>1, <2>3, <3>3
    <3>5. cut \in Seq(Chars)
      BY <1>1, <3>4
    <3> HIDE DEF front
    <3>6. next \in WalkStates /\ next.out = cut /\ next.dots = 0
      <4> HIDE DEF cut
      <4>1. up \in WalkStates /\ up.out = cut
        BY <1>1, <3>1, <3>2, <3>5 DEF WalkStates
      <4> HIDE DEF up
      <4> QED
        BY <1>8, <4>1 DEF WalkStates
    <3> QED
      BY <1>1, <1>8, <3>4, <3>6 DEF next
  <2>4. CASE ~(Len(dir) > 1 /\ to <= Len(out))
    <3>1. \/ up = [s EXCEPT !.dir = front, !.defined = FALSE] /\ Len(dir) > 1
          \/ up = [s EXCEPT !.out = <<Slash>>]
          \/ up = [s EXCEPT !.out = <<>>] /\ ~(Len(dir) <= 1 /\ out # <<>> /\ Head(out) = Slash)
             /\ ~(Len(dir) > 1 /\ to > Len(out))
      BY <2>4, <2>1, <2>2, Zenon DEF UpOneDirectory
    <3>2. CASE up = [s EXCEPT !.dir = front, !.defined = FALSE] /\ Len(dir) > 1
      <4>1. front \in Seq(Nat \ {0})
        BY <1>1, <3>2 DEF Front
      <4> HIDE DEF front
      <4>2. up \in WalkStates /\ up.out = out
        BY <1>1, <3>2, <4>1 DEF WalkStates
      <4> HIDE DEF up
      <4>3. next \in WalkStates /\ next.out = out /\ next.dots = 0
        BY <1>8, <4>2 DEF WalkStates
      <4> QED
        BY <1>1, <1>8, <4>3 DEF next
    <3>3. CASE up = [s EXCEPT !.out = <<Slash>>]
      <4> DEFINE o == <<Slash>>
      <4>1. o \in Seq(Chars)
        BY <1>1
      <4> HIDE DEF o
      <4>2. up \in WalkStates /\ up.out = o
        BY <1>1, <3>3, <4>1 DEF WalkStates, o
      <4> HIDE DEF up
      <4>3. next \in WalkStates /\ next.out = o /\ next.dots = 0
        BY <1>8, <4>2 DEF WalkStates
      <4> QED
        BY <1>1, <1>8, <4>3 DEF next, o
    <3>4. CASE up = [s EXCEPT !.out = <<>>] /\ ~(Len(dir) <= 1 /\ out # <<>> /\ Head(out) = Slash)
               /\ ~(Len(dir) > 1 /\ to > Len(out))
      <4> DEFINE o == <<>>
      <4>1. o \in Seq(Chars)
        OBVIOUS
      <4> HIDE DEF o
      <4>2. up \in WalkStates /\ up.out = o
        BY <1>1, <3>4, <4>1 DEF WalkStates, o
      <4>3. out = <<>> \/ out[1] # Slash
        <5>1. Len(dir) <= 1
          BY <2>4, <2>1, <2>2, <3>4, Zenon
        <5> QED
          BY <1>1, <3>4, <5>1
      <4> HIDE DEF up
      <4>4. next \in WalkStates /\ next.out = o /\ next.dots = 0
        BY <1>8, <4>2 DEF WalkStates
      <4> QED
        BY <1>1, <1>8, <4>3, <4>4 DEF next, o
    <3> QED
      BY <3>1, <3>2, <3>3, <3>4
  <2> QED
    BY <2>3, <2>4
<1>9. CASE c = Slash /\ dots \notin {0, 1, 2} /\ next = [s EXCEPT !.out = whole, !.dots = 0]
  <2>1. next \in WalkStates /\ next.out = whole /\ next.dots = 0
    BY <1>1, <1>2, <1>9 DEF WalkStates
  <2> QED
    BY <1>1, <1>9, <2>1 DEF next, whole
<1>10. CASE c \notin {Dot, Slash} /\ next = [s EXCEPT !.out = last, !.dots = 0]
  <2>1. next \in WalkStates /\ next.out = last /\ next.dots = 0
    BY <1>1, <1>3, <1>10 DEF WalkStates
  <2> QED
    BY <1>1, <1>10, <2>1 DEF next, last, whole
<1> QED
  BY <1>4, <1>5, <1>6, <1>7, <1>8, <1>9, <1>10

\* What a path is normalized to: a slash stands first, or after a character
\* that is neither a dot nor a slash.
WellPlaced(t) == \A i \in 2..Len(t) : t[i] = Slash => t[i - 1] \notin {Dot, Slash}

LEMMA WellPlacedFacts ==
    ASSUME NEW t \in Seq(Chars)
    PROVE  /\ \A c \in Chars : /\ WellPlaced(Append(t, c)) => WellPlaced(t)
                               /\ WellPlaced(t) /\ c # Slash => WellPlaced(Append(t, c))
                               /\ c = Slash /\ t # <<>> =>
                                    (WellPlaced(Append(t, c)) <=>
                                      WellPlaced(t) /\ t[Len(t)] \notin {Dot, Slash})
           /\ \A k \in 1..Len(t) : WellPlaced(t) => WellPlaced(SubSeq(t, 1, k))
           /\ \A dots \in Nat : WellPlaced(t) => WellPlaced(Dotted(t, dots))
<1> DEFINE n == Len(t)
<1>1. n \in Nat /\ (t # <<>> => n # 0) /\ Dot # Slash
  BY EmptySeq DEF Dot, Slash
<1>2. ASSUME NEW c \in Chars
      PROVE  /\ WellPlaced(Append(t, c)) => WellPlaced(t)
             /\ WellPlaced(t) /\ c # Slash => WellPlaced(Append(t, c))
             /\ c = Slash /\ t # <<>> =>
                  (WellPlaced(Append(t, c)) <=> WellPlaced(t) /\ t[n] \notin {Dot, Slash})
  <2> DEFINE u == Append(t, c)
  <2>1. Len(u) = n + 1 /\ u[n + 1] = c /\ \A i \in 1..n : u[i] = t[i]
    BY AppendProperties
  <2> HIDE DEF u
  <2>2. \A i \in 2..n : i \in 2..(n + 1) /\ u[i] = t[i] /\ u[i - 1] = t[i - 1]
    <3>1. \A i \in 2..n : i \in 2..(n + 1) /\ i \in 1..n /\ i - 1 \in 1..n
      BY <1>1
    <3> QED
      BY <2>1, <3>1
  <2>3. \A i \in 2..(n + 1) : i \in 2..n \/ i = n + 1
    BY <1>1
  <2>4. t # <<>> => n + 1 \in 2..(n + 1) /\ (n + 1) - 1 = n /\ u[n] = t[n]
    <3>1. t # <<>> => n + 1 \in 2..(n + 1) /\ (n + 1) - 1 = n /\ n \in 1..n
      BY <1>1
    <3> QED
      BY <2>1, <3>1
  <2>5. /\ WellPlaced(t) <=> \A i \in 2..n : t[i] = Slash => t[i - 1] \notin {Dot, Slash}
        /\ WellPlaced(u) <=> \A i \in 2..(n + 1) : u[i] = Slash => u[i - 1] \notin {Dot, Slash}
    BY <2>1 DEF WellPlaced
  <2> HIDE DEF n
  <2>6. WellPlaced(u) => WellPlaced(t)
    BY <2>2, <2>5
  <2>7. WellPlaced(t) /\ c # Slash => WellPlaced(u)
    BY <2>1, <2>2, <2>3, <2>5
  <2>8. ASSUME c = Slash, t # <<>> PROVE WellPlaced(u) => t[n] \notin {Dot, Slash}
    BY <2>1, <2>4, <2>5, <2>8
  <2>9. ASSUME c = Slash, t # <<>>, WellPlaced(t), t[n] \notin {Dot, Slash} PROVE WellPlaced(u)
    BY <2>1, <2>2, <2>3, <2>4, <2>5, <2>9
  <2> QED
    BY <2>6, <2>7, <2>8, <2>9 DEF u
<1>3. ASSUME NEW k \in 1..n, WellPlaced(t) PROVE WellPlaced(SubSeq(t, 1, k))
  <2> DEFINE u == SubSeq(t, 1, k)
  <2>1. Len(u) = k /\ \A i \in 1..k : u[i] = t[i]
    OBVIOUS
  <2> HIDE DEF u
  <2>2. \A i \in 2..k : i \in 2..n /\ i \in 1..k /\ i - 1 \in 1..k
    BY <1>1
  <2> QED
    BY <1>3, <2>1, <2>2 DEF WellPlaced, u
<1>4. ASSUME NEW dots \in Nat, WellPlaced(t) PROVE WellPlaced(Dotted(t, dots))
  <2> DEFINE u == Dotted(t, dots)
  <2>1. /\ Len(u) = n + dots /\ \A i \in 1..n : u[i] = t[i]
        /\ \A i \in (n + 1)..(n + dots) : u[i] = Dot
    BY DottedFacts
  <2> HIDE DEF u
  <2>2. \A i \in 2..(n + dots) : i \in (n + 1)..(n + dots) \/ (i \in 2..n /\ i \in 1..n /\ i - 1 \in 1..n)
    BY <1>1
  <2>3. ASSUME NEW i \in 2..(n + dots), u[i] = Slash PROVE u[i - 1] \notin {Dot, Slash}
    <3>1. i \in 2..n /\ i \in 1..n /\ i - 1 \in 1..n
      BY <1>1, <2>1, <2>2, <2>3
    <3> QED
      BY <1>4, <2>1, <2>3, <3>1 DEF WellPlaced
  <2> QED
    BY <2>1, <2>3 DEF WellPlaced, u
<1> QED
  BY <1>2, <1>3, <1>4

\* The walk over a path without two slashes together.
Walking(t, s) ==
    /\ s \in WalkStates
    /\ WellPlaced(s.out)
    /\ t = <<>> => s.out = <<>> /\ s.dots = 0
    /\ t # <<>> /\ t[1] = Slash => s.out # <<>> /\ s.out[1] = Slash
    /\ EndsWith(t, Dot) => s.dots # 0
    /\ t # <<>> /\ t[Len(t)] \notin {Dot, Slash} =>
         s.dots = 0 /\ s.out # <<>> /\ s.out[Len(s.out)] \notin {Dot, Slash}

LEMMA WalkingNext ==
    ASSUME NEW t \in Seq(Chars), NEW c \in Chars, ~DoubleSlash(Append(t, c)), NEW s, Walking(t, s)
    PROVE  Walking(Append(t, c), NormalizeNext(s, c))
<1> DEFINE next == NormalizeNext(s, c)
           u == Append(t, c)
           n == Len(t)
           out == s.out
           dots == s.dots
           o == next.out
<1>1. s \in WalkStates /\ out \in Seq(Chars) /\ dots \in Nat /\ WellPlaced(out)
  BY DEF Walking, WalkStates
<1>2. /\ u \in Seq(Chars) /\ u # <<>> /\ Len(u) = n + 1 /\ u[Len(u)] = c
      /\ (\A x : EndsWith(u, x) <=> c = x)
      /\ t = <<>> => u[1] = c
      /\ t # <<>> => u[1] = t[1]
  <2>1. u \in Seq(Chars) /\ u # <<>> /\ Len(u) = n + 1 /\ u[n + 1] = c /\ \A i \in 1..n : u[i] = t[i]
    BY AppendProperties
  <2>2. n \in Nat /\ (t = <<>> => n = 0) /\ (t # <<>> => 1 \in 1..n)
    BY EmptySeq
  <2>3. \A x : EndsWith(u, x) <=> c = x
    BY AppendFacts
  <2> HIDE DEF u, n
  <2>4. t = <<>> => u[1] = c
    BY <2>1, <2>2
  <2>5. t # <<>> => u[1] = t[1]
    BY <2>1, <2>2
  <2> QED
    BY <2>1, <2>3, <2>4, <2>5
<1>3. /\ next \in WalkStates
      /\ c = Dot => o = out /\ next.dots = dots + 1
      /\ c # Dot => next.dots = 0
      /\ c \notin {Dot, Slash} => o = Append(Dotted(out, dots), c)
      /\ c = Slash /\ dots = 0 => o = Append(out, Slash)
      /\ c = Slash /\ dots # 0 =>
           \/ o = out
           \/ o = Dotted(out, dots)
           \/ o = <<>> /\ (out = <<>> \/ out[1] # Slash)
           \/ o = <<Slash>>
           \/ \E k \in 1..Len(out) : o = SubSeq(out, 1, k)
  BY <1>1, WalkNext
<1>4. Dot # Slash /\ Slash \in Chars
  BY DEF Dot, Slash, Chars
<1>5. Dotted(out, dots) \in Seq(Chars) /\ WellPlaced(Dotted(out, dots))
  BY <1>1, DottedFacts, WellPlacedFacts
<1>6. out # <<>> => Dotted(out, dots) # <<>> /\ Dotted(out, dots)[1] = out[1]
  <2>1. out # <<>> => 1 \in 1..Len(out)
    BY <1>1, EmptySeq
  <2>2. Len(Dotted(out, dots)) = Len(out) + dots /\ \A i \in 1..Len(out) : Dotted(out, dots)[i] = out[i]
    BY <1>1, DottedFacts
  <2>3. out # <<>> => Len(Dotted(out, dots)) # 0
    BY <1>1, <2>1, <2>2
  <2> QED
    BY <1>5, <2>1, <2>2, <2>3, EmptySeq
<1>7. /\ t = <<>> => out = <<>> /\ dots = 0
      /\ t # <<>> /\ t[1] = Slash => out # <<>> /\ out[1] = Slash
      /\ EndsWith(t, Dot) => dots # 0
      /\ t # <<>> /\ t[n] \notin {Dot, Slash} =>
            dots = 0 /\ out # <<>> /\ out[Len(out)] \notin {Dot, Slash}
  BY DEF Walking
<1>8. c = Slash => ~EndsWith(t, Slash)
  BY AppendFacts
<1> SUFFICES /\ WellPlaced(o)
             /\ u[1] = Slash => o # <<>> /\ o[1] = Slash
             /\ c = Dot => next.dots # 0
             /\ c \notin {Dot, Slash} => next.dots = 0 /\ o # <<>> /\ o[Len(o)] \notin {Dot, Slash}
  BY <1>2, <1>3 DEF Walking
<1> HIDE DEF next, u, n, out, dots, o
<1>9. CASE c = Dot
  BY <1>1, <1>2, <1>3, <1>4, <1>7, <1>9
<1>10. CASE c \notin {Dot, Slash}
  <2> DEFINE w == Dotted(out, dots)
  <2>1. /\ o # <<>> /\ o[Len(o)] = c
        /\ w # <<>> => o[1] = w[1]
    <3>1. w \in Seq(Chars)
      BY <1>5
    <3> HIDE DEF w
    <3>2. /\ Append(w, c) # <<>> /\ Len(Append(w, c)) = Len(w) + 1 /\ Append(w, c)[Len(w) + 1] = c
          /\ \A i \in 1..Len(w) : Append(w, c)[i] = w[i]
      BY <3>1, AppendProperties
    <3>3. w # <<>> => 1 \in 1..Len(w)
      BY <3>1, EmptySeq
    <3>4. o = Append(w, c)
      BY <1>3, <1>10 DEF w
    <3> QED
      BY <3>2, <3>3, <3>4
  <2>2. WellPlaced(o)
    BY <1>3, <1>5, <1>10, WellPlacedFacts
  <2> HIDE DEF w
  <2>3. u[1] = Slash => t # <<>> /\ t[1] = Slash
    BY <1>2, <1>10
  <2>4. u[1] = Slash => o # <<>> /\ o[1] = Slash
    BY <1>6, <1>7, <2>1, <2>3 DEF w
  <2> QED
    BY <1>3, <1>10, <2>1, <2>2, <2>4
<1>11. CASE c = Slash /\ dots = 0
  <2>1. o = Append(out, Slash) /\ next.dots = 0
    BY <1>3, <1>4, <1>11
  <2>2. /\ o # <<>> /\ Len(o) = Len(out) + 1 /\ o[Len(out) + 1] = Slash
        /\ \A i \in 1..Len(out) : o[i] = out[i]
    BY <1>1, <1>4, <2>1, AppendProperties
  <2>3. CASE t = <<>>
    <3>1. out = <<>> /\ Len(out) = 0
      BY <1>7, <2>3
    <3>2. Len(o) = 1 /\ o[1] = Slash
      BY <2>2, <3>1
    <3>3. WellPlaced(o)
      BY <3>2 DEF WellPlaced
    <3> QED
      BY <1>4, <1>11, <2>2, <3>2, <3>3
  <2>4. CASE t # <<>>
    <3>1. t[n] \notin {Dot, Slash}
      BY <1>7, <1>8, <1>11, <2>4 DEF EndsWith, n
    <3>2. out # <<>> /\ out[Len(out)] \notin {Dot, Slash}
      BY <1>7, <2>4, <3>1
    <3>3. WellPlaced(o)
      BY <1>1, <1>4, <2>1, <3>2, WellPlacedFacts
    <3>4. o[1] = out[1]
      <4>1. 1 \in 1..Len(out)
        BY <1>1, <3>2, EmptySeq
      <4> QED
        BY <2>2, <4>1
    <3> QED
      BY <1>2, <1>4, <1>7, <1>11, <2>2, <2>4, <3>3, <3>4
  <2> QED
    BY <2>3, <2>4
<1>12. CASE c = Slash /\ dots # 0
  <2>1. t # <<>>
    BY <1>7, <1>12
  <2>2. /\ WellPlaced(<<>>)
        /\ WellPlaced(<<Slash>>) /\ <<Slash>> # <<>> /\ <<Slash>>[1] = Slash
    BY DEF WellPlaced
  <2>3. WellPlaced(o) /\ (out # <<>> /\ out[1] = Slash => o # <<>> /\ o[1] = Slash)
    <3>1. CASE o = out
      BY <1>1, <3>1
    <3>2. CASE o = Dotted(out, dots)
      BY <1>5, <1>6, <3>2
    <3>3. CASE o = <<>> /\ (out = <<>> \/ out[1] # Slash)
      BY <2>2, <3>3
    <3>4. CASE o = <<Slash>>
      BY <2>2, <3>4
    <3>5. ASSUME NEW k \in 1..Len(out), o = SubSeq(out, 1, k)
          PROVE  WellPlaced(o) /\ o # <<>> /\ o[1] = out[1]
      <4>1. WellPlaced(o)
        BY <1>1, <3>5, WellPlacedFacts
      <4>2. Len(o) = k /\ 1 \in 1..k /\ o[1] = out[1]
        BY <1>1, <3>5
      <4> QED
        BY <4>1, <4>2
    <3> QED
      BY <1>3, <1>12, <3>1, <3>2, <3>3, <3>4, <3>5
  <2> QED
    BY <1>2, <1>4, <1>7, <1>12, <2>1, <2>3
<1> QED
  BY <1>9, <1>10, <1>11, <1>12

LEMMA WalkingEnd ==
    ASSUME NEW t \in Seq(Chars), ~DoubleSlash(t)
    PROVE  Walking(t, EndOfPath(t))
<1> DEFINE T == {u \in Seq(Chars) : ~DoubleSlash(u) => Walking(u, EndOfPath(u))}
<1>1. <<>> \in T
  <2>1. Walking(<<>>, StartOfPath)
    BY DEF Walking, StartOfPath, WalkStates, WellPlaced, EndsWith
  <2> QED
    BY <2>1, WalkEmpty
<1>2. ASSUME NEW u \in Seq(Chars), NEW c \in Chars, u \in T PROVE Append(u, c) \in T
  <2> SUFFICES ASSUME ~DoubleSlash(Append(u, c))
               PROVE  Walking(Append(u, c), EndOfPath(Append(u, c)))
    OBVIOUS
  <2>1. ~DoubleSlash(u)
    BY AppendFacts
  <2>2. Walking(u, EndOfPath(u))
    BY <1>2, <2>1
  <2>3. EndOfPath(Append(u, c)) = NormalizeNext(EndOfPath(u), c)
    BY WalkAppend, Zenon
  <2> QED
    BY <2>2, <2>3, WalkingNext, Zenon
<1> HIDE DEF T
<1>3. t \in T
  BY <1>1, <1>2, AppendInduction
<1> QED
  BY <1>3 DEF T

LEMMA NormalizedIs ==
    ASSUME NEW t
    PROVE  PathNormalize(t).str = Dotted(EndOfPath(t).out, EndOfPath(t).dots)
  BY DEF PathNormalize, Normalized, WithDots, Dotted

\* The path that is left.
LEMMA NormalizedPath ==
    ASSUME NEW t \in Seq(Chars), ~DoubleSlash(t)
    PROVE  LET n == PathNormalize(t).str
           IN  /\ n \in Seq(Chars) /\ WellPlaced(n)
               /\ t = <<>> => n = <<>>
               /\ t # <<>> /\ t[1] = Slash => n # <<>> /\ n[1] = Slash
<1> DEFINE s == EndOfPath(t)
           out == s.out
           dots == s.dots
           n == Dotted(out, dots)
<1>1. Walking(t, s)
  BY WalkingEnd
<1>2. PathNormalize(t).str = n
  BY NormalizedIs
<1> HIDE DEF s
<1>3. /\ out \in Seq(Chars) /\ dots \in Nat /\ WellPlaced(out)
      /\ t = <<>> => out = <<>> /\ dots = 0
      /\ t # <<>> /\ t[1] = Slash => out # <<>> /\ out[1] = Slash
  BY <1>1 DEF Walking, WalkStates
<1> HIDE DEF out, dots
<1>4. /\ n \in Seq(Chars) /\ Len(n) = Len(out) + dots /\ WellPlaced(n)
      /\ \A i \in 1..Len(out) : n[i] = out[i]
      /\ dots = 0 => n = out
  BY <1>3, DottedFacts, WellPlacedFacts
<1>5. out # <<>> => 1 \in 1..Len(out) /\ Len(out) # 0
  BY <1>3, EmptySeq
<1> HIDE DEF n
<1>6. out # <<>> => n # <<>> /\ n[1] = out[1]
  BY <1>3, <1>4, <1>5, EmptySeq
<1> QED
  BY <1>2, <1>3, <1>4, <1>6

\* The walk over such a path keeps it.
Keeps(t, s) ==
    /\ s \in WalkStates
    /\ Dotted(s.out, s.dots) = t
    /\ s.dots # 0 => EndsWith(t, Dot)

LEMMA KeepsNext ==
    ASSUME NEW t \in Seq(Chars), NEW c \in Chars, WellPlaced(Append(t, c)), NEW s, Keeps(t, s)
    PROVE  Keeps(Append(t, c), NormalizeNext(s, c))
<1> DEFINE next == NormalizeNext(s, c)
           u == Append(t, c)
           out == s.out
           dots == s.dots
           o == next.out
<1>1. s \in WalkStates /\ out \in Seq(Chars) /\ dots \in Nat /\ Dotted(out, dots) = t
  BY DEF Keeps, WalkStates
<1>2. dots # 0 => EndsWith(t, Dot)
  BY DEF Keeps
<1>3. /\ next \in WalkStates /\ o \in Seq(Chars)
      /\ c = Dot => o = out /\ next.dots = dots + 1
      /\ c # Dot => next.dots = 0
      /\ c \notin {Dot, Slash} => o = Append(Dotted(out, dots), c)
      /\ c = Slash /\ dots = 0 => o = Append(out, Slash)
  <2>1. next \in WalkStates
    BY <1>1, WalkNext
  <2>2. /\ c = Dot => o = out /\ next.dots = dots + 1
        /\ c # Dot => next.dots = 0
        /\ c \notin {Dot, Slash} => o = Append(Dotted(out, dots), c)
        /\ c = Slash /\ dots = 0 => o = Append(out, Slash)
    BY <1>1, WalkNext
  <2> HIDE DEF next
  <2> QED
    BY <2>1, <2>2 DEF WalkStates
<1>4. Dot # Slash /\ u \in Seq(Chars) /\ EndsWith(u, c)
  BY AppendFacts DEF Dot, Slash
<1> SUFFICES Keeps(u, next)
  OBVIOUS
<1> HIDE DEF next, u, out, dots, o
<1>5. CASE c = Dot
  <2>1. Dotted(out, dots + 1) = Append(Dotted(out, dots), Dot)
    BY <1>1, DottedFacts
  <2> QED
    BY <1>1, <1>3, <1>4, <1>5, <2>1 DEF Keeps, o, u
<1>6. CASE c \notin {Dot, Slash}
  <2>1. o = u /\ next.dots = 0
    BY <1>1, <1>3, <1>6 DEF u
  <2>2. Dotted(o, 0) = o
    BY <1>3, DottedFacts
  <2> QED
    BY <1>3, <2>1, <2>2 DEF Keeps, o
<1>7. CASE c = Slash
  <2>1. dots = 0
    <3>1. t # <<>> => t[Len(t)] \notin {Dot, Slash}
      BY <1>7, WellPlacedFacts DEF u
    <3> QED
      BY <1>2, <3>1 DEF EndsWith
  <2>2. Dotted(out, 0) = out
    BY <1>1, DottedFacts
  <2>3. o = u /\ next.dots = 0
    BY <1>1, <1>3, <1>4, <1>7, <2>1, <2>2 DEF u
  <2>4. Dotted(o, 0) = o
    BY <1>3, DottedFacts
  <2> QED
    BY <1>3, <2>3, <2>4 DEF Keeps, o
<1> QED
  BY <1>5, <1>6, <1>7

LEMMA NormalizedStays ==
    ASSUME NEW t \in Seq(Chars), WellPlaced(t)
    PROVE  PathNormalize(t).str = t
<1> DEFINE T == {u \in Seq(Chars) : WellPlaced(u) => Keeps(u, EndOfPath(u))}
<1>1. <<>> \in T
  <2> DEFINE e == <<>>
  <2>1. e \in Seq(Chars) /\ StartOfPath \in WalkStates /\ StartOfPath.out = e /\ StartOfPath.dots = 0
    BY DEF StartOfPath, WalkStates
  <2>2. EndOfPath(e) = StartOfPath
    BY WalkEmpty
  <2> HIDE DEF e
  <2>3. Dotted(e, 0) = e
    BY <2>1, DottedFacts
  <2>4. Keeps(e, StartOfPath)
    BY <2>1, <2>3 DEF Keeps
  <2>5. e \in T
    BY <2>1, <2>2, <2>4
  <2> QED
    BY <2>5 DEF e
<1>2. ASSUME NEW u \in Seq(Chars), NEW c \in Chars, u \in T PROVE Append(u, c) \in T
  <2> SUFFICES ASSUME WellPlaced(Append(u, c))
               PROVE  Keeps(Append(u, c), EndOfPath(Append(u, c)))
    OBVIOUS
  <2>1. WellPlaced(u)
    BY WellPlacedFacts
  <2>2. Keeps(u, EndOfPath(u))
    BY <1>2, <2>1
  <2>3. EndOfPath(Append(u, c)) = NormalizeNext(EndOfPath(u), c)
    BY WalkAppend, Zenon
  <2> QED
    BY <2>2, <2>3, KeepsNext, Zenon
<1> HIDE DEF T
<1>3. t \in T
  BY <1>1, <1>2, AppendInduction
<1>4. Keeps(t, EndOfPath(t))
  BY <1>3 DEF T
<1> QED
  BY <1>4, NormalizedIs DEF Keeps

------------------------------------------------------------------------------
(* Decimal numbers *)

DecimalOf(f, n) == IF n < 10 THEN <<48 + n>> ELSE Append(f[n \div 10], 48 + (n % 10))

LEMMA Tenth == ASSUME NEW n \in Nat PROVE n >= 10 => n \div 10 \in 0..(n - 1)
  OBVIOUS

\* The numbers' digits are those that the recursion gives.
LEMMA DecimalIs ==
    ASSUME NEW n \in Nat
    PROVE  Decimal[n] = DecimalOf(Decimal, n)
<1> DEFINE Upto(f, m) == f = [i \in 0..m |-> DecimalOf(f, i)]
           T == {m \in Nat : \E f : Upto(f, m)}
           g(m) == CHOOSE f : Upto(f, m)
           d == [m \in Nat |-> g(m)[m]]
<1>1. 0 \in T
  <2> DEFINE f == [i \in 0..0 |-> <<48>>]
  <2>1. \A i \in 0..0 : DecimalOf(f, i) = <<48>>
    BY DEF DecimalOf
  <2>2. f = [i \in 0..0 |-> DecimalOf(f, i)]
    <3> HIDE DEF f
    <3> QED
      BY <2>1 DEF f
  <2> QED
    BY <2>2
<1>2. ASSUME NEW m \in Nat, m \in T PROVE m + 1 \in T
  <2>1. PICK f : Upto(f, m)
    BY <1>2
  <2> DEFINE last == DecimalOf(f, m + 1)
             h == [i \in 0..(m + 1) |-> IF i = m + 1 THEN last ELSE f[i]]
  <2>2. f = [i \in 0..m |-> DecimalOf(f, i)]
    BY <2>1
  <2> HIDE DEF Upto, T, last
  <2>3. \A i \in 0..m : h[i] = f[i]
    OBVIOUS
  <2>4. h[m + 1] = last /\ h = [i \in 0..(m + 1) |-> h[i]]
    OBVIOUS
  <2> HIDE DEF h
  <2>5. ASSUME NEW i \in 0..(m + 1) PROVE DecimalOf(h, i) = DecimalOf(f, i)
    <3>1. CASE i < 10
      BY <3>1 DEF DecimalOf
    <3>2. CASE i >= 10
      <4>1. i \in Nat /\ i \div 10 \in 0..(i - 1)
        BY <3>2, Tenth
      <4>2. i \div 10 \in 0..m
        BY <4>1
      <4> QED
        BY <2>3, <4>2 DEF DecimalOf
    <3> QED
      BY <3>1, <3>2
  <2>6. ASSUME NEW i \in 0..(m + 1) PROVE h[i] = DecimalOf(h, i)
    <3>1. CASE i = m + 1
      <4>1. DecimalOf(h, m + 1) = DecimalOf(f, m + 1)
        BY <2>5
      <4> QED
        BY <2>4, <3>1, <4>1 DEF last
    <3>2. CASE i # m + 1
      <4>1. i \in 0..m
        BY <3>2
      <4>2. f[i] = DecimalOf(f, i)
        BY <2>2, <4>1, Zenon
      <4> QED
        BY <2>3, <2>5, <4>1, <4>2
    <3> QED
      BY <3>1, <3>2
  <2>7. Upto(h, m + 1)
    BY <2>4, <2>6, Zenon DEF Upto
  <2> QED
    BY <2>7 DEF T
<1> HIDE DEF T
<1>3. \A m \in Nat : m \in T
  BY <1>1, <1>2, SetInduction
<1> HIDE DEF Upto
<1>4. \A m \in Nat : Upto(g(m), m)
  BY <1>3, Zenon DEF T
<1> HIDE DEF g
<1>5. ASSUME NEW m \in Nat, NEW i \in 0..m PROVE g(m)[i] = DecimalOf(g(m), i)
  <2>1. Upto(g(m), m)
    BY <1>4
  <2> HIDE DEF g
  <2> QED
    BY <2>1, Zenon DEF Upto
<1>6. \A k \in Nat : \A m \in Nat, l \in Nat : k <= m /\ k <= l => g(m)[k] = g(l)[k]
  <2> DEFINE A(k) == \A m \in Nat, l \in Nat : k <= m /\ k <= l => g(m)[k] = g(l)[k]
             U == {j \in Nat : \A k \in 0..j : A(k)}
  <2>1. ASSUME NEW k \in Nat, \A j \in 0..(k - 1) : A(j) PROVE A(k)
    <3> SUFFICES ASSUME NEW m \in Nat, NEW l \in Nat, k <= m, k <= l PROVE g(m)[k] = g(l)[k]
      OBVIOUS
    <3>1. g(m)[k] = DecimalOf(g(m), k) /\ g(l)[k] = DecimalOf(g(l), k)
      <4>1. k \in 0..m /\ k \in 0..l
        OBVIOUS
      <4> QED
        BY <1>5, <4>1, Zenon
    <3>2. CASE k < 10
      BY <3>1, <3>2 DEF DecimalOf
    <3>3. CASE k >= 10
      <4>1. k \div 10 \in 0..(k - 1)
        BY <3>3, Tenth
      <4>2. A(k \div 10)
        BY <2>1, <4>1
      <4>3. g(m)[k \div 10] = g(l)[k \div 10]
        <5>1. k \div 10 <= m /\ k \div 10 <= l
          BY <4>1
        <5> QED
          BY <4>2, <5>1
      <4> QED
        BY <3>1, <4>3, Zenon DEF DecimalOf
    <3> QED
      BY <3>2, <3>3
  <2> HIDE DEF A
  <2>2. 0 \in U
    <3>1. A(0)
      BY <2>1
    <3> QED
      BY <3>1
  <2>3. ASSUME NEW j \in Nat, j \in U PROVE j + 1 \in U
    <3>1. \A i \in 0..((j + 1) - 1) : A(i)
      BY <2>3
    <3>2. A(j + 1)
      BY <2>1, <3>1
    <3>3. \A i \in 0..(j + 1) : i \in 0..j \/ i = j + 1
      OBVIOUS
    <3> QED
      BY <2>3, <3>2, <3>3
  <2> HIDE DEF U
  <2>4. \A j \in Nat : j \in U
    BY <2>2, <2>3, SetInduction
  <2>5. ASSUME NEW k \in Nat PROVE A(k)
    <3>1. k \in 0..k /\ k \in U
      BY <2>4
    <3> QED
      BY <3>1 DEF U
  <2> QED
    BY <2>5, Zenon DEF A
<1>7. ASSUME NEW m \in Nat PROVE d[m] = DecimalOf(d, m)
  <2>1. d[m] = g(m)[m] /\ g(m)[m] = DecimalOf(g(m), m)
    <3>1. m \in 0..m
      OBVIOUS
    <3>2. g(m)[m] = DecimalOf(g(m), m)
      BY <1>5, <3>1, Zenon
    <3> QED
      BY <3>2
  <2>2. CASE m < 10
    BY <2>1, <2>2 DEF DecimalOf
  <2>3. CASE m >= 10
    <3>1. m \div 10 \in 0..(m - 1)
      BY <2>3, Tenth
    <3> DEFINE q == m \div 10
    <3>2. q \in Nat /\ q <= m /\ q <= q
      BY <3>1
    <3> HIDE DEF q
    <3>3. g(m)[q] = g(q)[q] /\ d[q] = g(q)[q]
      BY <1>6, <3>2
    <3> HIDE DEF d
    <3>4. g(m)[q] = d[q]
      BY <3>3, Zenon
    <3> QED
      BY <2>1, <3>4, Zenon DEF DecimalOf, q
  <2> QED
    BY <2>2, <2>3
<1>8. d = [m \in Nat |-> DecimalOf(d, m)]
  <2>1. d = [m \in Nat |-> d[m]]
    OBVIOUS
  <2> HIDE DEF d
  <2> QED
    BY <1>7, <2>1, Zenon
<1> DEFINE Digits(f) == f = [m \in Nat |-> IF m < 10 THEN <<48 + m>> ELSE Append(f[m \div 10], 48 + (m % 10))]
<1> HIDE DEF d
<1>9. Digits(d)
  BY <1>8, Zenon DEF DecimalOf
<1>10. Decimal = CHOOSE f : Digits(f)
  BY Zenon DEF Decimal
<1>11. Digits(Decimal)
  <2> HIDE DEF Digits
  <2> QED
    BY <1>9, <1>10, Zenon
<1> QED
  BY <1>11, Zenon DEF DecimalOf

\* The number that digits print, printed and read again.
LEMMA PrintedNumber ==
    ASSUME NEW t \in Seq(DIGIT), t # <<>>
    PROVE  LET n == Number(t)
           IN  /\ n \in Nat
               /\ Decimal[n] \in Seq(DIGIT) /\ Decimal[n] # <<>>
               /\ Len(Decimal[n]) <= Len(t)
               /\ Number(Decimal[n]) = n
<1> DEFINE Reads(u) == LET n == Number(u)
                       IN  /\ n \in Nat
                           /\ Decimal[n] \in Seq(DIGIT) /\ Decimal[n] # <<>>
                           /\ Number(Decimal[n]) = n
                           /\ u # <<>> => Len(Decimal[n]) <= Len(u)
                           /\ u = <<>> => n = 0
           T == {u \in Seq(DIGIT) : Reads(u)}
<1>1. ASSUME NEW n \in 0..9
      PROVE  /\ Decimal[n] \in Seq(DIGIT) /\ Decimal[n] # <<>> /\ Len(Decimal[n]) = 1
             /\ Number(Decimal[n]) = n
  <2>1. n \in Nat /\ n < 10
    OBVIOUS
  <2>2. Decimal[n] = <<48 + n>>
    BY <2>1, DecimalIs, Zenon DEF DecimalOf
  <2>3. 48 + n \in DIGIT
    BY DEF DIGIT
  <2> DEFINE c == 48 + n
             e == <<>>
  <2>4. e \in Seq(DIGIT) /\ Append(e, c) = <<c>>
    OBVIOUS
  <2>5. Number(Append(e, c)) = 10 * Number(e) + c - 48
    BY <2>3, <2>4, NumberAppend, Zenon
  <2>6. Number(e) = 0
    BY NumberEmpty
  <2>7. Number(<<c>>) = n
    <3>1. 10 * 0 + c - 48 = n
      OBVIOUS
    <3> HIDE DEF c, e
    <3> QED
      BY <2>4, <2>5, <2>6, <3>1
  <2> QED
    BY <2>2, <2>3, <2>7
<1>2. <<>> \in T
  <2>1. Number(<<>>) = 0
    BY NumberEmpty
  <2>2. 0 \in 0..9
    OBVIOUS
  <2>3. Decimal[0] \in Seq(DIGIT) /\ Decimal[0] # <<>> /\ Number(Decimal[0]) = 0
    BY <1>1, <2>2
  <2> QED
    BY <2>1, <2>3
<1>3. ASSUME NEW u \in Seq(DIGIT), NEW c \in DIGIT, u \in T PROVE Append(u, c) \in T
  <2> DEFINE n == Number(u)
             v == Append(u, c)
             x == c - 48
             m == Number(v)
  <2>1. /\ n \in Nat /\ Decimal[n] \in Seq(DIGIT) /\ Decimal[n] # <<>> /\ Number(Decimal[n]) = n
        /\ u # <<>> => Len(Decimal[n]) <= Len(u)
        /\ u = <<>> => n = 0
    BY <1>3
  <2>2. m = 10 * n + c - 48
    BY NumberAppend, Zenon
  <2>3. v \in Seq(DIGIT) /\ v # <<>> /\ Len(v) = Len(u) + 1 /\ Len(u) \in Nat /\ Len(v) >= 1
    BY AppendProperties
  <2>4. x \in 0..9 /\ c = 48 + x /\ c \in Int
    BY DEF DIGIT
  <2> HIDE DEF n, v, m, x
  <2>5. m \in Nat /\ m = 10 * n + x
    BY <2>1, <2>2, <2>4
  <2>6. CASE n = 0
    <3>1. m \in 0..9
      BY <2>4, <2>5, <2>6
    <3>2. /\ Decimal[m] \in Seq(DIGIT) /\ Decimal[m] # <<>> /\ Number(Decimal[m]) = m
          /\ Len(Decimal[m]) = 1
      BY <1>1, <3>1
    <3>3. Len(Decimal[m]) <= Len(v)
      BY <2>3, <3>2
    <3> QED
      BY <2>3, <2>5, <3>2, <3>3 DEF m, v
  <2>7. CASE n # 0
    <3>1. m >= 10 /\ ~(m < 10) /\ m \div 10 = n /\ m % 10 = x
      BY <2>1, <2>4, <2>5, <2>7
    <3>2. Decimal[m] = Append(Decimal[n], c)
      <4>1. Decimal[m] = Append(Decimal[m \div 10], 48 + (m % 10))
        BY <2>5, <3>1, DecimalIs, Zenon DEF DecimalOf
      <4> QED
        BY <2>4, <3>1, <4>1
    <3> DEFINE d == Decimal[n]
    <3>3. d \in Seq(DIGIT) /\ Number(d) = n /\ Len(d) <= Len(u)
      BY <2>1, <2>7
    <3> HIDE DEF d
    <3>4. Append(d, c) \in Seq(DIGIT) /\ Append(d, c) # <<>> /\ Len(Append(d, c)) = Len(d) + 1
      BY <3>3, AppendProperties
    <3>5. Number(Append(d, c)) = 10 * Number(d) + c - 48
      BY <3>3, NumberAppend, Zenon
    <3>6. Number(Append(d, c)) = m
      BY <2>2, <3>3, <3>5
    <3>7. Len(Append(d, c)) <= Len(v)
      BY <2>3, <3>3, <3>4
    <3> QED
      BY <2>3, <2>5, <3>2, <3>4, <3>6, <3>7 DEF d, m, v
  <2> QED
    BY <2>6, <2>7
<1> HIDE DEF T
<1>4. t \in T
  BY <1>2, <1>3, AppendInduction
<1> QED
  BY <1>4 DEF T

------------------------------------------------------------------------------
(* Address literals *)

StartOfHex(placeholder) ==
    [ok |-> TRUE, hcnt |-> 0, hgrp |-> 0, placeholder |-> placeholder, leads |-> FALSE]
StartOfOctets == [octet |-> <<5, 0>>, groups |-> 1]

\* The states that the reading of groups goes through, from their end.
HexRun(f, t, placeholder) ==
    /\ f[0] = StartOfHex(placeholder)
    /\ \A i \in 1..Len(t) : f[i] = HexNext(f[i - 1], t[Len(t) - i + 1], Len(t) - i + 1)

LEMMA HexIterates ==
    ASSUME NEW t, Len(t) \in Nat, NEW placeholder
    PROVE  \E f : HexRun(f, t, placeholder) /\ EndOfHex(t, placeholder) = f[Len(t)]
<1> DEFINE Upto(f, m) == 
             f = [i \in 0..m |-> IF i = 0 THEN StartOfHex(placeholder)
                            ELSE HexNext(f[i - 1], t[Len(t) - i + 1], Len(t) - i + 1)]
           T == {m \in Nat : \E f : Upto(f, m)}
           n == Len(t)
           chosen == CHOOSE f : Upto(f, n)
<1>1. n \in Nat
  OBVIOUS
<1>2. 0 \in T
  <2> DEFINE f == [i \in 0..0 |-> StartOfHex(placeholder)]
  <2>1. Upto(f, 0)
    OBVIOUS
  <2> HIDE DEF Upto
  <2> QED
    BY <2>1
<1>3. ASSUME NEW m \in Nat, m \in T PROVE m + 1 \in T
  <2>1. PICK f : Upto(f, m)
    BY <1>3
  <2>2. \A i \in 0..m : f[i] = IF i = 0 THEN StartOfHex(placeholder) ELSE HexNext(f[i - 1], t[Len(t) - i + 1], Len(t) - i + 1)
    BY <2>1
  <2> DEFINE last == HexNext(f[m], t[Len(t) - (m + 1) + 1], Len(t) - (m + 1) + 1)
             h == [i \in 0..(m + 1) |-> IF i = m + 1 THEN last ELSE f[i]]
  <2> HIDE DEF Upto, T, last
  <2>3. \A i \in 0..m : h[i] = f[i]
    OBVIOUS
  <2>4. h[m + 1] = last /\ h = [i \in 0..(m + 1) |-> h[i]]
    OBVIOUS
  <2> HIDE DEF h
  <2>5. ASSUME NEW i \in 0..(m + 1) PROVE h[i] = IF i = 0 THEN StartOfHex(placeholder) ELSE HexNext(h[i - 1], t[Len(t) - i + 1], Len(t) - i + 1)
    <3>1. CASE i = m + 1
      <4>1. i - 1 = m /\ i # 0 /\ h[m] = f[m]
        BY <2>3, <3>1
      <4> QED
        BY <2>4, <3>1, <4>1, Zenon DEF last
    <3>2. CASE i # m + 1
      <4>1. i \in 0..m /\ (i # 0 => i - 1 \in 0..m)
        BY <3>2
      <4>2. h[i] = f[i] /\ (i # 0 => h[i - 1] = f[i - 1])
        BY <2>3, <4>1
      <4> QED
        BY <2>2, <4>1, <4>2, Zenon
    <3> QED
      BY <3>1, <3>2
  <2>6. Upto(h, m + 1)
    BY <2>4, <2>5, Zenon DEF Upto
  <2> QED
    BY <2>6 DEF T
<1> HIDE DEF T
<1>4. n \in T
  BY <1>1, <1>2, <1>3, SetInduction
<1>5. Upto(chosen, n)
  <2> HIDE DEF Upto
  <2> QED
    BY <1>4, Zenon DEF T
<1>6. EndOfHex(t, placeholder) = chosen[n]
  BY Zenon DEF EndOfHex, StartOfHex
<1> HIDE DEF chosen
<1>7. 0 \in 0..n /\ \A i \in 1..n : i \in 0..n /\ i # 0
  BY <1>1
<1>8. \A i \in 0..n : chosen[i] = IF i = 0 THEN StartOfHex(placeholder) ELSE HexNext(chosen[i - 1], t[Len(t) - i + 1], Len(t) - i + 1)
  BY <1>5, Zenon
<1> HIDE DEF Upto
<1>9. /\ chosen[0] = StartOfHex(placeholder)
      /\ \A i \in 1..n : chosen[i] = HexNext(chosen[i - 1], t[Len(t) - i + 1], Len(t) - i + 1)
  BY <1>7, <1>8, Zenon
<1> QED
  BY <1>6, <1>9, Zenon DEF HexRun
\* The states that the reading of octets goes through, from their end.
OctetRun(f, t) ==
    /\ f[0] = StartOfOctets
    /\ \A i \in 1..Len(t) : f[i] = OctetsNext(f[i - 1], t[Len(t) - i + 1])

LEMMA OctetIterates ==
    ASSUME NEW t, Len(t) \in Nat
    PROVE  \E f : OctetRun(f, t) /\ ReadOctets(t) = f[Len(t)]
<1> DEFINE Upto(f, m) == 
             f = [i \in 0..m |-> IF i = 0 THEN StartOfOctets
                            ELSE OctetsNext(f[i - 1], t[Len(t) - i + 1])]
           T == {m \in Nat : \E f : Upto(f, m)}
           n == Len(t)
           chosen == CHOOSE f : Upto(f, n)
<1>1. n \in Nat
  OBVIOUS
<1>2. 0 \in T
  <2> DEFINE f == [i \in 0..0 |-> StartOfOctets]
  <2>1. Upto(f, 0)
    OBVIOUS
  <2> HIDE DEF Upto
  <2> QED
    BY <2>1
<1>3. ASSUME NEW m \in Nat, m \in T PROVE m + 1 \in T
  <2>1. PICK f : Upto(f, m)
    BY <1>3
  <2>2. \A i \in 0..m : f[i] = IF i = 0 THEN StartOfOctets ELSE OctetsNext(f[i - 1], t[Len(t) - i + 1])
    BY <2>1
  <2> DEFINE last == OctetsNext(f[m], t[Len(t) - (m + 1) + 1])
             h == [i \in 0..(m + 1) |-> IF i = m + 1 THEN last ELSE f[i]]
  <2> HIDE DEF Upto, T, last
  <2>3. \A i \in 0..m : h[i] = f[i]
    OBVIOUS
  <2>4. h[m + 1] = last /\ h = [i \in 0..(m + 1) |-> h[i]]
    OBVIOUS
  <2> HIDE DEF h
  <2>5. ASSUME NEW i \in 0..(m + 1) PROVE h[i] = IF i = 0 THEN StartOfOctets ELSE OctetsNext(h[i - 1], t[Len(t) - i + 1])
    <3>1. CASE i = m + 1
      <4>1. i - 1 = m /\ i # 0 /\ h[m] = f[m]
        BY <2>3, <3>1
      <4> QED
        BY <2>4, <3>1, <4>1, Zenon DEF last
    <3>2. CASE i # m + 1
      <4>1. i \in 0..m /\ (i # 0 => i - 1 \in 0..m)
        BY <3>2
      <4>2. h[i] = f[i] /\ (i # 0 => h[i - 1] = f[i - 1])
        BY <2>3, <4>1
      <4> QED
        BY <2>2, <4>1, <4>2, Zenon
    <3> QED
      BY <3>1, <3>2
  <2>6. Upto(h, m + 1)
    BY <2>4, <2>5, Zenon DEF Upto
  <2> QED
    BY <2>6 DEF T
<1> HIDE DEF T
<1>4. n \in T
  BY <1>1, <1>2, <1>3, SetInduction
<1>5. Upto(chosen, n)
  <2> HIDE DEF Upto
  <2> QED
    BY <1>4, Zenon DEF T
<1>6. ReadOctets(t) = chosen[n]
  BY Zenon DEF ReadOctets, StartOfOctets
<1> HIDE DEF chosen
<1>7. 0 \in 0..n /\ \A i \in 1..n : i \in 0..n /\ i # 0
  BY <1>1
<1>8. \A i \in 0..n : chosen[i] = IF i = 0 THEN StartOfOctets ELSE OctetsNext(chosen[i - 1], t[Len(t) - i + 1])
  BY <1>5, Zenon
<1> HIDE DEF Upto
<1>9. /\ chosen[0] = StartOfOctets
      /\ \A i \in 1..n : chosen[i] = OctetsNext(chosen[i - 1], t[Len(t) - i + 1])
  BY <1>7, <1>8, Zenon
<1> QED
  BY <1>6, <1>9, Zenon DEF OctetRun

------------------------------------------------------------------------------
(* Address literals: capitals *)

\* Two texts of which the second is the first in lower case.
Alike(s, t) ==
    /\ s \in Seq(Chars) /\ t \in Seq(Chars) /\ Len(t) = Len(s)
    /\ \A i \in 1..Len(s) : t[i] = ToLower(s[i])

LEMMA LowerFacts ==
    ASSUME NEW c \in Chars
    PROVE  /\ ToLower(c) \in Chars
           /\ ToLower(c) \in HEXDIG <=> c \in HEXDIG
           /\ ToLower(c) \in DIGIT <=> c \in DIGIT
           /\ c \in DIGIT => ToLower(c) = c
           /\ \A x \in {Colon, Dot, 91, 93} : ToLower(c) = x <=> c = x
           /\ c \in unreserved \cup sub_delims \cup {Colon} =>
                ToLower(c) \in unreserved \cup sub_delims \cup {Colon}
  BY DEF ToLower, Chars, HEXDIG, DIGIT, Colon, Dot, unreserved, sub_delims, ALPHA

LEMMA HexNextAlike ==
    ASSUME NEW s, NEW c \in Chars, NEW at
    PROVE  HexNext(s, ToLower(c), at) = HexNext(s, c, at)
<1>1. /\ ToLower(c) \in HEXDIG <=> c \in HEXDIG
      /\ ToLower(c) = Colon <=> c = Colon
  BY LowerFacts
<1>2. Colon \notin HEXDIG
  BY DEF Colon, HEXDIG, DIGIT
<1> DEFINE d == ToLower(c)
           hcnt == s.hcnt
           groups == hcnt > 0
           none == hcnt = 0
<1> HIDE DEF d, groups, none
<1>3. HexNext(s, d, at) = HexNext(s, c, at)
  <2>1. CASE c \in HEXDIG
    BY <1>1, <2>1, Zenon DEF HexNext, d
  <2>2. CASE c = Colon
    BY <1>1, <2>2, Zenon DEF HexNext, d
  <2>3. CASE c \notin HEXDIG /\ c # Colon
    BY <1>1, <2>3, Zenon DEF HexNext, d
  <2> QED
    BY <2>1, <2>2, <2>3
<1> QED
  BY <1>3 DEF d

LEMMA OctetsNextAlike ==
    ASSUME NEW s, NEW c \in Chars
    PROVE  OctetsNext(s, ToLower(c)) = OctetsNext(s, c)
<1>1. /\ c \in DIGIT => ToLower(c) = c
      /\ ToLower(c) \in DIGIT <=> c \in DIGIT
      /\ ToLower(c) = Dot <=> c = Dot
  BY LowerFacts
<1> DEFINE d == ToLower(c)
<1>2. CASE c \in DIGIT
  BY <1>1, <1>2
<1>3. CASE c \notin DIGIT
  BY <1>1, <1>3, Zenon DEF OctetsNext
<1> QED
  BY <1>2, <1>3

\* The characters from the end.
LEMMA FromTheEnd ==
    ASSUME NEW n \in Nat
    PROVE  /\ \A i \in 1..n : n - i + 1 \in 1..n
           /\ \A k \in 1..n : n - k + 1 \in 1..n /\ n - (n - k + 1) + 1 = k
  OBVIOUS

LEMMA HexAlike ==
    ASSUME NEW s, NEW t, Alike(s, t), NEW placeholder
    PROVE  EndOfHex(t, placeholder) = EndOfHex(s, placeholder)
<1> DEFINE n == Len(s)
<1>1. n \in Nat /\ Len(t) = n /\ Len(t) \in Nat /\ \A i \in 1..n : t[i] = ToLower(s[i]) /\ s[i] \in Chars
  BY DEF Alike
<1> HIDE DEF n
<1>2. PICK f : HexRun(f, s, placeholder) /\ EndOfHex(s, placeholder) = f[n]
  BY <1>1, HexIterates, Zenon DEF n
<1>3. PICK g : HexRun(g, t, placeholder) /\ EndOfHex(t, placeholder) = g[n]
  BY <1>1, HexIterates, Zenon
<1>4. /\ f[0] = StartOfHex(placeholder)
      /\ \A i \in 1..n : f[i] = HexNext(f[i - 1], s[n - i + 1], n - i + 1)
  BY <1>2, Zenon DEF HexRun, n
<1>5. /\ g[0] = StartOfHex(placeholder)
      /\ \A i \in 1..n : g[i] = HexNext(g[i - 1], t[n - i + 1], n - i + 1)
  BY <1>1, <1>3, Zenon DEF HexRun
<1>6. ASSUME NEW i \in 1..n, f[i - 1] = g[i - 1] PROVE f[i] = g[i]
  <2> DEFINE k == n - i + 1
  <2>1. k \in 1..n
    BY <1>1, FromTheEnd
  <2> HIDE DEF k
  <2>2. t[k] = ToLower(s[k]) /\ s[k] \in Chars
    BY <1>1, <2>1
  <2>3. HexNext(f[i - 1], t[k], k) = HexNext(f[i - 1], s[k], k)
    BY <2>2, HexNextAlike, Zenon
  <2> QED
    BY <1>4, <1>5, <1>6, <2>3, Zenon DEF k
<1>7. f[n] = g[n]
  <2>1. f[0] = g[0]
    BY <1>4, <1>5, Zenon
  <2> QED
    BY <1>1, <1>6, <2>1, LoopsAgree, Zenon
<1> QED
  BY <1>2, <1>3, <1>7, Zenon

LEMMA OctetsAlike ==
    ASSUME NEW s, NEW t, Alike(s, t)
    PROVE  ReadOctets(t) = ReadOctets(s)
<1> DEFINE n == Len(s)
<1>1. n \in Nat /\ Len(t) = n /\ Len(t) \in Nat /\ \A i \in 1..n : t[i] = ToLower(s[i]) /\ s[i] \in Chars
  BY DEF Alike
<1> HIDE DEF n
<1>2. PICK f : OctetRun(f, s) /\ ReadOctets(s) = f[n]
  BY <1>1, OctetIterates, Zenon DEF n
<1>3. PICK g : OctetRun(g, t) /\ ReadOctets(t) = g[n]
  BY <1>1, OctetIterates, Zenon
<1>4. f[0] = StartOfOctets /\ \A i \in 1..n : f[i] = OctetsNext(f[i - 1], s[n - i + 1])
  BY <1>2, Zenon DEF OctetRun, n
<1>5. g[0] = StartOfOctets /\ \A i \in 1..n : g[i] = OctetsNext(g[i - 1], t[n - i + 1])
  BY <1>1, <1>3, Zenon DEF OctetRun
<1>6. ASSUME NEW i \in 1..n, f[i - 1] = g[i - 1] PROVE f[i] = g[i]
  <2> DEFINE k == n - i + 1
  <2>1. k \in 1..n
    BY <1>1, FromTheEnd
  <2> HIDE DEF k
  <2>2. t[k] = ToLower(s[k]) /\ s[k] \in Chars
    BY <1>1, <2>1
  <2>3. OctetsNext(f[i - 1], t[k]) = OctetsNext(f[i - 1], s[k])
    BY <2>2, OctetsNextAlike, Zenon
  <2> QED
    BY <1>4, <1>5, <1>6, <2>3, Zenon DEF k
<1>7. f[n] = g[n]
  <2>1. f[0] = g[0]
    BY <1>4, <1>5, Zenon
  <2> QED
    BY <1>1, <1>6, <2>1, LoopsAgree, Zenon
<1> QED
  BY <1>2, <1>3, <1>7, Zenon

\* A loop that has not failed has not failed before.
LEMMA NeverFailed ==
    ASSUME NEW n \in Nat, NEW Good, NEW Of, n \in Good,
           \A i \in 1..n : i \in Good => i - 1 \in Good /\ i \in Of
    PROVE  \A i \in 1..n : i \in Of
<1> DEFINE T == {k \in Nat : k <= n => n - k \in Good}
<1>1. 0 \in T
  OBVIOUS
<1>2. ASSUME NEW k \in Nat, k \in T PROVE k + 1 \in T
  <2> SUFFICES ASSUME k + 1 <= n PROVE n - (k + 1) \in Good
    OBVIOUS
  <2>1. n - k \in 1..n /\ (n - k) - 1 = n - (k + 1) /\ n - k \in Good
    BY <1>2
  <2> QED
    BY <2>1
<1> HIDE DEF T
<1>3. \A k \in Nat : k \in T
  BY <1>1, <1>2, SetInduction
<1>4. ASSUME NEW i \in 1..n PROVE i \in Of
  <2>1. n - i \in Nat /\ n - i <= n /\ n - (n - i) = i
    OBVIOUS
  <2>2. i \in Good
    BY <1>3, <2>1 DEF T
  <2> QED
    BY <2>2
<1> QED
  BY <1>4

LEMMA HexTold ==
    ASSUME NEW s \in Seq(Chars), NEW placeholder, EndOfHex(s, placeholder).ok
    PROVE  \A k \in 1..Len(s) : s[k] \in HEXDIG \cup {Colon}
<1> DEFINE n == Len(s)
<1>1. n \in Nat
  OBVIOUS
<1> HIDE DEF n
<1>2. PICK f : HexRun(f, s, placeholder) /\ EndOfHex(s, placeholder) = f[n]
  BY <1>1, HexIterates, Zenon DEF n
<1>3. \A i \in 1..n : f[i] = HexNext(f[i - 1], s[n - i + 1], n - i + 1)
  BY <1>2, Zenon DEF HexRun, n
<1> DEFINE Good == {i \in 0..n : f[i].ok}
           Of == {i \in 1..n : s[n - i + 1] \in HEXDIG \cup {Colon}}
<1>4. ASSUME NEW i \in 1..n, i \in Good PROVE i - 1 \in Good /\ i \in Of
  <2> DEFINE r == f[i - 1]
             c == s[n - i + 1]
             at == n - i + 1
  <2>1. HexNext(r, c, at).ok
    BY <1>3, <1>4, Zenon
  <2> HIDE DEF r, c, at
  <2>2. r.ok
    BY <2>1, Zenon DEF HexNext
  <2>3. c \in HEXDIG \/ c = Colon
    <3>1. CASE c \notin HEXDIG /\ c # Colon
      <4>1. HexNext(r, c, at) = [r EXCEPT !.ok = FALSE]
        BY <2>2, <3>1, Zenon DEF HexNext
      <4> QED
        BY <2>1, <2>2, <4>1
    <3> QED
      BY <3>1
  <2>4. i - 1 \in 0..n
    BY <1>1
  <2> QED
    BY <2>2, <2>3, <2>4 DEF r, c
<1>5. n \in Good
  BY <1>1, <1>2
<1> HIDE DEF Good, Of
<1>6. \A i \in 1..n : i \in Of
  BY <1>1, <1>4, <1>5, NeverFailed
<1>7. ASSUME NEW k \in 1..n PROVE s[k] \in HEXDIG \cup {Colon}
  <2> DEFINE i == n - k + 1
  <2>1. i \in 1..n /\ n - i + 1 = k
    BY <1>1, FromTheEnd
  <2> HIDE DEF i
  <2>2. s[n - i + 1] \in HEXDIG \cup {Colon}
    BY <1>6, <2>1 DEF Of
  <2> QED
    BY <2>1, <2>2
<1> QED
  BY <1>7 DEF n

LEMMA OctetsTold ==
    ASSUME NEW s \in Seq(Chars), ReadOctets(s).octet # NoOctet
    PROVE  \A k \in 1..Len(s) : s[k] \in DIGIT \cup {Dot}
<1> DEFINE n == Len(s)
<1>1. n \in Nat
  OBVIOUS
<1> HIDE DEF n
<1>2. PICK f : OctetRun(f, s) /\ ReadOctets(s) = f[n]
  BY <1>1, OctetIterates, Zenon DEF n
<1>3. f[0] = StartOfOctets /\ \A i \in 1..n : f[i] = OctetsNext(f[i - 1], s[n - i + 1])
  BY <1>2, Zenon DEF OctetRun, n
<1> DEFINE Good == {i \in 0..n : f[i].octet # NoOctet}
           Of == {i \in 1..n : s[n - i + 1] \in DIGIT \cup {Dot}}
<1>4. ASSUME NEW i \in 1..n, i \in Good PROVE i - 1 \in Good /\ i \in Of
  <2> DEFINE r == f[i - 1]
             c == s[n - i + 1]
  <2>1. OctetsNext(r, c).octet # NoOctet
    BY <1>3, <1>4, Zenon
  <2> HIDE DEF r, c
  <2>2. r.octet # NoOctet
    BY <2>1, Zenon DEF OctetsNext
  <2>3. c \in DIGIT \/ c = Dot
    <3>1. CASE c \notin DIGIT /\ c # Dot
      <4>1. OctetsNext(r, c) = [r EXCEPT !.octet = NoOctet]
        BY <2>2, <3>1, Zenon DEF OctetsNext
      <4> QED
        BY <2>1, <2>2, <4>1
    <3> QED
      BY <3>1
  <2>4. i - 1 \in 0..n
    BY <1>1
  <2> QED
    BY <2>2, <2>3, <2>4 DEF r, c
<1>5. n \in Good
  BY <1>1, <1>2
<1> HIDE DEF Good, Of
<1>6. \A i \in 1..n : i \in Of
  BY <1>1, <1>4, <1>5, NeverFailed
<1>7. ASSUME NEW k \in 1..n PROVE s[k] \in DIGIT \cup {Dot}
  <2> DEFINE i == n - k + 1
  <2>1. i \in 1..n /\ n - i + 1 = k
    BY <1>1, FromTheEnd
  <2> HIDE DEF i
  <2>2. s[n - i + 1] \in DIGIT \cup {Dot}
    BY <1>6, <2>1 DEF Of
  <2> QED
    BY <2>1, <2>2
<1> QED
  BY <1>7 DEF n

LEMMA PartAlike ==
    ASSUME NEW s, NEW t, Alike(s, t), NEW a \in Nat \ {0}, NEW b \in Nat, b <= Len(s)
    PROVE  Alike(SubSeq(s, a, b), SubSeq(t, a, b))
<1> DEFINE u == SubSeq(s, a, b)
           v == SubSeq(t, a, b)
           m == IF a <= b THEN b - a + 1 ELSE 0
<1>1. s \in Seq(Chars) /\ t \in Seq(Chars) /\ Len(t) = Len(s) /\ \A i \in 1..Len(s) : t[i] = ToLower(s[i])
  BY DEF Alike
<1>2. u \in Seq(Chars) /\ Len(u) = m /\ \A i \in 1..(b - a + 1) : u[i] = s[a + i - 1]
  BY <1>1, PieceOf
<1>3. v \in Seq(Chars) /\ Len(v) = m /\ \A i \in 1..(b - a + 1) : v[i] = t[a + i - 1]
  BY <1>1, PieceOf
<1>4. \A i \in 1..m : i \in 1..(b - a + 1) /\ a + i - 1 \in 1..Len(s)
  BY <1>1
<1> HIDE DEF u, v, m
<1> QED
  BY <1>1, <1>2, <1>3, <1>4 DEF Alike, u, v

\* The characters of a part.
LEMMA InPart ==
    ASSUME NEW s \in Seq(Chars), NEW a \in Nat \ {0}, NEW b \in Nat, b <= Len(s), NEW class,
           \A k \in 1..Len(SubSeq(s, a, b)) : SubSeq(s, a, b)[k] \in class
    PROVE  \A i \in a..b : s[i] \in class
<1> DEFINE u == SubSeq(s, a, b)
           m == b - a + 1
<1>1. /\ Len(u) = IF a <= b THEN m ELSE 0
      /\ \A i \in 1..m : u[i] = s[a + i - 1]
  BY PieceOf
<1> HIDE DEF u
<1>2. ASSUME NEW i \in a..b PROVE s[i] \in class
  <2> DEFINE k == i - a + 1
  <2>1. k \in 1..m /\ a + k - 1 = i /\ k \in 1..Len(u)
    BY <1>1
  <2> HIDE DEF k, m
  <2> QED
    BY <1>1, <2>1 DEF u
<1> QED
  BY <1>2

HexColon == HEXDIG \cup {Colon}

\* Groups that are accepted: their characters, and in lower case.
LEMMA GroupsAlike ==
    ASSUME NEW s, NEW t, Alike(s, t), NEW placeholder, NEW ipv4
    PROVE  /\ HexGroups(s, placeholder, ipv4) => \A k \in 1..Len(s) : s[k] \in HexColon
           /\ HexGroups(s, placeholder, ipv4) => HexGroups(t, placeholder, ipv4)
<1> DEFINE end == EndOfHex(s, placeholder)
<1>1. s \in Seq(Chars) /\ t \in Seq(Chars) /\ Len(t) = Len(s) /\ \A i \in 1..Len(s) : t[i] = ToLower(s[i])
  BY DEF Alike
<1>2. EndOfHex(t, placeholder) = end
  BY HexAlike
<1>3. t[1] = Colon <=> s[1] = Colon
  <2>1. CASE Len(s) = 0
    BY <1>1, <2>1, EmptySeq
  <2>2. CASE Len(s) # 0
    <3>1. 1 \in 1..Len(s) /\ s[1] \in Chars
      BY <1>1, <2>2
    <3>2. ToLower(s[1]) = Colon <=> s[1] = Colon
      BY <3>1, LowerFacts
    <3> QED
      BY <1>1, <3>1, <3>2
  <2> QED
    BY <2>1, <2>2
<1>4. end.ok => \A k \in 1..Len(s) : s[k] \in HexColon
  BY <1>1, HexTold DEF HexColon
<1> HIDE DEF end
<1> QED
  BY <1>2, <1>3, <1>4, Zenon DEF HexGroups, Whole, end

LEMMA OctetsBefore ==
    ASSUME NEW s, NEW t, Alike(s, t), NEW colon \in 2..Len(s), BeforeOctets(s, colon)
    PROVE  BeforeOctets(t, colon) /\ \A k \in 1..colon : s[k] \in HexColon
<1>1. s \in Seq(Chars) /\ t \in Seq(Chars) /\ Len(t) = Len(s) /\ \A i \in 1..Len(s) : t[i] = ToLower(s[i])
  BY DEF Alike
<1>2. \A i \in 1..Len(s) : (t[i] = Colon <=> s[i] = Colon)
  BY <1>1, LowerFacts
<1>3. Colon \in HexColon /\ colon \in 1..Len(s) /\ colon - 1 \in 1..Len(s) /\ 1 \in 1..Len(s)
  BY DEF HexColon
<1>4. s[colon] = Colon /\ t[colon] = Colon
  BY <1>2, <1>3 DEF BeforeOctets
<1>5. CASE colon = 2 /\ s[1] = Colon
  <2>1. BeforeOctets(t, colon)
    BY <1>2, <1>3, <1>4, <1>5 DEF BeforeOctets
  <2>2. \A k \in 1..colon : k = 1 \/ k = colon
    BY <1>5
  <2> QED
    BY <1>3, <1>4, <1>5, <2>1, <2>2
<1>6. CASE colon > 2 /\ s[colon - 1] = Colon /\ HexGroups(SubSeq(s, 1, colon - 2), TRUE, TRUE)
  <2> DEFINE b == colon - 2
             u == SubSeq(s, 1, b)
             v == SubSeq(t, 1, b)
  <2>1. b \in Nat /\ b <= Len(s) /\ 1 \in Nat \ {0}
    BY <1>6
  <2>2. Alike(u, v)
    <3> HIDE DEF b
    <3> QED
      BY <2>1, PartAlike
  <2>3. HexGroups(v, TRUE, TRUE) /\ \A k \in 1..Len(u) : u[k] \in HexColon
    <3>1. HexGroups(u, TRUE, TRUE)
      BY <1>6
    <3> HIDE DEF u, v
    <3> QED
      BY <2>2, <3>1, GroupsAlike
  <2>4. \A k \in 1..b : s[k] \in HexColon
    <3> HIDE DEF b
    <3> QED
      BY <1>1, <2>1, <2>3, InPart
  <2>5. \A k \in 1..colon : k \in 1..b \/ k = colon - 1 \/ k = colon
    BY <1>6
  <2>6. BeforeOctets(t, colon)
    <3>1. t[colon - 1] = Colon
      BY <1>2, <1>3, <1>6
    <3> HIDE DEF u
    <3> QED
      BY <1>4, <1>6, <2>3, <3>1 DEF BeforeOctets
  <2> QED
    BY <1>3, <1>4, <1>6, <2>4, <2>5, <2>6
<1>7. CASE s[colon - 1] # Colon /\ HexGroups(SubSeq(s, 1, colon - 1), FALSE, TRUE)
  <2> DEFINE b == colon - 1
             u == SubSeq(s, 1, b)
             v == SubSeq(t, 1, b)
  <2>1. b \in Nat /\ b <= Len(s) /\ 1 \in Nat \ {0}
    BY <1>7
  <2>2. Alike(u, v)
    <3> HIDE DEF b
    <3> QED
      BY <2>1, PartAlike
  <2>3. HexGroups(v, FALSE, TRUE) /\ \A k \in 1..Len(u) : u[k] \in HexColon
    <3>1. HexGroups(u, FALSE, TRUE)
      BY <1>7
    <3> HIDE DEF u, v
    <3> QED
      BY <2>2, <3>1, GroupsAlike
  <2>4. \A k \in 1..b : s[k] \in HexColon
    <3> HIDE DEF b
    <3> QED
      BY <1>1, <2>1, <2>3, InPart
  <2>5. \A k \in 1..colon : k \in 1..b \/ k = colon
    OBVIOUS
  <2>6. BeforeOctets(t, colon)
    <3>1. t[colon - 1] # Colon
      BY <1>2, <1>3, <1>7
    <3> HIDE DEF u
    <3> QED
      BY <1>4, <2>3, <3>1 DEF BeforeOctets
  <2> QED
    BY <1>3, <1>4, <2>4, <2>5, <2>6
<1> QED
  BY <1>5, <1>6, <1>7 DEF BeforeOctets

LEMMA MaxOf ==
    ASSUME NEW n \in Nat, NEW T, T \subseteq 1..n, T # {}
    PROVE  Max(T) \in T /\ \A m \in T : m <= Max(T)
<1> DEFINE Greatest(k) == k \in T /\ \A m \in T : k >= m
<1>1. \E k : Greatest(k)
  <2>1. PICK k \in T : \A m \in T : m <= k
    BY GreatestOf
  <2>2. \A m \in T : k >= m
    BY <2>1
  <2> QED
    BY <2>2
<1>2. Max(T) = CHOOSE k : Greatest(k)
  BY DEF Max
<1> DEFINE max == Max(T)
<1>3. Greatest(max)
  <2> HIDE DEF Greatest
  <2> QED
    BY <1>1, <1>2, Zenon
<1> HIDE DEF max
<1>4. \A m \in T : m <= max
  BY <1>3
<1> QED
  BY <1>3, <1>4 DEF max

\* The characters that an address may have between its brackets.
LiteralClass == unreserved \cup sub_delims \cup {Colon}

LEMMA LiteralClassFacts ==
    /\ HEXDIG \cup {Colon, Dot} \subseteq LiteralClass
    /\ LiteralClass \cap {At, 91, 93, Slash, Question, Hash, Percent} = {}
    /\ LiteralClass \cap WhiteSpace = {}
  BY DEF LiteralClass, HEXDIG, DIGIT, unreserved, sub_delims, ALPHA, Colon, Dot, At, Slash,
         Question, Hash, Percent, WhiteSpace

LEMMA FutureAlike ==
    ASSUME NEW s, NEW t, Alike(s, t), s # <<>>, t[1] = s[1], IpvFuture(s)
    PROVE  IpvFuture(t) /\ \A k \in 1..Len(s) : s[k] \in LiteralClass
<1> DEFINE n == Len(s)
           D == {i \in 3..n : s[i] \notin HEXDIG} \cup {n}
           E == {i \in 3..n : t[i] \notin HEXDIG} \cup {n}
           dot == Min(D)
<1>1. s \in Seq(Chars) /\ t \in Seq(Chars) /\ Len(t) = n /\ \A i \in 1..n : t[i] = ToLower(s[i])
  BY DEF Alike
<1>2. n \in Nat
  BY <1>1
<1>3. /\ n >= 4 /\ s[1] = 118 /\ s[2] \in HEXDIG /\ s[dot] = Dot /\ dot < n
      /\ \A i \in dot + 1..n : s[i] \in LiteralClass
  BY DEF IpvFuture, LiteralClass
<1>4. \A i \in 1..n : /\ t[i] \in HEXDIG <=> s[i] \in HEXDIG
                      /\ t[i] = Dot <=> s[i] = Dot
                      /\ s[i] \in LiteralClass => t[i] \in LiteralClass
  BY <1>1, LowerFacts DEF LiteralClass
<1> HIDE DEF n
<1>5. D = E
  BY <1>2, <1>4
<1>6. dot \in D /\ \A m \in D : dot <= m
  <2>1. D \subseteq Nat /\ D # {}
    BY <1>2
  <2> HIDE DEF D
  <2> QED
    BY <2>1, MinOf
<1>7. Len(t) = n /\ dot = Min(E)
  BY <1>1, <1>5
<1> HIDE DEF dot
<1>8. dot \in 3..n /\ \A k \in 3..(dot - 1) : s[k] \in HEXDIG
  <2>1. dot \in 3..n
    BY <1>3, <1>6
  <2>2. ASSUME NEW k \in 3..(dot - 1) PROVE s[k] \in HEXDIG
    <3>1. k \in 3..n /\ ~(dot <= k)
      BY <1>2, <2>1
    <3>2. k \notin D
      BY <1>6, <3>1
    <3> QED
      BY <3>1, <3>2
  <2> QED
    BY <2>1, <2>2
<1>9. \A k \in 1..n : s[k] \in LiteralClass
  <2>1. 118 \in LiteralClass /\ Dot \in LiteralClass
    BY LiteralClassFacts DEF LiteralClass, unreserved, ALPHA
  <2>2. \A k \in 1..n : k = 1 \/ k = 2 \/ k \in 3..(dot - 1) \/ k = dot \/ k \in dot + 1..n
    BY <1>2, <1>8
  <2>3. HEXDIG \subseteq LiteralClass
    BY LiteralClassFacts
  <2> QED
    BY <1>3, <1>8, <2>1, <2>2, <2>3
<1>10. IpvFuture(t)
  <2>1. t[1] = 118 /\ t[2] \in HEXDIG /\ t[dot] = Dot
    <3>1. 2 \in 1..n /\ dot \in 1..n
      BY <1>2, <1>3, <1>8
    <3> QED
      BY <1>3, <1>4, <3>1
  <2>2. \A i \in dot + 1..n : t[i] \in LiteralClass
    <3>1. \A i \in dot + 1..n : i \in 1..n
      BY <1>2, <1>8
    <3> QED
      BY <1>3, <1>4, <3>1
  <2> DEFINE F == {i \in 3..Len(t) : t[i] \notin HEXDIG} \cup {Len(t)}
  <2>3. dot = Min(F)
    BY <1>7
  <2> HIDE DEF F
  <2>4. Len(t) >= 4 /\ dot < Len(t) /\ \A i \in dot + 1..Len(t) : t[i] \in LiteralClass
    BY <1>3, <1>7, <2>2
  <2> QED
    BY <2>1, <2>3, <2>4, Zenon DEF IpvFuture, F, LiteralClass
<1> QED
  BY <1>9, <1>10 DEF n

LEMMA OctetsEndAlike ==
    ASSUME NEW s, NEW t, Alike(s, t), Len(s) >= 2
    PROVE  /\ EndsWithOctets(t) <=> EndsWithOctets(s)
           /\ Max({i \in 3..Len(t) : t[i] = Colon} \cup {2})
                = Max({i \in 3..Len(s) : s[i] = Colon} \cup {2})
           /\ Max({i \in 3..Len(s) : s[i] = Colon} \cup {2}) \in 2..Len(s)
<1> DEFINE n == Len(s)
           D == {i \in 3..n : s[i] = Colon} \cup {2}
           E == {i \in 3..n : t[i] = Colon} \cup {2}
<1>1. n \in Nat /\ Len(t) = n /\ \A i \in 1..n : s[i] \in Chars /\ t[i] = ToLower(s[i])
  BY DEF Alike
<1>2. \A i \in 1..n : (t[i] = Colon <=> s[i] = Colon) /\ (t[i] = Dot <=> s[i] = Dot)
  BY <1>1, LowerFacts
<1> HIDE DEF n
<1>3. D = E
  BY <1>1, <1>2
<1>4. Max(D) \in 2..n
  <2>1. D \subseteq 1..n /\ D # {} /\ D \subseteq 2..n
    BY <1>1 DEF n
  <2> HIDE DEF D
  <2>2. Max(D) \in D
    BY <1>1, <2>1, MaxOf
  <2> QED
    BY <2>1, <2>2
<1>5. EndsWithOctets(t) <=> EndsWithOctets(s)
  <2>1. n >= 9 => \A i \in n - 3..n - 1 : i \in 1..n
    BY <1>1
  <2>2. n >= 9 => ((\E i \in n - 3..n - 1 : t[i] = Dot) <=> (\E i \in n - 3..n - 1 : s[i] = Dot))
    BY <1>2, <2>1
  <2> QED
    BY <1>1, <2>2, Zenon DEF EndsWithOctets, n
<1> QED
  BY <1>1, <1>3, <1>4, <1>5 DEF n

LEMMA Ipv6Alike ==
    ASSUME NEW s, NEW t, Alike(s, t), Ipv6(s)
    PROVE  Ipv6(t) /\ \A k \in 1..Len(s) : s[k] \in HEXDIG \cup {Colon, Dot}
<1> DEFINE n == Len(s)
           colon == Max({i \in 3..n : s[i] = Colon} \cup {2})
           colonT == Max({i \in 3..Len(t) : t[i] = Colon} \cup {2})
           octets == ReadOctets(From(s, colon + 1))
           octetsT == ReadOctets(From(t, colonT + 1))
<1>1. /\ s \in Seq(Chars) /\ t \in Seq(Chars) /\ Len(t) = n /\ n \in Nat
      /\ \A i \in 1..n : s[i] \in Chars /\ t[i] = ToLower(s[i])
  BY DEF Alike
<1>2. \A i \in 1..n : (t[i] = Colon <=> s[i] = Colon) /\ (t[i] \in HEXDIG <=> s[i] \in HEXDIG)
  BY <1>1, LowerFacts
<1>3. /\ n >= 2
      /\ \/ /\ s[n] = Colon /\ s[n - 1] = Colon
            /\ n = 2 \/ HexGroups(SubSeq(s, 1, n - 2), TRUE, FALSE)
         \/ /\ s[n] \in HEXDIG /\ ~EndsWithOctets(s)
            /\ n >= 3 /\ HexGroups(s, FALSE, FALSE)
         \/ /\ s[n] \in HEXDIG /\ EndsWithOctets(s)
            /\ octets.octet # NoOctet /\ octets.groups = 4
            /\ colon = 2 \/ octets.octet # <<5, 0>>
            /\ BeforeOctets(s, colon)
  BY Zenon DEF Ipv6
<1>4. (EndsWithOctets(t) <=> EndsWithOctets(s)) /\ colonT = colon /\ colon \in 2..n
  BY <1>3, OctetsEndAlike, ZenonT(60)
<1>5. n \in 1..n /\ n - 1 \in 1..n
  BY <1>1, <1>3
<1>6. /\ (t[n] = Colon <=> s[n] = Colon) /\ (t[n] \in HEXDIG <=> s[n] \in HEXDIG)
      /\ (t[n - 1] = Colon <=> s[n - 1] = Colon)
  BY <1>2, <1>5
<1> SUFFICES /\ \/ /\ t[n] = Colon /\ t[n - 1] = Colon
                   /\ n = 2 \/ HexGroups(SubSeq(t, 1, n - 2), TRUE, FALSE)
                \/ /\ t[n] \in HEXDIG /\ ~EndsWithOctets(t)
                   /\ n >= 3 /\ HexGroups(t, FALSE, FALSE)
                \/ /\ t[n] \in HEXDIG /\ EndsWithOctets(t)
                   /\ octetsT.octet # NoOctet /\ octetsT.groups = 4
                   /\ colonT = 2 \/ octetsT.octet # <<5, 0>>
                   /\ BeforeOctets(t, colonT)
             /\ \A k \in 1..n : s[k] \in HEXDIG \cup {Colon, Dot}
  BY <1>1, <1>3, Zenon DEF Ipv6
<1> HIDE DEF n, colon, colonT, octets, octetsT
<1>7. CASE /\ s[n] = Colon /\ s[n - 1] = Colon
           /\ n = 2 \/ HexGroups(SubSeq(s, 1, n - 2), TRUE, FALSE)
  <2>1. CASE n = 2
    <3>1. \A k \in 1..n : k = n \/ k = n - 1
      BY <2>1
    <3> QED
      BY <1>6, <1>7, <2>1, <3>1
  <2>2. CASE n # 2 /\ HexGroups(SubSeq(s, 1, n - 2), TRUE, FALSE)
    <3> DEFINE b == n - 2
               u == SubSeq(s, 1, b)
               v == SubSeq(t, 1, b)
    <3>1. b \in Nat /\ b <= Len(s) /\ 1 \in Nat \ {0}
      BY <1>1, <1>3 DEF n
    <3>2. Alike(u, v)
      <4> HIDE DEF b
      <4> QED
        BY <3>1, PartAlike
    <3>3. HexGroups(v, TRUE, FALSE) /\ \A k \in 1..Len(u) : u[k] \in HexColon
      <4>1. HexGroups(u, TRUE, FALSE)
        BY <2>2
      <4> HIDE DEF u, v
      <4> QED
        BY <3>2, <4>1, GroupsAlike
    <3>4. \A k \in 1..b : s[k] \in HexColon
      <4> HIDE DEF b
      <4> QED
        BY <1>1, <3>1, <3>3, InPart
    <3>5. \A k \in 1..n : k \in 1..b \/ k = n - 1 \/ k = n
      BY <1>1, <1>3
    <3> QED
      BY <1>6, <1>7, <3>3, <3>4, <3>5 DEF HexColon
  <2> QED
    BY <1>7, <2>1, <2>2
<1>8. CASE s[n] \in HEXDIG /\ ~EndsWithOctets(s) /\ n >= 3 /\ HexGroups(s, FALSE, FALSE)
  <2>1. HexGroups(t, FALSE, FALSE) /\ \A k \in 1..n : s[k] \in HexColon
    BY <1>8, GroupsAlike DEF n
  <2> QED
    BY <1>4, <1>6, <1>8, <2>1 DEF HexColon
<1>9. CASE /\ s[n] \in HEXDIG /\ EndsWithOctets(s)
           /\ octets.octet # NoOctet /\ octets.groups = 4
           /\ colon = 2 \/ octets.octet # <<5, 0>>
           /\ BeforeOctets(s, colon)
  <2>1. BeforeOctets(t, colon) /\ \A k \in 1..colon : s[k] \in HexColon
    BY <1>4, <1>9, OctetsBefore DEF n
  <2> DEFINE a == colon + 1
             u == SubSeq(s, a, n)
             v == SubSeq(t, a, n)
  <2>2. a \in Nat \ {0} /\ n <= Len(s)
    BY <1>1, <1>4 DEF n
  <2>3. Alike(u, v)
    <3> HIDE DEF a
    <3> QED
      BY <1>1, <2>2, PartAlike
  <2>4. octets = ReadOctets(u) /\ octetsT = ReadOctets(v)
    BY <1>1, <1>4, Zenon DEF octets, octetsT, From, n
  <2>5. octetsT = octets
    <3> HIDE DEF u, v
    <3> QED
      BY <2>3, <2>4, OctetsAlike
  <2>6. \A k \in 1..Len(u) : u[k] \in DIGIT \cup {Dot}
    <3>1. u \in Seq(Chars)
      BY <2>3 DEF Alike
    <3> HIDE DEF u
    <3> QED
      BY <1>9, <2>4, <3>1, OctetsTold
  <2>7. \A k \in a..n : s[k] \in DIGIT \cup {Dot}
    <3> HIDE DEF a
    <3> QED
      BY <1>1, <2>2, <2>6, InPart
  <2>8. \A k \in 1..n : k \in 1..colon \/ k \in a..n
    BY <1>1, <1>4
  <2>9. \A k \in 1..n : s[k] \in HEXDIG \cup {Colon, Dot}
    <3> HIDE DEF a
    <3> QED
      BY <2>1, <2>7, <2>8 DEF HexColon, HEXDIG
  <2> QED
    BY <1>4, <1>6, <1>9, <2>1, <2>5, <2>9
<1> QED
  BY <1>3, <1>7, <1>8, <1>9

\* An address that is accepted: its characters, and in lower case.
LEMMA LiteralAlike ==
    ASSUME NEW s, NEW t, Alike(s, t), AcceptsIpLiteral(s)
    PROVE  /\ AcceptsIpLiteral(t)
           /\ Len(s) >= 4 /\ s[1] = 91 /\ s[Len(s)] = 93
           /\ \A k \in 2..(Len(s) - 1) : s[k] \in LiteralClass
<1> DEFINE n == Len(s)
           b == n - 1
           u == SubSeq(s, 2, b)
           v == SubSeq(t, 2, b)
<1>1. /\ s \in Seq(Chars) /\ t \in Seq(Chars) /\ Len(t) = n /\ n \in Nat
      /\ \A i \in 1..n : s[i] \in Chars /\ t[i] = ToLower(s[i])
  BY DEF Alike
<1>2. /\ n >= 4 /\ s[1] = 91 /\ s[n] = 93
      /\ u[1] = 118 => IpvFuture(u)
      /\ u[1] # 118 => Ipv6(u)
  BY DEF AcceptsIpLiteral
<1>3. t[1] = 91 /\ t[n] = 93
  <2>1. 1 \in 1..n /\ n \in 1..n
    BY <1>1, <1>2
  <2> QED
    BY <1>1, <1>2, <2>1, LowerFacts
<1>4. 2 \in Nat \ {0} /\ b \in Nat /\ b <= Len(s)
  BY <1>1, <1>2
<1>5. Alike(u, v)
  <2> HIDE DEF n, b
  <2> QED
    BY <1>4, PartAlike
<1>6. u \in Seq(Chars) /\ Len(u) = b - 1 /\ 1 \in 1..Len(u) /\ v[1] = ToLower(u[1]) /\ u[1] \in Chars /\ u # <<>>
  <2>1. u \in Seq(Chars) /\ v[1] = IF 1 \in 1..Len(u) THEN ToLower(u[1]) ELSE v[1]
    BY <1>5 DEF Alike
  <2>2. Len(u) = b - 1
    BY <1>1, <1>2
  <2> HIDE DEF u, v
  <2>3. 1 \in 1..Len(u)
    BY <1>1, <1>2, <2>2
  <2> QED
    BY <2>1, <2>2, <2>3, EmptySeq
<1> HIDE DEF n, b, u, v
<1>7. \A k \in 1..Len(u) : u[k] \in LiteralClass
  <2>1. CASE u[1] = 118
    <3>1. v[1] = u[1]
      BY <1>6, <2>1 DEF ToLower
    <3> QED
      BY <1>2, <1>5, <1>6, <2>1, <3>1, FutureAlike
  <2>2. CASE u[1] # 118
    BY <1>2, <1>5, <2>2, Ipv6Alike, LiteralClassFacts
  <2> QED
    BY <2>1, <2>2
<1>8. IF v[1] = 118 THEN IpvFuture(v) ELSE Ipv6(v)
  <2>1. CASE u[1] = 118
    <3>1. v[1] = u[1]
      BY <1>6, <2>1 DEF ToLower
    <3> QED
      BY <1>2, <1>5, <1>6, <2>1, <3>1, FutureAlike
  <2>2. CASE u[1] # 118
    <3>1. Ipv6(v) /\ u[1] \in HEXDIG \cup {Colon, Dot}
      BY <1>2, <1>5, <1>6, <2>2, Ipv6Alike
    <3>2. v[1] # 118
      <4>1. \A x \in HEXDIG \cup {Colon, Dot} : ToLower(x) # 118
        BY DEF HEXDIG, DIGIT, Colon, Dot, ToLower
      <4> QED
        BY <1>6, <3>1, <4>1
    <3> QED
      BY <3>1, <3>2
  <2> QED
    BY <2>1, <2>2
<1>9. AcceptsIpLiteral(t)
  BY <1>1, <1>2, <1>3, <1>8, Zenon DEF AcceptsIpLiteral, v, b
<1>10. \A k \in 2..b : s[k] \in LiteralClass
  BY <1>1, <1>4, <1>7, InPart DEF u
<1> QED
  BY <1>2, <1>9, <1>10 DEF n, b

\* A text without escapes is decoded to itself, or to its lower case.
LEMMA LowerDecodes ==
    ASSUME NEW t \in Seq(Chars), \A i \in 1..Len(t) : t[i] # Percent /\ t[i] \notin WhiteSpace
    PROVE  PercentDecode(t, TRUE).ok /\ Alike(t, PercentDecode(t, TRUE).str)
<1> DEFINE f == TRUE
           Plain(u) == \A i \in 1..Len(u) : u[i] # Percent /\ u[i] \notin WhiteSpace
           Lowers(u) == \E o : Alike(u, o) /\ EndOfDecode(u, f) = Decoding(<<>>, o)
           T == {u \in Seq(Chars) : Plain(u) => Lowers(u)}
<1>1. <<>> \in T
  <2> DEFINE e == <<>>
  <2>1. e \in Seq(Chars) /\ Len(e) = 0
    OBVIOUS
  <2>2. EndOfDecode(e, f) = StartOfDecode
    BY DecodeEmpty, Zenon
  <2>3. StartOfDecode = Decoding(e, e)
    BY DEF StartOfDecode, Decoding
  <2>4. Alike(e, e)
    BY <2>1 DEF Alike
  <2>5. Lowers(e)
    BY <2>2, <2>3, <2>4, Zenon
  <2> HIDE DEF Lowers, Plain
  <2> QED
    BY <2>5
<1>2. ASSUME NEW u \in Seq(Chars), NEW c \in Chars, u \in T PROVE Append(u, c) \in T
  <2> DEFINE v == Append(u, c)
             n == Len(u)
  <2>1. v \in Seq(Chars) /\ Len(v) = n + 1 /\ v[n + 1] = c /\ \A i \in 1..n : v[i] = u[i]
    BY AppendProperties
  <2>2. n \in Nat
    OBVIOUS
  <2> HIDE DEF v, Lowers
  <2> SUFFICES ASSUME Plain(v) PROVE Lowers(v)
    BY <2>1 DEF v
  <2>3. Plain(u) /\ c # Percent /\ c \notin WhiteSpace
    <3>1. n + 1 \in 1..Len(v) /\ \A i \in 1..n : i \in 1..Len(v)
      BY <2>1, <2>2
    <3> QED
      BY <2>1, <3>1
  <2>4. PICK o : Alike(u, o) /\ EndOfDecode(u, f) = Decoding(<<>>, o)
    BY <1>2, <2>3, Zenon DEF Lowers
  <2> DEFINE low == ToLower(c)
             w == Append(o, low)
  <2>5. EndOfDecode(v, f) = DecodeNext(EndOfDecode(u, f), c, f)
    BY DecodeAppend, Zenon DEF v
  <2>6. DecodeNext(Decoding(<<>>, o), c, f) = Decoding(<<>>, Append(o, Lowered(c, f)))
    BY <2>3, DecodeCharacter, Zenon
  <2>7. Lowered(c, f) = low
    BY DEF Lowered
  <2>8. Alike(v, w)
    <3>1. o \in Seq(Chars) /\ Len(o) = n /\ \A i \in 1..n : o[i] = ToLower(u[i])
      BY <2>4 DEF Alike
    <3>2. low \in Chars
      BY LowerFacts
    <3>3. w \in Seq(Chars) /\ Len(w) = n + 1 /\ w[n + 1] = low /\ \A i \in 1..n : w[i] = o[i]
      BY <3>1, <3>2, AppendProperties
    <3> HIDE DEF w, n
    <3>4. \A i \in 1..(n + 1) : i \in 1..n \/ i = n + 1
      BY <2>2
    <3>5. \A i \in 1..(n + 1) : w[i] = ToLower(v[i])
      BY <2>1, <3>1, <3>3, <3>4
    <3> QED
      BY <2>1, <3>3, <3>5 DEF Alike
  <2> HIDE DEF low, w
  <2>9. EndOfDecode(v, f) = Decoding(<<>>, w)
    BY <2>4, <2>5, <2>6, <2>7, Zenon DEF w
  <2> QED
    BY <2>8, <2>9, Zenon DEF Lowers
<1> HIDE DEF T
<1>3. t \in T
  BY <1>1, <1>2, AppendInduction
<1> HIDE DEF Lowers
<1>4. Lowers(t)
  <2>1. Plain(t)
    OBVIOUS
  <2> HIDE DEF Plain
  <2> QED
    BY <1>3, <2>1, Zenon DEF T
<1> DEFINE end == EndOfDecode(t, f)
           d == PercentDecode(t, f)
<1>5. PICK o : Alike(t, o) /\ end = Decoding(<<>>, o)
  BY <1>4, Zenon DEF Lowers
<1>6. (d.ok <=> end.ok /\ end.escape = <<>>) /\ (d.ok => d.str = end.out)
  BY DecodedWhen, Zenon
<1> HIDE DEF end, d
<1>7. end.ok = TRUE /\ end.escape = <<>> /\ end.out = o
  BY <1>5 DEF Decoding
<1>8. d.ok /\ Alike(t, d.str)
  BY <1>5, <1>6, <1>7
<1> QED
  BY <1>8, Zenon DEF d, f

------------------------------------------------------------------------------
(* The steps of a parse *)

\* A field is given a value, and the others stay.
Sets(u, v, field, value) == v[field] = value /\ \A g \in Fields \ {field} : v[g] = u[g]

LEMMA DecodeSets ==
    ASSUME NEW p, IsParse(p), NEW field \in Fields, NEW piece, NEW tolower
    PROVE  LET q == Decode(p, field, piece, tolower)
               d == PercentDecode(piece, tolower)
           IN  /\ q.ok <=> p.ok /\ d.ok
               /\ q.at = p.at
               /\ Sets(p.uri, q.uri, field, p.uri[field] \o d.str)
<1> DEFINE d == PercentDecode(piece, tolower)
           q == Decode(p, field, piece, tolower)
<1>1. q = Stores(p, field, piece, d)
  BY Zenon DEF Decode
<1>2. d.ok \in BOOLEAN
  BY DecodedWhen, Zenon
<1> HIDE DEF d, q
<1>3. q.ok = (p.ok /\ d.ok) /\ q.at = p.at /\ q.uri = [p.uri EXCEPT ![field] = @ \o d.str]
  BY <1>1 DEF Stores, IsParse
<1>4. Sets(p.uri, q.uri, field, p.uri[field] \o d.str)
  BY <1>3 DEF Sets, IsParse, IsParts
<1> QED
  BY <1>3, <1>4 DEF d, q

LEMMA FailFails == ASSUME NEW p, IsParse(p), NEW e PROVE ~Fail(p, e).ok
  BY DEF IsParse, Fail

LEMMA UserinfoSets ==
    ASSUME NEW p, IsParse(p), NEW piece
    PROVE  LET q == ParseUserinfo(p, piece)
               d == PercentDecode(piece, FALSE)
           IN  /\ q.ok <=> p.ok /\ d.ok /\ ToSet(piece) \subseteq UserinfoClass
               /\ q.ok => q.at = p.at /\ Sets(p.uri, q.uri, "userinfo", p.uri.userinfo \o d.str)
<1> DEFINE r == Decode(p, "userinfo", piece, FALSE)
           q == ParseUserinfo(p, piece)
           e == Fail(p, "URI_USERINFO_SYM")
           fits == ToSet(piece) \subseteq UserinfoClass
           d == PercentDecode(piece, FALSE)
<1>1. /\ r.ok <=> p.ok /\ d.ok
      /\ r.at = p.at /\ Sets(p.uri, r.uri, "userinfo", p.uri.userinfo \o d.str)
  BY DecodeSets DEF Fields
<1>2. ~e.ok
  BY FailFails
<1>3. q = IF fits THEN r ELSE e
  BY Zenon DEF ParseUserinfo, UserinfoClass
<1> HIDE DEF r, q, e, fits, d
<1>4. (q.ok <=> p.ok /\ d.ok /\ fits) /\ (q.ok => q = r)
  BY <1>1, <1>2, <1>3
<1> QED
  BY <1>1, <1>4 DEF q, d, fits

HostClass == unreserved \cup sub_delims \cup {Percent}
IsLiteral(piece) == piece # <<>> /\ Head(piece) = 91

LEMMA HostSets ==
    ASSUME NEW p, IsParse(p), NEW piece
    PROVE  LET q == ParseHost(p, piece)
               d == PercentDecode(piece, TRUE)
           IN  /\ q.ok <=> /\ p.ok /\ d.ok
                           /\ IF IsLiteral(piece) THEN AcceptsIpLiteral(piece)
                              ELSE ToSet(piece) \subseteq HostClass
               /\ q.ok => q.at = p.at /\ Sets(p.uri, q.uri, "host", p.uri.host \o d.str)
<1> DEFINE r == Decode(p, "host", piece, TRUE)
           q == ParseHost(p, piece)
           e == Fail(p, "URI_HOST_SYM")
           l == Fail(p, "URI_INVL_IP_LIT")
           literal == IsLiteral(piece)
           accepts == AcceptsIpLiteral(piece)
           fits == ToSet(piece) \subseteq HostClass
           d == PercentDecode(piece, TRUE)
<1>1. /\ r.ok <=> p.ok /\ d.ok
      /\ r.at = p.at /\ Sets(p.uri, r.uri, "host", p.uri.host \o d.str)
  BY DecodeSets DEF Fields
<1>2. ~e.ok /\ ~l.ok
  BY FailFails
<1>3. q = CASE literal /\ ~accepts -> l
            [] ~literal /\ ~fits -> e
            [] OTHER -> r
  BY Zenon DEF ParseHost, HostClass, IsLiteral
<1> HIDE DEF r, q, e, l, fits, d, literal, accepts
<1>4. (q.ok <=> p.ok /\ d.ok /\ IF literal THEN accepts ELSE fits) /\ (q.ok => q = r)
  BY <1>1, <1>2, <1>3
<1> QED
  BY <1>1, <1>4 DEF q, d, fits, literal, accepts

LEMMA PortSets ==
    ASSUME NEW p, IsParse(p), NEW piece \in Seq(Chars)
    PROVE  LET q == ParsePort(p, piece)
           IN  /\ q.ok <=> p.ok /\ ToSet(piece) \subseteq DIGIT /\ Len(piece) <= 9
               /\ q.ok => /\ q.at = p.at
                          /\ Sets(p.uri, q.uri, "port", IF piece = <<>> THEN p.uri.port ELSE Number(piece))
<1> DEFINE q == ParsePort(p, piece)
           number == Number(piece)
           r == [p EXCEPT !.uri.port = number]
           e == Fail(p, "URI_PORT_SYM")
           l == Fail(p, "URI_PORT_LIMIT")
           digits == ToSet(piece) \subseteq DIGIT
           empty == piece = <<>>
           value == IF empty THEN p.uri.port ELSE number
<1>1. ~e.ok /\ ~l.ok
  BY FailFails
<1> HIDE DEF number
<1>2. r.ok = p.ok /\ r.at = p.at /\ r.uri = [p.uri EXCEPT !.port = number]
  BY DEF IsParse
<1> HIDE DEF r
<1>3. Sets(p.uri, r.uri, "port", number) /\ Sets(p.uri, p.uri, "port", p.uri.port)
  BY <1>2 DEF Sets, IsParse, IsParts, Fields
<1>4. Len(piece) \in Nat /\ (empty => Len(piece) = 0)
  OBVIOUS
<1>5. Len(piece) <= 9 <=> ~(Len(piece) > 9)
  BY <1>4
<1>6. \/ ~digits /\ q = e
      \/ digits /\ Len(piece) > 9 /\ q = l
      \/ digits /\ ~(Len(piece) > 9) /\ empty /\ q = p
      \/ digits /\ ~(Len(piece) > 9) /\ ~empty /\ q = r
  <2>1. empty => ~(Len(piece) > 9)
    BY <1>4
  <2> HIDE DEF e, l
  <2>2. CASE ~digits
    <3>1. ~empty
      BY <2>2 DEF ToSet
    <3>2. q = e
      BY <2>2, <3>1, Zenon DEF ParsePort, e
    <3> QED
      BY <2>2, <3>2
  <2>3. CASE digits /\ Len(piece) > 9
    BY <2>1, <2>3, Zenon DEF ParsePort, l
  <2>4. CASE digits /\ ~(Len(piece) > 9) /\ empty
    BY <2>4, Zenon DEF ParsePort
  <2>5. CASE digits /\ ~(Len(piece) > 9) /\ ~empty
    BY <2>5, Zenon DEF ParsePort, r, number
  <2> QED
    BY <2>2, <2>3, <2>4, <2>5
<1> HIDE DEF q, e, l, digits, empty
<1>7. (q.ok <=> p.ok /\ digits /\ Len(piece) <= 9) /\ (q.ok => q.at = p.at /\ Sets(p.uri, q.uri, "port", value))
  <2>1. empty => value = p.uri.port
    OBVIOUS
  <2>2. ~empty => value = number
    OBVIOUS
  <2> HIDE DEF value
  <2> QED
    BY <1>1, <1>2, <1>3, <1>5, <1>6, <2>1, <2>2
<1> QED
  BY <1>7 DEF q, digits, value, empty, number

\* The parts before the authority and the path are read.
SchemeOnly(u) ==
    /\ u.userinfo = <<>> /\ u.host = <<>> /\ u.path = <<>> /\ u.query = <<>> /\ u.fragment = <<>>
    /\ u.port = -1 /\ u.has_auth = FALSE

\* The pieces of an authority are taken, and what they make.
Takes(cut) ==
    /\ cut.errno = "SUCCESS"
    /\ PercentDecode(cut.userinfo, FALSE).ok /\ ToSet(cut.userinfo) \subseteq UserinfoClass
    /\ PercentDecode(cut.host, TRUE).ok
    /\ IF IsLiteral(cut.host) THEN AcceptsIpLiteral(cut.host) ELSE ToSet(cut.host) \subseteq HostClass
    /\ ToSet(cut.port) \subseteq DIGIT /\ Len(cut.port) <= 9

AuthorityOf(cut, u, v) ==
    /\ v.scheme = u.scheme /\ v.path = <<>> /\ v.query = <<>> /\ v.fragment = <<>>
    /\ v.has_auth = TRUE
    /\ v.userinfo = PercentDecode(cut.userinfo, FALSE).str
    /\ v.host = PercentDecode(cut.host, TRUE).str
    /\ v.port = IF cut.port = <<>> THEN -1 ELSE Number(cut.port)

LEMMA DecodedIsSeq ==
    ASSUME NEW t \in Seq(Chars), NEW tolower, PercentDecode(t, tolower).ok
    PROVE  /\ PercentDecode(t, tolower).str \in Seq(Chars)
           /\ <<>> \o PercentDecode(t, tolower).str = PercentDecode(t, tolower).str
<1> DEFINE d == PercentDecode(t, tolower).str
<1>1. d \in Seq(Chars)
  BY DecodedText, Zenon DEF PutsOut
<1> HIDE DEF d
<1>2. <<>> \o d = d
  BY <1>1, ConcatEmptySeq
<1> QED
  BY <1>1, <1>2 DEF d

LEMMA PiecesAre ==
    ASSUME NEW p, IsParse(p), SchemeOnly(p.uri), NEW cut, NEW end,
           cut.userinfo \in Seq(Chars), cut.host \in Seq(Chars), cut.port \in Seq(Chars)
    PROVE  LET q == ParsePieces(p, cut, end)
           IN  /\ q.ok <=> p.ok /\ Takes(cut)
               /\ q.ok => q.at = end /\ AuthorityOf(cut, p.uri, q.uri)
<1> DEFINE a == ParseUserinfo(p, cut.userinfo)
           b == ParseHost(a, cut.host)
           c == ParsePort(b, cut.port)
           t == TRUE
           q == [c EXCEPT !.at = end, !.uri.has_auth = t]
           d == PercentDecode(cut.userinfo, FALSE)
           e == PercentDecode(cut.host, TRUE)
           fits == /\ d.ok /\ ToSet(cut.userinfo) \subseteq UserinfoClass
                   /\ e.ok
                   /\ IF IsLiteral(cut.host) THEN AcceptsIpLiteral(cut.host)
                      ELSE ToSet(cut.host) \subseteq HostClass
                   /\ ToSet(cut.port) \subseteq DIGIT /\ Len(cut.port) <= 9
           port == IF cut.port = <<>> THEN -1 ELSE Number(cut.port)
<1>1. IsParse(a) /\ (a.ok <=> p.ok /\ d.ok /\ ToSet(cut.userinfo) \subseteq UserinfoClass)
      /\ (a.ok => Sets(p.uri, a.uri, "userinfo", p.uri.userinfo \o d.str))
  BY PieceIsParse, UserinfoSets
<1> HIDE DEF a
<1>2. IsParse(b)
      /\ (b.ok <=> /\ a.ok /\ e.ok
                   /\ IF IsLiteral(cut.host) THEN AcceptsIpLiteral(cut.host)
                      ELSE ToSet(cut.host) \subseteq HostClass)
      /\ (b.ok => Sets(a.uri, b.uri, "host", a.uri.host \o e.str))
  BY <1>1, PieceIsParse, HostSets
<1> HIDE DEF b
<1>3. IsParse(c)
      /\ (c.ok <=> b.ok /\ ToSet(cut.port) \subseteq DIGIT /\ Len(cut.port) <= 9)
      /\ (c.ok => Sets(b.uri, c.uri, "port", IF cut.port = <<>> THEN b.uri.port ELSE Number(cut.port)))
  BY <1>2, PieceIsParse, PortSets
<1> HIDE DEF c
<1>4. q.ok = c.ok /\ q.at = end /\ q.uri = [c.uri EXCEPT !.has_auth = t]
  BY <1>3 DEF IsParse
<1>5. Sets(c.uri, q.uri, "has_auth", t)
  BY <1>3, <1>4 DEF Sets, IsParse, IsParts, Fields
<1>6. q.ok <=> p.ok /\ fits
  BY <1>1, <1>2, <1>3, <1>4
<1>7. ASSUME q.ok PROVE AuthorityOf(cut, p.uri, q.uri)
  <2>1. a.ok /\ b.ok /\ c.ok /\ d.ok /\ e.ok
    BY <1>1, <1>2, <1>3, <1>4, <1>7
  <2>2. <<>> \o d.str = d.str /\ <<>> \o e.str = e.str
    BY <2>1, DecodedIsSeq
  <2> DEFINE u == p.uri
             v == q.uri
             ps == IF cut.port = <<>> THEN b.uri.port ELSE Number(cut.port)
  <2> HIDE DEF d, e, q
  <2>3. /\ Sets(u, a.uri, "userinfo", d.str) /\ Sets(a.uri, b.uri, "host", e.str)
        /\ Sets(b.uri, c.uri, "port", ps) /\ Sets(c.uri, v, "has_auth", t)
    <3>1. u.userinfo = <<>>
      BY DEF SchemeOnly
    <3>2. Sets(u, a.uri, "userinfo", d.str)
      BY <1>1, <2>1, <2>2, <3>1
    <3>3. a.uri.host = <<>>
      BY <3>2 DEF Sets, SchemeOnly, Fields
    <3> QED
      BY <1>2, <1>3, <1>5, <2>1, <2>2, <3>2, <3>3
  <2>4. b.uri.port = -1
    BY <2>3 DEF Sets, SchemeOnly, Fields
  <2>5. ps = port
    BY <2>4
  <2> HIDE DEF ps, port, t
  <2>6. /\ v.scheme = u.scheme /\ v.path = u.path /\ v.query = u.query /\ v.fragment = u.fragment
        /\ v.has_auth = t /\ v.userinfo = d.str /\ v.host = e.str /\ v.port = ps
    BY <2>3 DEF Sets, Fields
  <2> QED
    BY <2>5, <2>6 DEF AuthorityOf, SchemeOnly, d, e, port, t
<1> DEFINE r == ParsePieces(p, cut, end)
           f == Fail(p, cut.errno)
<1>8. ~f.ok
  BY FailFails
<1>9. r = IF cut.errno # "SUCCESS" THEN f ELSE q
  BY Zenon DEF ParsePieces, a, b, c
<1>10. Takes(cut) <=> cut.errno = "SUCCESS" /\ fits
  BY Zenon DEF Takes
<1> HIDE DEF r, f, q, fits
<1>11. /\ r.ok <=> p.ok /\ Takes(cut)
       /\ r.ok => r.at = end /\ AuthorityOf(cut, p.uri, r.uri)
  BY <1>4, <1>6, <1>7, <1>8, <1>9, <1>10
<1> QED
  BY <1>11 DEF r

------------------------------------------------------------------------------
(* The segments of a path *)

SegmentsClass == pchar \cup {Slash}
StartOf(text, from) == IF text[from] = Colon THEN from + 1 ELSE from
EndOfSegments(text, from) == EndOf(text, StartOf(text, from), SegmentsClass)

\* Slashes that the parser takes for an authority.
RepeatsSlash(text, from) ==
    \E i \in StartOf(text, from)..(EndOfSegments(text, from) - 1) :
        text[i] = Slash /\ (i = StartOf(text, from) \/ text[i - 1] = Slash)

LEMMA SegmentsAre ==
    ASSUME NEW p, IsParse(p), NEW text, NEW from
    PROVE  LET q == ParseSegments(p, text, from)
               end == EndOfSegments(text, from)
               d == PercentDecode(SubSeq(text, p.at, end - 1), FALSE)
           IN  /\ q.ok <=> p.ok /\ text[from] # Slash /\ ~RepeatsSlash(text, from) /\ d.ok
               /\ q.ok => q.at = end /\ Sets(p.uri, q.uri, "path", p.uri.path \o d.str)
<1> DEFINE q == ParseSegments(p, text, from)
           end == EndOfSegments(text, from)
           piece == SubSeq(text, p.at, end - 1)
           d == PercentDecode(piece, FALSE)
           r == Decode(p, "path", piece, FALSE)
           s == [r EXCEPT !.at = end]
           e == Fail(p, "URI_PATHDELIM")
           f == Fail(p, "URI_AUTHINPATH")
           rooted == text[from] = Slash
           repeats == RepeatsSlash(text, from)
<1>1. /\ IsParse(r) /\ (r.ok <=> p.ok /\ d.ok)
      /\ Sets(p.uri, r.uri, "path", p.uri.path \o d.str)
  BY DecodeIsParse, DecodeSets DEF Fields
<1>2. ~e.ok /\ ~f.ok
  BY FailFails
<1>3. q = CASE rooted -> e
            [] ~rooted /\ repeats -> f
            [] OTHER -> s
  BY Zenon DEF ParseSegments, RepeatsSlash, EndOfSegments, StartOf, SegmentsClass
<1> HIDE DEF q, r, e, f, rooted, repeats, end, d
<1>4. s.ok = r.ok /\ s.at = end /\ s.uri = r.uri
  BY <1>1 DEF IsParse
<1> HIDE DEF s
<1>5. /\ q.ok <=> p.ok /\ ~rooted /\ ~repeats /\ d.ok
      /\ q.ok => q.at = end /\ Sets(p.uri, q.uri, "path", p.uri.path \o d.str)
  BY <1>1, <1>2, <1>3, <1>4
<1> QED
  BY <1>5 DEF q, end, d, rooted, repeats

PathOk(path, root) ==
    /\ path \in Seq(Chars) /\ ~DoubleSlash(path)
    /\ root => path = <<>> \/ path[1] = Slash

LEMMA SegmentsClassFacts ==
    /\ Slash \in SegmentsClass /\ Colon \in SegmentsClass /\ SegmentsClass \cap WhiteSpace = {}
    /\ SegmentsClass \cap {Question, Hash} = {} /\ Slash \in Chars /\ Slash # Colon
    /\ pchar \subseteq SegmentsClass
  BY DEF SegmentsClass, pchar, unreserved, sub_delims, ALPHA, DIGIT, Slash, Colon, Dot, Percent,
         At, WhiteSpace, Question, Hash, Chars

\* The path that segments are decoded from: what stood before, and the piece.
LEMMA PieceOfPath ==
    ASSUME NEW text \in Seq(Chars), NEW at \in 1..Len(text), NEW from \in {at, at + 1},
           from = at + 1 => text[at] = Slash,
           text[from] # Slash, ~RepeatsSlash(text, from)
    PROVE  LET piece == SubSeq(text, at, EndOfSegments(text, from) - 1)
           IN  /\ EndOfSegments(text, from) \in Nat \ {0}
               /\ piece \in Seq(Chars) /\ ToSet(piece) \subseteq SegmentsClass
               /\ ~DoubleSlash(piece)
               /\ from = at => piece = <<>> \/ piece[1] # Slash
               /\ from = at + 1 => piece # <<>> /\ piece[1] = Slash
<1> DEFINE start == StartOf(text, from)
           end == EndOfSegments(text, from)
           n == Len(text)
           piece == SubSeq(text, at, end - 1)
<1>1. n \in Nat /\ at \in Nat \ {0} /\ at <= n /\ start \in {from, from + 1} /\ start \in Nat \ {0}
      /\ (start = from + 1 => text[from] = Colon)
  BY DEF StartOf
<1>2. /\ end \in 1..(n + 1)
      /\ \A i \in start..(end - 1) : i \in 1..n /\ text[i] \in SegmentsClass
      /\ end <= n => start <= end
  <2> HIDE DEF start
  <2>1. end = EndOf(text, start, SegmentsClass)
    BY DEF EndOfSegments, start
  <2> QED
    BY <1>1, <2>1, EndOfProperties
<1>3. /\ piece \in Seq(Chars) /\ Len(piece) = IF at <= end - 1 THEN end - 1 - at + 1 ELSE 0
      /\ \A i \in 1..(end - 1 - at + 1) : piece[i] = text[at + i - 1]
  <2>1. end - 1 \in Nat /\ end - 1 <= n
    BY <1>1, <1>2
  <2> HIDE DEF end
  <2> QED
    BY <1>1, <2>1, PieceOf
<1>4. ~\E i \in start..(end - 1) : text[i] = Slash /\ (i = start \/ text[i - 1] = Slash)
  BY DEF RepeatsSlash
<1> HIDE DEF start, end, piece
<1> DEFINE len == Len(piece)
<1>5. len \in Nat /\ (len # 0 => len = end - at) /\ \A i \in 1..len : piece[i] = text[at + i - 1]
  BY <1>1, <1>2, <1>3
<1> HIDE DEF len
<1>6. \A i \in 1..len : piece[i] \in SegmentsClass
  <2>1. SUFFICES ASSUME NEW i \in 1..len PROVE piece[i] \in SegmentsClass
    OBVIOUS
  <2>2. piece[i] = text[at + i - 1] /\ at + i - 1 <= end - 1 /\ at + i - 1 \in Nat
    BY <1>1, <1>2, <1>5
  <2>3. CASE at + i - 1 >= start
    BY <1>1, <1>2, <2>2, <2>3
  <2>4. CASE at + i - 1 < start
    <3>1. (at + i - 1 = at /\ from = at + 1) \/ (at + i - 1 = from /\ start = from + 1)
      BY <1>1, <2>4
    <3> QED
      BY <1>1, <2>2, <3>1, SegmentsClassFacts
  <2> QED
    BY <1>1, <2>2, <2>3, <2>4
<1>7. ~DoubleSlash(piece)
  <2>1. SUFFICES ASSUME NEW i \in 2..len, piece[i] = Slash, piece[i - 1] = Slash PROVE FALSE
    BY DEF DoubleSlash, len
  <2> DEFINE j == at + i - 1
  <2>2. i - 1 \in 1..len /\ i \in 1..len
    BY <1>5
  <2>3. piece[i] = text[j] /\ piece[i - 1] = text[at + (i - 1) - 1]
    BY <1>5, <2>2
  <2>4. at + (i - 1) - 1 = j - 1 /\ j \in Nat /\ j > at /\ j <= end - 1
    BY <1>1, <1>2, <1>5
  <2>5. text[j] = Slash /\ text[j - 1] = Slash
    BY <2>1, <2>3, <2>4
  <2> HIDE DEF j
  <2>6. j # from /\ j - 1 # from
    BY <2>5
  <2>7. j >= start
    BY <1>1, <2>4, <2>6
  <2>8. j \in start..(end - 1)
    BY <1>1, <1>2, <2>4, <2>7
  <2> QED
    BY <1>4, <2>5, <2>8
<1>8. ToSet(piece) \subseteq SegmentsClass
  <2>1. DOMAIN piece = 1..len
    BY <1>3 DEF len
  <2> QED
    BY <1>6, <2>1 DEF ToSet
<1>9. from = at => piece = <<>> \/ piece[1] # Slash
  <2>1. SUFFICES ASSUME from = at, piece # <<>> PROVE piece[1] # Slash
    OBVIOUS
  <2>2. 1 \in 1..len
    BY <1>3, <1>5, <2>1, EmptySeq DEF len
  <2>3. piece[1] = text[at + 1 - 1] /\ at + 1 - 1 = at
    BY <1>1, <1>5, <2>2
  <2> QED
    BY <2>1, <2>3
<1>10. from = at + 1 => piece # <<>> /\ piece[1] = Slash
  <2>1. SUFFICES ASSUME from = at + 1 PROVE piece # <<>> /\ piece[1] = Slash
    OBVIOUS
  <2>2. end - 1 >= at
    BY <1>1, <1>2, <2>1
  <2>3. len # 0 /\ len \in Nat /\ 1 \in 1..len
    BY <1>1, <1>2, <1>3, <2>2 DEF len
  <2>4. piece[1] = text[at + 1 - 1] /\ at + 1 - 1 = at
    BY <1>1, <1>5, <2>3
  <2> QED
    BY <2>1, <2>3, <2>4 DEF len
<1> QED
  BY <1>2, <1>3, <1>7, <1>8, <1>9, <1>10 DEF piece, end

\* What a parse makes of the segments, where what stood before is "/" or nothing.
LEMMA SegmentsMake ==
    ASSUME NEW p, IsParse(p), NEW text \in Seq(Chars), p.at \in 1..Len(text), NEW from \in {p.at, p.at + 1},
           from = p.at + 1 => text[p.at] = Slash,
           p.uri.path \in {<<>>, <<Slash>>}, from = p.at + 1 => p.uri.path = <<>>,
           ParseSegments(p, text, from).ok
    PROVE  LET q == ParseSegments(p, text, from)
           IN  /\ p.ok /\ q.at \in Nat \ {0}
               /\ Sets(p.uri, q.uri, "path", q.uri.path)
               /\ PathOk(q.uri.path, from = p.at + 1)
<1> DEFINE q == ParseSegments(p, text, from)
           at == p.at
           end == EndOfSegments(text, from)
           piece == SubSeq(text, at, end - 1)
           d == PercentDecode(piece, FALSE)
           before == p.uri.path
           slash == <<Slash>>
           whole == before \o piece
           e == PercentDecode(whole, FALSE)
<1>1. /\ p.ok /\ text[from] # Slash /\ ~RepeatsSlash(text, from) /\ d.ok
      /\ q.at = end /\ Sets(p.uri, q.uri, "path", before \o d.str)
  <2>1. /\ q.ok <=> p.ok /\ text[from] # Slash /\ ~RepeatsSlash(text, from) /\ d.ok
        /\ q.ok => q.at = end /\ Sets(p.uri, q.uri, "path", before \o d.str)
    BY SegmentsAre, Zenon
  <2>2. q.ok
    OBVIOUS
  <2> HIDE DEF q, d, end
  <2> QED
    BY <2>1, <2>2
<1>2. /\ end \in Nat \ {0}
      /\ piece \in Seq(Chars) /\ ToSet(piece) \subseteq SegmentsClass
      /\ ~DoubleSlash(piece)
      /\ from = at => piece = <<>> \/ piece[1] # Slash
      /\ from = at + 1 => piece # <<>> /\ piece[1] = Slash
  <2> HIDE DEF at
  <2>1. at \in 1..Len(text) /\ from \in {at, at + 1} /\ (from = at + 1 => text[at] = Slash)
    BY DEF at
  <2> QED
    BY <1>1, <2>1, PieceOfPath, SMTT(60)
<1>3. slash \in Seq(Chars) /\ Len(slash) = 1 /\ slash[1] = Slash /\ ToSet(slash) = {Slash}
  BY SegmentsClassFacts DEF ToSet
<1> HIDE DEF q, end, piece
<1>4. slash \o piece \in Seq(Chars) /\ (slash \o piece)[1] = Slash /\ slash \o piece # <<>>
      /\ ToSet(slash \o piece) = {Slash} \cup ToSet(piece)
      /\ (from = at => ~DoubleSlash(slash \o piece))
  <2> DEFINE w == slash \o piece
             n == Len(piece)
  <2>1. /\ w \in Seq(Chars) /\ n \in Nat /\ Len(w) = 1 + n
        /\ \A i \in 1..(1 + n) : w[i] = IF i <= 1 THEN slash[i] ELSE piece[i - 1]
    BY <1>2, <1>3, ConcatProperties
  <2>2. ToSet(w) = {Slash} \cup ToSet(piece)
    <3> HIDE DEF slash
    <3> QED
      BY <1>2, <1>3, ToSetConcat
  <2> HIDE DEF w, slash
  <2>3. w[1] = Slash /\ w # <<>>
    BY <1>3, <2>1
  <2>4. ASSUME from = at, NEW i \in 2..Len(w), w[i] = Slash, w[i - 1] = Slash PROVE FALSE
    <3>1. i \in 2..(1 + n) /\ w[i] = piece[i - 1]
      BY <2>1, <2>4
    <3>2. CASE i = 2
      <4>1. piece[1] = Slash /\ piece # <<>>
        BY <2>1, <2>4, <3>1, <3>2
      <4> QED
        BY <1>2, <2>4, <4>1
    <3>3. CASE i # 2
      <4>1. i - 1 \in 2..n /\ w[i - 1] = piece[(i - 1) - 1]
        BY <2>1, <2>4, <3>1, <3>3
      <4> QED
        BY <1>2, <2>4, <3>1, <4>1 DEF DoubleSlash
    <3> QED
      BY <3>2, <3>3
  <2> QED
    BY <2>1, <2>2, <2>3, <2>4 DEF w, DoubleSlash
<1>5. /\ whole \in Seq(Chars) /\ e.ok /\ e.str = before \o d.str /\ ~DoubleSlash(whole)
      /\ ToSet(whole) \subseteq SegmentsClass
      /\ before = <<>> => whole = piece
  <2>1. CASE before = <<>>
    <3>1. whole = piece
      BY <1>2, <2>1, ConcatEmptySeq
    <3>2. <<>> \o d.str = d.str
      BY <1>1, <1>2, DecodedIsSeq
    <3>3. e = d
      BY <3>1
    <3> QED
      BY <1>1, <1>2, <2>1, <3>1, <3>2, <3>3
  <2>2. CASE before = slash
    <3>1. from = at
      BY <2>2
    <3>2. e.ok /\ e.str = slash \o d.str
      BY <1>1, <1>2, <2>2, SlashDecodes
    <3>3. slash # <<>>
      BY <1>3
    <3> HIDE DEF e
    <3> QED
      BY <1>2, <1>4, <2>2, <3>1, <3>2, <3>3, SegmentsClassFacts
  <2> QED
    BY <2>1, <2>2
<1> DEFINE path == q.uri.path
<1>6. path = e.str /\ Sets(p.uri, q.uri, "path", path)
  BY <1>1, <1>5 DEF Sets
<1>7. path \in Seq(Chars) /\ ~DoubleSlash(path)
  <2> DEFINE f == FALSE
  <2>1. PutsOut(whole, e.str, f)
    BY <1>5, DecodedText
  <2>2. NoSpace(whole)
    BY <1>5, SegmentsClassFacts DEF NoSpace
  <2> QED
    BY <1>5, <1>6, <2>1, <2>2, Zenon DEF PutsOut
<1>8. ASSUME from = at + 1 PROVE path[1] = Slash
  <2> DEFINE rest == SubSeq(piece, 2, Len(piece))
  <2>1. whole = piece /\ piece = slash \o rest /\ rest \in Seq(Chars)
    <3>1. before = <<>> /\ piece[1] = Slash /\ piece # <<>>
      BY <1>2, <1>8
    <3>2. Len(piece) \in Nat /\ Len(piece) # 0
      BY <1>2, <3>1, EmptySeq
    <3>3. rest \in Seq(Chars) /\ Len(rest) = Len(piece) - 1 /\ \A i \in 1..(Len(piece) - 1) : rest[i] = piece[2 + i - 1]
      <4>1. Len(piece) <= Len(piece) /\ 2 \in Nat \ {0} /\ Len(piece) - 2 + 1 = Len(piece) - 1
        BY <3>2
      <4>2. 2 <= Len(piece) \/ Len(piece) - 1 = 0
        <5> DEFINE k == Len(piece)
        <5> HIDE DEF k
        <5>1. k \in Nat /\ k # 0 => 2 <= k \/ k - 1 = 0
          OBVIOUS
        <5> QED
          BY <3>2, <5>1 DEF k
      <4> QED
        BY <1>2, <3>2, <4>1, <4>2, PieceOf
    <3> HIDE DEF rest
    <3>4. /\ slash \o rest \in Seq(Chars) /\ Len(slash \o rest) = 1 + Len(rest)
          /\ \A i \in 1..(1 + Len(rest)) : (slash \o rest)[i] = IF i <= 1 THEN slash[i] ELSE rest[i - 1]
      BY <1>3, <3>3, ConcatProperties
    <3> HIDE DEF slash
    <3>5. \A i \in 1..Len(piece) : (slash \o rest)[i] = piece[i]
      BY <1>3, <3>1, <3>2, <3>3, <3>4
    <3>6. piece = slash \o rest
      BY <1>2, <3>2, <3>3, <3>4, <3>5, SeqEqual
    <3> QED
      BY <1>5, <3>1, <3>3, <3>6
  <2> HIDE DEF rest
  <2>2. PercentDecode(slash \o rest, FALSE).ok
    BY <1>5, <2>1
  <2>3. PercentDecode(rest, FALSE).ok
        /\ PercentDecode(slash \o rest, FALSE).str = slash \o PercentDecode(rest, FALSE).str
    BY <2>1, <2>2, SlashDecodes
  <2>4. PercentDecode(rest, FALSE).str \in Seq(Chars)
    BY <2>1, <2>3, DecodedIsSeq
  <2> DEFINE s == PercentDecode(rest, FALSE).str
  <2>5. path = slash \o s
    BY <1>6, <2>1, <2>3
  <2> HIDE DEF s
  <2>6. s \in Seq(Chars)
    BY <2>4 DEF s
  <2>7. (slash \o s)[1] = Slash
    BY <1>3, <2>6
  <2> QED
    BY <2>5, <2>7
<1>9. PathOk(path, from = at + 1)
  <2> DEFINE root == from = at + 1
  <2>1. root => path[1] = Slash
    BY <1>8
  <2> HIDE DEF root, path
  <2>2. PathOk(path, root)
    BY <1>7, <2>1 DEF PathOk
  <2> QED
    BY <2>2 DEF root
<1> QED
  BY <1>1, <1>2, <1>6, <1>9 DEF q

------------------------------------------------------------------------------
(* The parts of a text that is accepted *)

(* What the parts of a text that is accepted are like. *)
SchemeClass == ALPHA \cup DIGIT \cup {43, 45, Dot}
SchemeOk(t) == t \in Seq(Chars) /\ t # <<>> /\ t[1] \in ALPHA /\ ToSet(t) \subseteq SchemeClass
DecodedOk(t) == t \in Seq(Chars) /\ (NoSpace(t) => DecodesToItself(t, FALSE))
UserinfoOk(t) == DecodedOk(t) /\ ToSet(t) \cap gen_delims \subseteq {Colon}
LiteralOk(t) == AcceptsIpLiteral(t) /\ Len(t) >= 4 /\ t[1] = 91 /\ t[Len(t)] = 93
                /\ \A k \in 2..(Len(t) - 1) : t[k] \in LiteralClass
HostOk(t) == t \in Seq(Chars) /\ (LiteralOk(t) \/ ToSet(t) \cap gen_delims = {})
Printed(n) == \E t \in Seq(DIGIT) : t # <<>> /\ Len(t) <= 9 /\ n = Number(t)

AuthorityOk(u) ==
    /\ UserinfoOk(u.userinfo) /\ HostOk(u.host)
    /\ u.port = -1 \/ Printed(u.port)
    /\ u.has_auth \in BOOLEAN
    /\ ~u.has_auth => u.userinfo = <<>> /\ u.host = <<>> /\ u.port = -1

LEMMA PieceIs ==
    ASSUME NEW text \in Seq(Chars), NEW m \in Nat \ {0}, NEW n \in Int, n <= Len(text)
    PROVE  SubSeq(text, m, n) \in Seq(Chars)
<1>1. \A i \in m..n : text[i] \in Chars
  OBVIOUS
<1> QED
  BY <1>1, SubSeqProperties

LEMMA LastProperties ==
    ASSUME NEW text \in Seq(Chars), NEW c
    PROVE  LET last == Max(Places(text, c) \cup {0})
           IN  \/ last = 0 /\ \A i \in 1..Len(text) : text[i] # c
               \/ /\ last \in 1..Len(text) /\ text[last] = c
                  /\ \A i \in (last + 1)..Len(text) : text[i] # c
<1> DEFINE P == Places(text, c)
           n == Len(text)
           T == P \cup {0}
           Greatest(k) == k \in T /\ \A m \in T : k >= m
<1>1. P = {i \in 1..n : text[i] = c} /\ n \in Nat
  BY DEF Places
<1> HIDE DEF P
<1>2. \E k : Greatest(k)
  <2>1. CASE P = {}
    <3>1. Greatest(0)
      BY <2>1
    <3> QED
      BY <3>1
  <2>2. CASE P # {}
    <3>1. PICK k \in P : \A j \in P : j <= k
      BY <1>1, <2>2, GreatestOf
    <3>2. Greatest(k)
      BY <1>1, <3>1
    <3> QED
      BY <3>2
  <2> QED
    BY <2>1, <2>2
<1> DEFINE last == Max(T)
<1>3. last = CHOOSE k : Greatest(k)
  BY DEF Max
<1>4. Greatest(last)
  BY <1>2, <1>3, Zenon
<1> HIDE DEF last
<1>5. CASE last = 0
  <2>1. \A i \in 1..n : text[i] # c
    BY <1>1, <1>4, <1>5
  <2> QED
    BY <1>5, <2>1 DEF last, T, P
<1>6. CASE last # 0
  <2>1. last \in 1..n /\ text[last] = c
    BY <1>1, <1>4, <1>6
  <2>2. \A i \in (last + 1)..n : text[i] # c
    BY <1>1, <1>4, <2>1
  <2> QED
    BY <2>1, <2>2 DEF last, T, P
<1> QED
  BY <1>5, <1>6

LEMMA PlacesFacts ==
    ASSUME NEW auth \in Seq(Chars), NEW c
    PROVE  /\ Len(auth) \in Nat
           /\ First(Places(auth, c)) \in 0..Len(auth)
           /\ Max(Places(auth, c) \cup {0}) \in 0..Len(auth)
<1> DEFINE n == Len(auth)
           first == First(Places(auth, c))
           last == Max(Places(auth, c) \cup {0})
<1>1. n \in Nat
  OBVIOUS
<1>2. (first = 0 \/ first \in 1..n) /\ (last = 0 \/ last \in 1..n)
  BY FirstProperties, LastProperties, Zenon
<1> HIDE DEF n, first, last
<1>3. n \in Nat /\ first \in 0..n /\ last \in 0..n
  BY <1>1, <1>2
<1> QED
  BY <1>3 DEF n, first, last

LEMMA CutPieces ==
    ASSUME NEW auth \in Seq(Chars)
    PROVE  /\ Cut(auth).userinfo \in Seq(Chars)
           /\ Cut(auth).host \in Seq(Chars)
           /\ Cut(auth).port \in Seq(Chars)
<1> DEFINE at == First(Places(auth, At))
           open == First(Places(auth, 91))
           close == First(Places(auth, 93))
           colon == Max(Places(auth, Colon) \cup {0})
           n == Len(auth)
           cut == CutAt(auth, at, open, close, colon)
           has_port == (open > 0 /\ colon > close) \/ (open = 0 /\ colon > at)
<1>1. at \in 0..n /\ open \in 0..n /\ close \in 0..n /\ colon \in 0..n /\ n \in Nat
  BY PlacesFacts
<1> HIDE DEF at, open, close, colon
<1>2. /\ cut.userinfo = SubSeq(auth, 1, at - 1)
      /\ cut.host = CASE open > 0 -> SubSeq(auth, open, close)
                      [] open = 0 /\ has_port -> SubSeq(auth, at + 1, colon - 1)
                      [] OTHER -> From(auth, at + 1)
      /\ cut.port = IF has_port THEN From(auth, colon + 1) ELSE <<>>
  BY Zenon DEF CutAt
<1>3. Cut(auth) = cut
  BY DEF Cut, at, open, close, colon
<1> HIDE DEF cut
<1>4. cut.userinfo \in Seq(Chars)
  BY <1>1, <1>2, PieceIs
<1>5. /\ open > 0 => SubSeq(auth, open, close) \in Seq(Chars)
      /\ SubSeq(auth, at + 1, colon - 1) \in Seq(Chars)
      /\ From(auth, at + 1) \in Seq(Chars)
      /\ From(auth, colon + 1) \in Seq(Chars)
  <2>1. open > 0 => SubSeq(auth, open, close) \in Seq(Chars)
    BY <1>1, PieceIs
  <2>2. at + 1 \in Nat \ {0} /\ colon + 1 \in Nat \ {0} /\ colon - 1 \in Int /\ colon - 1 <= n /\ n <= n
        /\ n \in Int
    BY <1>1
  <2> QED
    BY <2>1, <2>2, PieceIs DEF From
<1> HIDE DEF has_port, n
<1>6. \/ open > 0 /\ cut.host = SubSeq(auth, open, close)
      \/ cut.host = SubSeq(auth, at + 1, colon - 1)
      \/ cut.host = From(auth, at + 1)
  BY <1>2, Zenon
<1>7. cut.host \in Seq(Chars) /\ cut.port \in Seq(Chars)
  BY <1>2, <1>5, <1>6
<1> QED
  BY <1>3, <1>4, <1>7

LEMMA EmptyOk ==
    /\ UserinfoOk(<<>>) /\ HostOk(<<>>) /\ DecodedOk(<<>>)
<1> DEFINE e == <<>>
           f == FALSE
<1>1. e \in Seq(Chars) /\ ToSet(e) = {}
  BY DEF ToSet
<1>2. EndOfDecode(e, f) = StartOfDecode
  BY DecodeEmpty
<1>3. StartOfDecode = Decoding(e, e)
  BY DEF StartOfDecode, Decoding
<1>4. DecodesToItself(e, f)
  BY <1>2, <1>3, ItselfWhen, Zenon
<1> HIDE DEF e
<1>5. UserinfoOk(e) /\ HostOk(e) /\ DecodedOk(e)
  BY <1>1, <1>4 DEF UserinfoOk, HostOk, DecodedOk, f
<1> QED
  BY <1>5 DEF e

\* What a text is decoded to.
LEMMA DecodedIsOk ==
    ASSUME NEW t \in Seq(Chars), PercentDecode(t, FALSE).ok
    PROVE  /\ DecodedOk(PercentDecode(t, FALSE).str)
           /\ ToSet(PercentDecode(t, FALSE).str) \cap reserved \subseteq ToSet(t)
<1> DEFINE f == FALSE
           d == PercentDecode(t, f).str
<1>1. PutsOut(t, d, f)
  BY DecodedText
<1>2. NoSpace(d) => DecodesToItself(d, f)
  BY DecodedIsDecoded
<1> HIDE DEF d
<1>3. DecodedOk(d) /\ ToSet(d) \cap reserved \subseteq ToSet(t)
  BY <1>1, <1>2 DEF PutsOut, DecodedOk, f
<1> QED
  BY <1>3 DEF d, f

LEMMA DelimFacts ==
    /\ gen_delims \subseteq reserved /\ Colon \in gen_delims
    /\ UserinfoClass \cap gen_delims = {Colon} /\ HostClass \cap gen_delims = {}
    /\ 91 \in gen_delims /\ DIGIT \subseteq Chars
  BY DEF gen_delims, reserved, UserinfoClass, HostClass, unreserved, sub_delims, ALPHA, DIGIT,
         Hash, Slash, Colon, Question, At, Percent, Dot, Chars

\* What is made of the pieces that are taken.
LEMMA TakenIsOk ==
    ASSUME NEW cut, Takes(cut), NEW u, NEW v, AuthorityOf(cut, u, v),
           cut.userinfo \in Seq(Chars), cut.host \in Seq(Chars), cut.port \in Seq(Chars)
    PROVE  AuthorityOk(v)
<1>1. UserinfoOk(v.userinfo)
  <2> DEFINE d == PercentDecode(cut.userinfo, FALSE)
  <2>1. d.ok /\ ToSet(cut.userinfo) \subseteq UserinfoClass /\ v.userinfo = d.str
    BY DEF Takes, AuthorityOf
  <2>2. DecodedOk(d.str) /\ ToSet(d.str) \cap reserved \subseteq ToSet(cut.userinfo)
    BY <2>1, DecodedIsOk
  <2> HIDE DEF d
  <2> QED
    BY <2>1, <2>2, DelimFacts DEF UserinfoOk
<1>2. HostOk(v.host)
  <2> DEFINE piece == cut.host
             d == PercentDecode(piece, TRUE)
             t == TRUE
  <2>1. /\ d.ok /\ v.host = d.str /\ piece \in Seq(Chars)
        /\ IF IsLiteral(piece) THEN AcceptsIpLiteral(piece) ELSE ToSet(piece) \subseteq HostClass
    BY DEF Takes, AuthorityOf
  <2>2. PutsOut(piece, d.str, t)
    BY <2>1, DecodedText
  <2>3. d.str \in Seq(Chars) /\ ToSet(d.str) \cap reserved \subseteq ToSet(piece)
    BY <2>2 DEF PutsOut
  <2> HIDE DEF piece, d
  <2>4. CASE ~IsLiteral(piece)
    BY <2>1, <2>3, <2>4, DelimFacts DEF HostOk
  <2>5. CASE IsLiteral(piece)
    <3> DEFINE n == Len(piece)
    <3>1. AcceptsIpLiteral(piece)
      BY <2>1, <2>5
    <3>2. \A c \in Chars : c \in LiteralClass => ToLower(c) \in LiteralClass
      BY LowerFacts, Zenon DEF LiteralClass
    <3>3. Alike(piece, [i \in 1..n |-> ToLower(piece[i])])
      <4>1. \A i \in 1..n : ToLower(piece[i]) \in Chars
        BY <2>1, LowerFacts
      <4> QED
        BY <2>1, <4>1 DEF Alike
    <3>4. /\ n >= 4 /\ piece[1] = 91 /\ piece[n] = 93
          /\ \A k \in 2..(n - 1) : piece[k] \in LiteralClass
      <4> DEFINE s == [i \in 1..n |-> ToLower(piece[i])]
      <4>1. Alike(piece, s)
        BY <3>3
      <4> HIDE DEF s
      <4> QED
        BY <3>1, <4>1, LiteralAlike
    <3>5. \A i \in 1..n : piece[i] # Percent /\ piece[i] \notin WhiteSpace
      <4>1. SUFFICES ASSUME NEW i \in 1..n PROVE piece[i] # Percent /\ piece[i] \notin WhiteSpace
        OBVIOUS
      <4>2. i = 1 \/ i = n \/ i \in 2..(n - 1)
        BY <2>1
      <4>3. Percent \notin {91, 93} /\ WhiteSpace \cap {91, 93} = {}
        BY DEF Percent, WhiteSpace
      <4> QED
        BY <3>4, <4>2, <4>3, LiteralClassFacts
    <3>6. Alike(piece, d.str)
      BY <2>1, <3>5, LowerDecodes DEF d
    <3> DEFINE host == d.str
    <3> HIDE DEF host, n
    <3>7. Alike(piece, host) /\ Len(host) = n /\ n \in Nat /\ \A i \in 1..n : host[i] = ToLower(piece[i])
      BY <2>1, <3>6 DEF host, Alike, n
    <3>8. AcceptsIpLiteral(host)
      BY <3>1, <3>7, LiteralAlike
    <3>9. host[1] = 91 /\ host[n] = 93
      <4>1. ToLower(91) = 91 /\ ToLower(93) = 93
        BY DEF ToLower
      <4>2. 1 \in 1..n /\ n \in 1..n
        BY <3>4, <3>7
      <4> QED
        BY <3>4, <3>7, <4>1, <4>2
    <3>10. \A k \in 2..(n - 1) : host[k] \in LiteralClass
      <4>1. SUFFICES ASSUME NEW k \in 2..(n - 1) PROVE host[k] \in LiteralClass
        OBVIOUS
      <4>2. k \in 1..n /\ piece[k] \in LiteralClass
        BY <3>4, <3>7
      <4>3. piece[k] \in Chars
        BY <2>1, <4>2 DEF n
      <4> QED
        BY <3>2, <3>7, <4>2, <4>3
    <3>11. LiteralOk(host)
      BY <3>4, <3>7, <3>8, <3>9, <3>10 DEF LiteralOk
    <3> QED
      BY <2>1, <2>3, <3>11 DEF HostOk, host
  <2> QED
    BY <2>4, <2>5
<1>3. v.port = -1 \/ Printed(v.port)
  <2>1. CASE cut.port = <<>>
    BY <2>1 DEF AuthorityOf
  <2>2. CASE cut.port # <<>>
    <3> DEFINE t == cut.port
    <3>1. t \in Seq(DIGIT)
      <4>1. ToSet(t) \subseteq DIGIT /\ t \in Seq(Chars)
        BY DEF Takes
      <4>2. \A i \in 1..Len(t) : t[i] \in DIGIT
        BY <4>1 DEF ToSet
      <4> HIDE DEF t
      <4> QED
        BY <4>1, <4>2
    <3>2. t # <<>> /\ Len(t) <= 9 /\ v.port = Number(t)
      BY <2>2, Zenon DEF Takes, AuthorityOf
    <3> HIDE DEF t
    <3> QED
      BY <3>1, <3>2, Zenon DEF Printed
  <2> QED
    BY <2>1, <2>2
<1>4. v.has_auth = TRUE
  BY DEF AuthorityOf
<1> QED
  BY <1>1, <1>2, <1>3, <1>4 DEF AuthorityOk

LEMMA ShortPathsOk == \A root \in BOOLEAN : PathOk(<<>>, root) /\ PathOk(<<Slash>>, root)
<1> DEFINE e == <<>>
           s == <<Slash>>
<1>1. e \in Seq(Chars) /\ s \in Seq(Chars) /\ s[1] = Slash /\ Len(e) = 0 /\ Len(s) = 1
  BY SegmentsClassFacts
<1> HIDE DEF s
<1>2. ~DoubleSlash(e) /\ ~DoubleSlash(s)
  BY <1>1 DEF DoubleSlash
<1>3. \A root \in BOOLEAN : PathOk(e, root) /\ PathOk(s, root)
  BY <1>1, <1>2 DEF PathOk
<1> QED
  BY <1>3 DEF s

LEMMA PathMakes ==
    ASSUME NEW p, IsParse(p), NEW text \in Seq(Chars), p.at \in Nat \ {0}, NEW root \in BOOLEAN,
           p.uri.path \in {<<>>, <<Slash>>}, root => p.uri.path = <<>>,
           ParsePath(p, text, root).ok
    PROVE  LET q == ParsePath(p, text, root)
           IN  /\ p.ok /\ q.at \in Nat \ {0}
               /\ Sets(p.uri, q.uri, "path", q.uri.path)
               /\ PathOk(q.uri.path, root)
<1> DEFINE q == ParsePath(p, text, root)
           at == p.at
           from == IF root THEN at + 1 ELSE at
           slash == <<Slash>>
           ends == at > Len(text) \/ (root /\ text[at] \in {Question, Hash})
           whole == [p EXCEPT !.at = at + 1, !.uri.path = slash]
           e == Fail(p, "URI_PATHABEMPTY")
           segments == ParseSegments(p, text, from)
           Good(r) == /\ p.ok /\ r.at \in Nat \ {0}
                      /\ Sets(p.uri, r.uri, "path", r.uri.path)
                      /\ PathOk(r.uri.path, root)
<1>1. \/ ends /\ q = p
      \/ ~ends /\ q = e
      \/ ~ends /\ q = whole
      \/ ~ends /\ (root => text[at] = Slash) /\ q = segments
  BY Zenon DEF ParsePath
<1>2. ~e.ok
  BY FailFails
<1> SUFFICES Good(q)
  OBVIOUS
<1>3. q.ok
  OBVIOUS
<1> HIDE DEF q, e
<1>4. CASE q = p
  <2>1. PathOk(p.uri.path, root)
    BY ShortPathsOk
  <2>2. Sets(p.uri, p.uri, "path", p.uri.path)
    BY DEF Sets
  <2> QED
    BY <1>3, <1>4, <2>1, <2>2
<1>5. CASE q = whole
  <2>1. whole.ok = p.ok /\ whole.at = at + 1 /\ whole.uri = [p.uri EXCEPT !.path = slash]
    BY DEF IsParse
  <2> HIDE DEF whole
  <2>2. Sets(p.uri, whole.uri, "path", slash) /\ whole.uri.path = slash
    BY <2>1 DEF Sets, IsParse, IsParts, Fields
  <2>3. PathOk(slash, root)
    BY ShortPathsOk
  <2> QED
    BY <1>3, <1>5, <2>1, <2>2, <2>3
<1>6. CASE ~ends /\ (root => text[at] = Slash) /\ q = segments
  <2>1. at \in 1..Len(text)
    BY <1>6
  <2>2. from \in {at, at + 1} /\ (from = at + 1 <=> root)
    OBVIOUS
  <2> HIDE DEF from, ends
  <2>3. segments.ok
    BY <1>3, <1>6
  <2>4. /\ p.ok /\ segments.at \in Nat \ {0}
        /\ Sets(p.uri, segments.uri, "path", segments.uri.path)
        /\ PathOk(segments.uri.path, from = p.at + 1)
    BY <1>6, <2>1, <2>2, <2>3, SegmentsMake
  <2> DEFINE rooted == from = p.at + 1
             path == segments.uri.path
  <2>5. PathOk(path, rooted) /\ (root <=> rooted)
    BY <2>2, <2>4
  <2> HIDE DEF rooted, path
  <2>6. PathOk(path, root)
    BY <2>5 DEF PathOk
  <2> HIDE DEF segments
  <2> QED
    BY <1>6, <2>4, <2>6 DEF path, segments
<1> QED
  BY <1>1, <1>2, <1>3, <1>4, <1>5, <1>6

LEMMA AuthorityMakes ==
    ASSUME NEW p, IsParse(p), SchemeOnly(p.uri), NEW text \in Seq(Chars), p.at \in Nat \ {0},
           ParseAuthority(p, text).ok
    PROVE  LET q == ParseAuthority(p, text)
           IN  /\ p.ok /\ q.at \in Nat \ {0} /\ IsParse(q)
               /\ AuthorityOk(q.uri) /\ q.uri.has_auth = TRUE
               /\ q.uri.scheme = p.uri.scheme /\ q.uri.path = <<>>
               /\ q.uri.query = <<>> /\ q.uri.fragment = <<>>
<1> DEFINE q == ParseAuthority(p, text)
           end == EndOf(text, p.at, AuthorityClass)
           auth == SubSeq(text, p.at, end - 1)
           cut == Cut(auth)
<1>1. q = ParsePieces(p, cut, end)
  BY Zenon DEF ParseAuthority, AuthorityClass
<1>2. end \in 1..(Len(text) + 1)
  BY EndOfProperties
<1>3. auth \in Seq(Chars)
  <2>1. end - 1 \in Int /\ end - 1 <= Len(text)
    BY <1>2
  <2> HIDE DEF end
  <2> QED
    BY <2>1, PieceIs
<1> HIDE DEF end, auth
<1>4. cut.userinfo \in Seq(Chars) /\ cut.host \in Seq(Chars) /\ cut.port \in Seq(Chars)
  BY <1>3, CutPieces
<1>5. IsParse(q)
  BY AuthorityIsParse
<1>6. q.ok
  OBVIOUS
<1> HIDE DEF q, cut
<1>7. p.ok /\ Takes(cut) /\ q.at = end /\ AuthorityOf(cut, p.uri, q.uri)
  <2> DEFINE r == ParsePieces(p, cut, end)
  <2>1. /\ r.ok <=> p.ok /\ Takes(cut)
        /\ r.ok => r.at = end /\ AuthorityOf(cut, p.uri, r.uri)
    BY <1>4, PiecesAre
  <2> HIDE DEF r
  <2>2. q = r
    BY <1>1 DEF r
  <2> QED
    BY <1>6, <2>1, <2>2
<1>8. AuthorityOk(q.uri)
  <2> DEFINE u == p.uri
             v == q.uri
  <2>1. Takes(cut) /\ AuthorityOf(cut, u, v)
    BY <1>7
  <2> HIDE DEF u, v
  <2>2. AuthorityOk(v)
    BY <1>4, <2>1, TakenIsOk
  <2> QED
    BY <2>2 DEF v
<1>9. /\ q.uri.has_auth = TRUE /\ q.uri.scheme = p.uri.scheme /\ q.uri.path = <<>>
      /\ q.uri.query = <<>> /\ q.uri.fragment = <<>>
  BY <1>7 DEF AuthorityOf
<1> QED
  BY <1>2, <1>5, <1>7, <1>8, <1>9 DEF q

HierOk(u, v) ==
    /\ AuthorityOk(v) /\ PathOk(v.path, v.has_auth)
    /\ v.scheme = u.scheme /\ v.query = <<>> /\ v.fragment = <<>>

LEMMA HierPartMakes ==
    ASSUME NEW p, IsParse(p), SchemeOnly(p.uri), NEW text \in Seq(Chars), p.at \in Nat \ {0},
           ParseHierPart(p, text).ok
    PROVE  LET q == ParseHierPart(p, text)
           IN  p.ok /\ q.at \in Nat \ {0} /\ HierOk(p.uri, q.uri)
<1> DEFINE q == ParseHierPart(p, text)
           slash == <<Slash>>
           inside == [p EXCEPT !.at = p.at + 2]
           rooted == [p EXCEPT !.at = p.at + 1, !.uri.path = slash]
           t == TRUE
           f == FALSE
           u == p.uri
           Good(r) == p.ok /\ r.at \in Nat \ {0} /\ HierOk(u, r.uri)
<1> SUFFICES Good(q)
  OBVIOUS
<1>1. \/ q = AfterAuthority(ParseAuthority(inside, text), text)
      \/ q = ParsePath(rooted, text, f)
      \/ q = ParsePath(p, text, f)
      \/ q = p
  <2> DEFINE Is(i, c) == i <= Len(text) /\ text[i] = c
             x == AfterAuthority(ParseAuthority(inside, text), text)
             y == ParsePath(rooted, text, FALSE)
             z == ParsePath(p, text, FALSE)
  <2>1. q = CASE Is(p.at, Slash) /\ Is(p.at + 1, Slash) -> x
              [] Is(p.at, Slash) /\ ~Is(p.at + 1, Slash) -> y
              [] p.at <= Len(text) /\ text[p.at] \in pchar -> z
              [] OTHER -> p
    BY Zenon DEF ParseHierPart, inside, rooted
  <2> SUFFICES q \in {x, y, z, p}
    OBVIOUS
  <2> HIDE DEF Is, q, inside, rooted, x, y, z
  <2> QED
    BY <2>1, Zenon
<1>2. q.ok
  OBVIOUS
<1> HIDE DEF q
<1>3. AuthorityOk(u)
  BY EmptyOk DEF SchemeOnly, AuthorityOk
\* The path of a text without authority.
<1>4. ASSUME NEW r, IsParse(r), r.ok = p.ok, r.at \in Nat \ {0}, r.uri.path \in {<<>>, slash},
             \A g \in Fields \ {"path"} : r.uri[g] = u[g], q = ParsePath(r, text, f)
      PROVE  Good(q)
  <2>1. /\ r.ok /\ q.at \in Nat \ {0}
        /\ Sets(r.uri, q.uri, "path", q.uri.path)
        /\ PathOk(q.uri.path, f)
    BY <1>2, <1>4, PathMakes
  <2> DEFINE v == q.uri
  <2> HIDE DEF v
  <2>2. \A g \in Fields \ {"path"} : v[g] = u[g]
    BY <1>4, <2>1 DEF Sets, v
  <2>3. /\ v.scheme = u.scheme /\ v.userinfo = u.userinfo /\ v.host = u.host /\ v.port = u.port
        /\ v.has_auth = u.has_auth /\ v.query = u.query /\ v.fragment = u.fragment
    BY <2>2 DEF Fields
  <2>4. PathOk(v.path, v.has_auth)
    BY <2>1, <2>3 DEF SchemeOnly, PathOk, v
  <2>5. AuthorityOk(v)
    BY <1>3, <2>3 DEF AuthorityOk
  <2>6. HierOk(u, v)
    BY <2>3, <2>4, <2>5 DEF HierOk, SchemeOnly
  <2> QED
    BY <1>4, <2>1, <2>6 DEF v
<1>5. CASE q = ParsePath(p, text, f)
  <2>1. p.uri.path = <<>>
    BY DEF SchemeOnly
  <2> QED
    BY <1>4, <1>5, <2>1
<1>6. CASE q = ParsePath(rooted, text, f)
  <2>1. IsParse(rooted)
    BY PartIsParse
  <2>2. rooted.ok = p.ok /\ rooted.at = p.at + 1 /\ rooted.uri = [u EXCEPT !.path = slash]
    BY DEF IsParse
  <2> HIDE DEF rooted
  <2>3. rooted.uri.path = slash /\ \A g \in Fields \ {"path"} : rooted.uri[g] = u[g]
    BY <2>2 DEF IsParse, IsParts, Fields
  <2>4. rooted.at \in Nat \ {0}
    BY <2>2
  <2> QED
    BY <1>4, <1>6, <2>1, <2>2, <2>3, <2>4
<1>7. CASE q = p
  <2>1. PathOk(<<>>, u.has_auth)
    BY ShortPathsOk DEF SchemeOnly
  <2>2. HierOk(u, u)
    BY <1>3, <2>1 DEF HierOk, SchemeOnly
  <2> QED
    BY <1>2, <1>7, <2>2
<1>8. CASE q = AfterAuthority(ParseAuthority(inside, text), text)
  <2> DEFINE a == ParseAuthority(inside, text)
  <2>1. inside.ok = p.ok /\ inside.at = p.at + 2 /\ inside.uri = u
    BY DEF IsParse
  <2>2. IsParse(inside)
    BY AtIsParse
  <2>3. inside.at \in Nat \ {0}
    BY <2>1
  <2> HIDE DEF inside, a
  <2>4. q = IF a.ok THEN ParsePath(a, text, t) ELSE a
    BY <1>8, Zenon DEF AfterAuthority, a
  <2>5. a.ok
    BY <1>2, <2>4
  <2>6. q = ParsePath(a, text, t)
    BY <2>4, <2>5
  <2>7. /\ p.ok /\ a.at \in Nat \ {0} /\ IsParse(a)
        /\ AuthorityOk(a.uri) /\ a.uri.has_auth = TRUE
        /\ a.uri.scheme = u.scheme /\ a.uri.path = <<>>
        /\ a.uri.query = <<>> /\ a.uri.fragment = <<>>
    <3>1. ParseAuthority(inside, text).ok /\ SchemeOnly(inside.uri)
      BY <2>1, <2>5 DEF a
    <3>2. /\ inside.ok /\ a.at \in Nat \ {0} /\ IsParse(a)
          /\ AuthorityOk(a.uri) /\ a.uri.has_auth = TRUE
          /\ a.uri.scheme = inside.uri.scheme /\ a.uri.path = <<>>
          /\ a.uri.query = <<>> /\ a.uri.fragment = <<>>
      BY <2>2, <2>3, <3>1, AuthorityMakes, Zenon DEF a
    <3> QED
      BY <2>1, <3>2
  <2>8. /\ q.at \in Nat \ {0}
        /\ Sets(a.uri, q.uri, "path", q.uri.path)
        /\ PathOk(q.uri.path, t)
    BY <1>2, <2>6, <2>7, PathMakes
  <2> DEFINE v == q.uri
             w == a.uri
  <2> HIDE DEF v, w
  <2>9. /\ v.scheme = w.scheme /\ v.userinfo = w.userinfo /\ v.host = w.host /\ v.port = w.port
        /\ v.has_auth = w.has_auth /\ v.query = w.query /\ v.fragment = w.fragment
    BY <2>8 DEF Sets, Fields, v, w
  <2>10. PathOk(v.path, v.has_auth)
    BY <2>7, <2>8, <2>9 DEF PathOk, v, w
  <2>11. AuthorityOk(v)
    BY <2>7, <2>9 DEF AuthorityOk, w
  <2>12. HierOk(u, v)
    BY <2>7, <2>9, <2>10, <2>11 DEF HierOk, w
  <2> QED
    BY <2>7, <2>8, <2>12 DEF v
<1> QED
  BY <1>1, <1>5, <1>6, <1>7, <1>8

QueryClass == pchar \cup {Slash, Question}

LEMMA AtSets ==
    ASSUME NEW p, IsParse(p), NEW i
    PROVE  LET q == [p EXCEPT !.at = i] IN IsParse(q) /\ q.ok = p.ok /\ q.at = i /\ q.uri = p.uri
  BY DEF IsParse

LEMMA QuerySets ==
    ASSUME NEW p, IsParse(p), NEW text
    PROVE  LET q == ParseQuery(p, text)
               end == EndOf(text, p.at, QueryClass)
               d == PercentDecode(SubSeq(text, p.at, end - 1), FALSE)
           IN  /\ q.ok <=> p.ok /\ d.ok
               /\ q.ok => q.at = end /\ Sets(p.uri, q.uri, "query", p.uri.query \o d.str)
<1> DEFINE q == ParseQuery(p, text)
           end == EndOf(text, p.at, QueryClass)
           piece == SubSeq(text, p.at, end - 1)
           d == PercentDecode(piece, FALSE)
           r == Decode(p, "query", piece, FALSE)
<1>1. /\ IsParse(r) /\ (r.ok <=> p.ok /\ d.ok)
      /\ Sets(p.uri, r.uri, "query", p.uri.query \o d.str)
  BY DecodeIsParse, DecodeSets DEF Fields
<1>2. q = [r EXCEPT !.at = end]
  BY Zenon DEF ParseQuery, QueryClass
<1> HIDE DEF q, r, end, d
<1>3. q.ok = r.ok /\ q.at = end /\ q.uri = r.uri
  BY <1>1, <1>2, AtSets
<1>4. /\ q.ok <=> p.ok /\ d.ok
      /\ q.ok => q.at = end /\ Sets(p.uri, q.uri, "query", p.uri.query \o d.str)
  BY <1>1, <1>3
<1> QED
  BY <1>4 DEF q, end, d

LEMMA FragmentSets ==
    ASSUME NEW p, IsParse(p), NEW text
    PROVE  LET q == ParseFragment(p, text)
               d == PercentDecode(From(text, p.at), FALSE)
           IN  /\ q.ok <=> p.ok /\ d.ok
               /\ q.ok => Sets(p.uri, q.uri, "fragment", p.uri.fragment \o d.str)
<1> DEFINE q == ParseFragment(p, text)
           end == Len(text) + 1
           piece == From(text, p.at)
           d == PercentDecode(piece, FALSE)
           r == Decode(p, "fragment", piece, FALSE)
<1>1. /\ IsParse(r) /\ (r.ok <=> p.ok /\ d.ok)
      /\ Sets(p.uri, r.uri, "fragment", p.uri.fragment \o d.str)
  BY DecodeIsParse, DecodeSets DEF Fields
<1>2. q = [r EXCEPT !.at = end]
  BY Zenon DEF ParseFragment
<1> HIDE DEF q, r, end, d
<1>3. q.ok = r.ok /\ q.uri = r.uri
  BY <1>1, <1>2, AtSets
<1>4. /\ q.ok <=> p.ok /\ d.ok
      /\ q.ok => Sets(p.uri, q.uri, "fragment", p.uri.fragment \o d.str)
  BY <1>1, <1>3
<1> QED
  BY <1>4 DEF q, d

\* The parts of a text that the parser accepts, as it stores them.
WellParsed(u) ==
    /\ SchemeOk(u.scheme) /\ AuthorityOk(u) /\ PathOk(u.path, u.has_auth)
    /\ DecodedOk(u.query) /\ DecodedOk(u.fragment)

LEMMA SchemeSets ==
    ASSUME NEW p, IsParse(p), NEW text \in Seq(Chars), text # <<>>
    PROVE  LET q == ParseScheme(p, text)
               end == EndOf(text, 1, SchemeClass)
           IN  /\ q.ok <=> p.ok /\ text[1] \in ALPHA
               /\ q.ok => q.at = end /\ Sets(p.uri, q.uri, "scheme", SubSeq(text, 1, end - 1))
<1> DEFINE q == ParseScheme(p, text)
           end == EndOf(text, 1, SchemeClass)
           piece == SubSeq(text, 1, end - 1)
           r == [p EXCEPT !.at = end, !.uri.scheme = piece]
           e == Fail(p, "URI_SCHEME")
           fails == text[1] \notin ALPHA
<1>1. ~e.ok
  BY FailFails
<1>2. q = IF fails THEN e ELSE r
  BY Zenon DEF ParseScheme, SchemeClass
<1> HIDE DEF q, end, piece, e, fails
<1>3. r.ok = p.ok /\ r.at = end /\ r.uri = [p.uri EXCEPT !.scheme = piece]
  BY DEF IsParse
<1> HIDE DEF r
<1>4. Sets(p.uri, r.uri, "scheme", piece)
  BY <1>3 DEF Sets, IsParse, IsParts, Fields
<1>5. /\ q.ok <=> p.ok /\ ~fails
      /\ q.ok => q.at = end /\ Sets(p.uri, q.uri, "scheme", piece)
  BY <1>1, <1>2, <1>3, <1>4
<1> QED
  BY <1>5 DEF q, end, piece, fails

LEMMA SchemeMakes ==
    ASSUME NEW text \in Seq(Chars), text # <<>>, ParseScheme(StartOfParse, text).ok
    PROVE  LET q == ParseScheme(StartOfParse, text)
           IN  /\ IsParse(q) /\ q.at \in Nat \ {0}
               /\ SchemeOnly(q.uri) /\ SchemeOk(q.uri.scheme)
<1> DEFINE q == ParseScheme(StartOfParse, text)
           end == EndOf(text, 1, SchemeClass)
           scheme == SubSeq(text, 1, end - 1)
           n == Len(text)
<1>1. IsParse(q)
  BY StartIsParse, SchemeIsParse
<1>2. text[1] \in ALPHA /\ q.at = end /\ Sets(StartOfParse.uri, q.uri, "scheme", scheme)
  <2>1. /\ q.ok <=> StartOfParse.ok /\ text[1] \in ALPHA
        /\ q.ok => q.at = end /\ Sets(StartOfParse.uri, q.uri, "scheme", scheme)
    BY StartIsParse, SchemeSets, Zenon
  <2>2. q.ok
    OBVIOUS
  <2> HIDE DEF q, end, scheme
  <2> QED
    BY <2>1, <2>2
<1> HIDE DEF q
<1>3. SchemeOnly(q.uri) /\ q.uri.scheme = scheme
  <2>1. StartOfParse.uri = EmptyUri
    BY DEF StartOfParse
  <2> HIDE DEF scheme
  <2> QED
    BY <1>2, <2>1 DEF Sets, EmptyUri, SchemeOnly, Fields
<1>4. n \in Nat /\ n # 0 /\ 1 \in 1..n
  BY EmptySeq
<1>5. /\ end \in 1..(n + 1)
      /\ \A i \in 1..(end - 1) : i \in 1..n /\ text[i] \in SchemeClass
      /\ end <= n => text[end] \notin SchemeClass
  BY EndOfProperties
<1> HIDE DEF end
<1>6. end > 1
  <2>1. text[1] \in SchemeClass
    BY <1>2 DEF SchemeClass
  <2> QED
    BY <1>4, <1>5, <2>1
<1>7. scheme \in Seq(Chars) /\ Len(scheme) = end - 1 /\ \A i \in 1..(end - 1) : scheme[i] = text[i]
  <2>1. end - 1 \in Nat /\ end - 1 <= n /\ 1 <= end - 1 /\ (end - 1) - 1 + 1 = end - 1
    BY <1>4, <1>5, <1>6
  <2> DEFINE k == end - 1
  <2>2. k \in Nat /\ k <= n /\ 1 <= k /\ k - 1 + 1 = k
    BY <2>1
  <2> HIDE DEF k
  <2>3. SubSeq(text, 1, k) \in Seq(Chars) /\ Len(SubSeq(text, 1, k)) = k
        /\ \A i \in 1..k : SubSeq(text, 1, k)[i] = text[1 + i - 1]
    BY <2>2, PieceOf
  <2>4. \A i \in 1..k : 1 + i - 1 = i
    BY <2>2
  <2> QED
    BY <2>3, <2>4 DEF k
<1> HIDE DEF scheme
<1>8. SchemeOk(scheme)
  <2>1. 1 \in 1..(end - 1)
    BY <1>5, <1>6
  <2>2. scheme[1] \in ALPHA /\ scheme # <<>>
    BY <1>2, <1>7, <2>1, EmptySeq
  <2>3. DOMAIN scheme = 1..(end - 1)
    BY <1>7
  <2>4. ToSet(scheme) \subseteq SchemeClass
    BY <1>5, <1>7, <2>3 DEF ToSet
  <2> QED
    BY <1>7, <2>2, <2>4 DEF SchemeOk
<1>9. q.at \in Nat \ {0}
  BY <1>2, <1>5
<1> QED
  BY <1>1, <1>3, <1>8, <1>9 DEF q

LEMMA AfterSchemeMakes ==
    ASSUME NEW p, IsParse(p), SchemeOnly(p.uri), SchemeOk(p.uri.scheme), p.at \in Nat \ {0},
           NEW text \in Seq(Chars), AfterScheme(p, text).ok
    PROVE  WellParsed(AfterScheme(p, text).uri)
<1> DEFINE begin == [p EXCEPT !.at = p.at + 1]
           hier == ParseHierPart(begin, text)
           queried == If(hier, text, Question, ParseQuery)
           whole == If(queried, text, Hash, ParseFragment)
           q == AfterScheme(p, text)
           e == Fail(p, "URI_NOCOLON")
<1>1. q = whole
  <2>1. ~e.ok
    BY FailFails
  <2>2. (~p.ok /\ q = p) \/ q = e \/ q = whole
    BY Zenon DEF AfterScheme
  <2>3. q.ok
    OBVIOUS
  <2> HIDE DEF whole, e, q
  <2> QED
    BY <2>1, <2>2, <2>3
<1>2. IsParse(begin) /\ begin.at \in Nat \ {0} /\ begin.uri = p.uri
  <2> DEFINE next == p.at + 1
  <2>1. next \in Nat \ {0}
    OBVIOUS
  <2>2. begin = [p EXCEPT !.at = next]
    OBVIOUS
  <2> HIDE DEF next, begin
  <2>3. IsParse(begin) /\ begin.at = next /\ begin.uri = p.uri
    BY <2>2, AtSets
  <2> QED
    BY <2>1, <2>3
<1> HIDE DEF begin
<1>3. IsParse(hier)
  BY <1>2, HierPartIsParse
<1>4. hier.ok => hier.at \in Nat \ {0} /\ HierOk(p.uri, hier.uri)
  <2>1. SUFFICES ASSUME hier.ok PROVE hier.at \in Nat \ {0} /\ HierOk(p.uri, hier.uri)
    OBVIOUS
  <2>2. SchemeOnly(begin.uri)
    BY <1>2
  <2>3. hier.at \in Nat \ {0} /\ HierOk(begin.uri, hier.uri)
    BY <1>2, <2>1, <2>2, HierPartMakes
  <2> QED
    BY <1>2, <2>3
<1> HIDE DEF hier
<1> DEFINE QueryOk(v) == SchemeOk(v.scheme) /\ AuthorityOk(v) /\ PathOk(v.path, v.has_auth)
                         /\ DecodedOk(v.query) /\ v.fragment = <<>>
<1>5. IsParse(queried) /\ (queried.ok => queried.at \in Nat \ {0} /\ QueryOk(queried.uri))
  <2> DEFINE r == [hier EXCEPT !.at = hier.at + 1]
             s == ParseQuery(r, text)
  <2>1. (hier.ok /\ queried = s) \/ queried = hier
    BY Zenon DEF If
  <2>2. IsParse(r) /\ r.ok = hier.ok /\ r.at = hier.at + 1 /\ r.uri = hier.uri
    BY <1>3, AtSets
  <2> HIDE DEF r, s, queried
  <2>3. CASE queried = hier
    BY <1>3, <1>4, <2>3, EmptyOk DEF HierOk
  <2>4. CASE hier.ok /\ queried = s
    <3> DEFINE end == EndOf(text, r.at, QueryClass)
               piece == SubSeq(text, r.at, end - 1)
               d == PercentDecode(piece, FALSE)
    <3>1. IsParse(s)
      BY <2>2, QueryIsParse DEF s
    <3>2. /\ s.ok <=> r.ok /\ d.ok
          /\ s.ok => s.at = end /\ Sets(r.uri, s.uri, "query", r.uri.query \o d.str)
      BY <2>2, QuerySets, Zenon DEF s
    <3>3. end \in 1..(Len(text) + 1)
      <4>1. r.at \in Nat \ {0}
        BY <1>4, <2>2, <2>4
      <4> QED
        BY <4>1, EndOfProperties
    <3>4. piece \in Seq(Chars)
      <4>1. end - 1 \in Int /\ end - 1 <= Len(text) /\ r.at \in Nat \ {0}
        BY <1>4, <2>2, <2>4, <3>3
      <4> HIDE DEF end
      <4> QED
        BY <4>1, PieceIs
    <3> HIDE DEF piece, end
    <3>5. d.ok => <<>> \o d.str = d.str /\ DecodedOk(d.str)
      BY <3>4, DecodedIsSeq, DecodedIsOk
    <3> HIDE DEF d
    <3>6. HierOk(p.uri, r.uri)
      BY <1>4, <2>2, <2>4
    <3>7. SUFFICES ASSUME s.ok PROVE s.at \in Nat \ {0} /\ QueryOk(s.uri)
      BY <2>4, <3>1
    <3> DEFINE u == r.uri
               v == s.uri
    <3> HIDE DEF u, v
    <3>8. Sets(u, v, "query", d.str)
      BY <3>2, <3>5, <3>6, <3>7 DEF HierOk, u, v
    <3>9. /\ v.scheme = u.scheme /\ v.userinfo = u.userinfo /\ v.host = u.host /\ v.port = u.port
          /\ v.has_auth = u.has_auth /\ v.path = u.path /\ v.fragment = u.fragment /\ v.query = d.str
      BY <3>8 DEF Sets, Fields
    <3>10. AuthorityOk(v) /\ PathOk(v.path, v.has_auth)
      BY <3>6, <3>9 DEF HierOk, AuthorityOk, u
    <3>11. QueryOk(v)
      BY <3>2, <3>5, <3>6, <3>7, <3>9, <3>10 DEF HierOk, u
    <3> QED
      BY <3>2, <3>3, <3>7, <3>11 DEF v
  <2> QED
    BY <2>1, <2>3, <2>4
<1> HIDE DEF queried
<1>6. whole.ok => WellParsed(whole.uri)
  <2> DEFINE r == [queried EXCEPT !.at = queried.at + 1]
             s == ParseFragment(r, text)
  <2>1. (queried.ok /\ whole = s) \/ whole = queried
    BY Zenon DEF If
  <2>2. IsParse(r) /\ r.ok = queried.ok /\ r.at = queried.at + 1 /\ r.uri = queried.uri
    BY <1>5, AtSets
  <2> HIDE DEF r, s, whole
  <2>3. CASE whole = queried
    BY <1>5, <2>3, EmptyOk DEF WellParsed
  <2>4. CASE queried.ok /\ whole = s
    <3> DEFINE piece == From(text, r.at)
               d == PercentDecode(piece, FALSE)
    <3>1. /\ s.ok <=> r.ok /\ d.ok
          /\ s.ok => Sets(r.uri, s.uri, "fragment", r.uri.fragment \o d.str)
      BY <2>2, FragmentSets, Zenon DEF s
    <3>2. piece \in Seq(Chars)
      <4>1. Len(text) \in Int /\ Len(text) <= Len(text) /\ r.at \in Nat \ {0}
        BY <1>5, <2>2, <2>4
      <4> QED
        BY <4>1, PieceIs DEF From
    <3> HIDE DEF piece
    <3>3. d.ok => <<>> \o d.str = d.str /\ DecodedOk(d.str)
      BY <3>2, DecodedIsSeq, DecodedIsOk
    <3> HIDE DEF d
    <3>4. QueryOk(r.uri)
      BY <1>5, <2>2, <2>4
    <3>5. SUFFICES ASSUME s.ok PROVE WellParsed(s.uri)
      BY <2>4
    <3> DEFINE u == r.uri
               v == s.uri
    <3> HIDE DEF u, v
    <3>6. Sets(u, v, "fragment", d.str)
      BY <3>1, <3>3, <3>4, <3>5 DEF u, v
    <3>7. /\ v.scheme = u.scheme /\ v.userinfo = u.userinfo /\ v.host = u.host /\ v.port = u.port
          /\ v.has_auth = u.has_auth /\ v.path = u.path /\ v.fragment = d.str /\ v.query = u.query
      BY <3>6 DEF Sets, Fields
    <3>8. AuthorityOk(v) /\ PathOk(v.path, v.has_auth)
      BY <3>4, <3>7 DEF AuthorityOk, u
    <3>9. WellParsed(v)
      BY <3>1, <3>3, <3>4, <3>5, <3>7, <3>8 DEF WellParsed, u
    <3> QED
      BY <3>9 DEF v
  <2> QED
    BY <2>1, <2>3, <2>4
<1> HIDE DEF whole
<1> QED
  BY <1>1, <1>6

LEMMA ParseUriMakes ==
    ASSUME NEW text \in Seq(Chars), text # <<>>, ParseUri(text).ok
    PROVE  WellParsed(ParseUri(text).uri)
<1> DEFINE p == ParseScheme(StartOfParse, text)
           q == AfterScheme(p, text)
<1>1. ParseUri(text) = q
  BY Zenon DEF ParseUri
<1>2. q.ok
  BY <1>1
<1>3. p.ok
  <2>1. ~p.ok => q = p
    BY Zenon DEF AfterScheme
  <2> HIDE DEF p, q
  <2> QED
    BY <1>2, <2>1
<1>4. IsParse(p) /\ p.at \in Nat \ {0} /\ SchemeOnly(p.uri) /\ SchemeOk(p.uri.scheme)
  BY <1>3, SchemeMakes
<1> HIDE DEF p
<1>5. WellParsed(q.uri)
  BY <1>2, <1>4, AfterSchemeMakes
<1> QED
  BY <1>1, <1>5

------------------------------------------------------------------------------
(* The parts of an object that a text was parsed into *)

(***************************************************************************)
(* What an accepted text leaves in an object: a scheme in lower case, a    *)
(* normalized path, and a port that is left out only where a later parse   *)
(* supplies it.                                                            *)
(***************************************************************************)
PortCanonical(u, flag) ==
    \/ /\ flag /\ u.scheme \in DOMAIN Permanent
       /\ u.port = Permanent[u.scheme] /\ u.port >= 0
    \/ /\ ~flag /\ u.port = -1
       /\ ~(u.scheme \in DOMAIN Permanent /\ Permanent[u.scheme] >= 0)
    \/ ~flag /\ u.has_auth /\ Printed(u.port)

Canonical(u, flag) ==
    /\ IsParts(u)
    /\ SchemeOk(u.scheme) /\ \A i \in 1..Len(u.scheme) : u.scheme[i] \notin 65..90
    /\ UserinfoOk(u.userinfo) /\ HostOk(u.host) /\ u.has_auth \in BOOLEAN
    /\ ~u.has_auth => u.userinfo = <<>> /\ u.host = <<>>
    /\ u.path \in Seq(Chars) /\ WellPlaced(u.path)
    /\ u.has_auth => u.path = <<>> \/ u.path[1] = Slash
    /\ DecodedOk(u.query) /\ DecodedOk(u.fragment)
    /\ UndefinedFlag(u) \/ PortCanonical(u, flag)

LEMMA PrintedIsNat == \A n : Printed(n) => n \in Nat
  BY PrintedNumber DEF Printed

\* A scheme in lower case.
LEMMA LoweredScheme ==
    ASSUME NEW s, SchemeOk(s), NEW t, t = [i \in DOMAIN s |-> ToLower(s[i])]
    PROVE  SchemeOk(t) /\ \A i \in 1..Len(t) : t[i] \notin 65..90
<1> DEFINE n == Len(s)
<1>1. s \in Seq(Chars) /\ s # <<>> /\ n \in Nat /\ n # 0 /\ s[1] \in ALPHA /\ \A i \in 1..n : s[i] \in SchemeClass
  BY EmptySeq DEF SchemeOk, ToSet
<1>2. DOMAIN s = 1..n
  BY <1>1
<1>3. t = [i \in 1..n |-> ToLower(s[i])]
  BY <1>2
<1>4. /\ \A c \in SchemeClass : ToLower(c) \in SchemeClass /\ ToLower(c) \in Chars /\ ToLower(c) \notin 65..90
      /\ \A c \in ALPHA : ToLower(c) \in ALPHA
  BY DEF SchemeClass, ALPHA, DIGIT, Dot, ToLower, Chars
<1>5. t \in Seq(Chars) /\ Len(t) = n /\ \A i \in 1..n : t[i] = ToLower(s[i])
  BY <1>1, <1>3, <1>4
<1>6. DOMAIN t = 1..n
  BY <1>3
<1>7. ToSet(t) \subseteq SchemeClass
  BY <1>1, <1>4, <1>5, <1>6 DEF ToSet
<1>8. 1 \in 1..n
  BY <1>1
<1>9. t # <<>> /\ t[1] \in ALPHA
  BY <1>1, <1>4, <1>5, <1>8, EmptySeq
<1>10. \A i \in 1..Len(t) : t[i] \notin 65..90
  BY <1>1, <1>4, <1>5
<1> QED
  BY <1>5, <1>7, <1>9, <1>10 DEF SchemeOk

LEMMA PostParseCases ==
    ASSUME OnlyPermanent, NEW parts, NEW outcome \in PostParse(parts)
    PROVE  LET scheme == [i \in DOMAIN parts.scheme |-> ToLower(parts.scheme[i])]
               result == [parts EXCEPT !.scheme = scheme, !.path = PathNormalize(parts.path).str]
               known == scheme \in DOMAIN Permanent
               default == Permanent[scheme]
           IN  \/ parts.port >= 0 /\ known /\ outcome = <<result, parts.port = default>>
               \/ parts.port >= 0 /\ ~known /\ outcome[1] = result
               \/ /\ parts.port < 0 /\ known /\ default >= 0
                  /\ outcome = <<[result EXCEPT !.port = default], TRUE>>
               \/ /\ ~(parts.port >= 0) /\ ~(parts.port < 0 /\ known /\ default >= 0)
                  /\ outcome = <<result, FALSE>>
<1> DEFINE scheme == [i \in DOMAIN parts.scheme |-> ToLower(parts.scheme[i])]
           path == PathNormalize(parts.path).str
           result == [parts EXCEPT !.scheme = scheme, !.path = path]
           default == DefaultPort(scheme)
           other == [result EXCEPT !.port = default]
           known == scheme \in DOMAIN Permanent
           a == parts.port >= 0
           b == parts.port < 0
           c == default >= 0
<1>1. PostParse(parts) =
          CASE a /\ Registered(scheme) -> {<<result, parts.port = default>>}
            [] a /\ ~Registered(scheme) -> {result} \X BOOLEAN
            [] b /\ Registered(scheme) /\ c -> {<<other, TRUE>>}
            [] OTHER -> {<<result, FALSE>>}
  BY Zenon DEF PostParse
<1>2. Registered(scheme) <=> known
  BY Zenon DEF Registered, OnlyPermanent
<1>3. known => default = Permanent[scheme]
  BY Zenon DEF DefaultPort
<1> DEFINE one == <<result, parts.port = default>>
           three == <<other, TRUE>>
           four == <<result, FALSE>>
<1>4. ~(a /\ b) \/ a = b
  OBVIOUS
<1> HIDE DEF a, b, c, other, result, scheme
<1>5. \/ PostParse(parts) = {one} /\ a /\ known
      \/ PostParse(parts) = {result} \X BOOLEAN /\ a /\ ~known
      \/ PostParse(parts) = {three} /\ b /\ known /\ c
      \/ PostParse(parts) = {four} /\ ~a /\ ~(b /\ known /\ c)
  <2> HIDE DEF known, one, three, four
  <2> DEFINE two == {result} \X BOOLEAN
  <2>1. PostParse(parts) =
          CASE a /\ known -> {one}
            [] a /\ ~known -> two
            [] b /\ known /\ c -> {three}
            [] OTHER -> {four}
    BY <1>1, <1>2, Zenon DEF one, three, four
  <2> HIDE DEF two
  <2>2. \/ PostParse(parts) = {one} /\ a /\ known
        \/ PostParse(parts) = two /\ a /\ ~known
        \/ PostParse(parts) = {three} /\ b /\ known /\ c
        \/ PostParse(parts) = {four} /\ ~a /\ ~(b /\ known /\ c)
    BY <2>1, Zenon
  <2> QED
    BY <2>2 DEF two
<1>6. \/ a /\ known /\ outcome = one
      \/ a /\ ~known /\ outcome[1] = result
      \/ b /\ known /\ c /\ outcome = three
      \/ ~a /\ ~(b /\ known /\ c) /\ outcome = four
  <2> HIDE DEF one, three, four, known
  <2>1. CASE PostParse(parts) = {result} \X BOOLEAN /\ a /\ ~known
    <3>1. outcome \in {result} \X BOOLEAN
      BY <2>1, Zenon
    <3>2. outcome[1] = result
      BY <3>1
    <3> QED
      BY <2>1, <3>2
  <2>2. CASE PostParse(parts) = {one} /\ a /\ known
    BY <2>2
  <2>3. CASE PostParse(parts) = {three} /\ b /\ known /\ c
    BY <2>3
  <2>4. CASE PostParse(parts) = {four} /\ ~a /\ ~(b /\ known /\ c)
    BY <2>4
  <2> QED
    BY <1>5, <2>1, <2>2, <2>3, <2>4, Zenon
<1> QED
  BY <1>3, <1>6, Zenon DEF a, b, c, other, result, scheme

LEMMA PostParseCanonical ==
    ASSUME OnlyPermanent, NEW parts, IsParts(parts), WellParsed(parts), NEW outcome \in PostParse(parts)
    PROVE  Canonical(outcome[1], outcome[2])
<1> DEFINE scheme == [i \in DOMAIN parts.scheme |-> ToLower(parts.scheme[i])]
           path == PathNormalize(parts.path).str
           result == [parts EXCEPT !.scheme = scheme, !.path = path]
           known == scheme \in DOMAIN Permanent
           default == Permanent[scheme]
           other == [result EXCEPT !.port = default]
           same == parts.port = default
           t == TRUE
           f == FALSE
           one == <<result, same>>
           three == <<other, t>>
           four == <<result, f>>
<1>1. \/ parts.port >= 0 /\ known /\ outcome = one
      \/ parts.port >= 0 /\ ~known /\ outcome[1] = result
      \/ parts.port < 0 /\ known /\ default >= 0 /\ outcome = three
      \/ /\ ~(parts.port >= 0) /\ ~(parts.port < 0 /\ known /\ default >= 0)
         /\ outcome = four
  BY PostParseCases, Zenon
<1>2. SchemeOk(scheme) /\ \A i \in 1..Len(scheme) : scheme[i] \notin 65..90
  BY LoweredScheme DEF WellParsed
<1>3. /\ path \in Seq(Chars) /\ WellPlaced(path)
      /\ parts.has_auth => path = <<>> \/ path[1] = Slash
  <2> DEFINE before == parts.path
  <2>1. before \in Seq(Chars) /\ ~DoubleSlash(before) /\ (parts.has_auth => before = <<>> \/ before[1] = Slash)
    BY DEF WellParsed, PathOk
  <2> HIDE DEF before
  <2> DEFINE n == PathNormalize(before).str
  <2>2. /\ n \in Seq(Chars) /\ WellPlaced(n)
        /\ before = <<>> => n = <<>>
        /\ before # <<>> /\ before[1] = Slash => n # <<>> /\ n[1] = Slash
    BY <2>1, NormalizedPath
  <2> HIDE DEF n
  <2>3. /\ n \in Seq(Chars) /\ WellPlaced(n)
        /\ parts.has_auth => n = <<>> \/ n[1] = Slash
    BY <2>1, <2>2
  <2> QED
    BY <2>3 DEF n, before
<1> HIDE DEF scheme, path
<1>4. /\ IsParts(result) /\ result.scheme = scheme /\ result.path = path
      /\ result.userinfo = parts.userinfo /\ result.host = parts.host /\ result.query = parts.query
      /\ result.fragment = parts.fragment /\ result.port = parts.port /\ result.has_auth = parts.has_auth
  BY DEF IsParts, Fields
<1> HIDE DEF result
<1>5. /\ IsParts(other) /\ other.scheme = scheme /\ other.path = path
      /\ other.userinfo = parts.userinfo /\ other.host = parts.host /\ other.query = parts.query
      /\ other.fragment = parts.fragment /\ other.port = default /\ other.has_auth = parts.has_auth
  BY <1>4 DEF IsParts, Fields
<1> HIDE DEF other
<1>6. /\ parts.port = -1 \/ Printed(parts.port)
      /\ parts.has_auth \in BOOLEAN /\ (~parts.has_auth => parts.port = -1)
  BY DEF WellParsed, AuthorityOk
<1>7. parts.port \in Int /\ (parts.port >= 0 => parts.has_auth /\ Printed(parts.port))
      /\ (~(parts.port >= 0) => parts.port = -1 /\ parts.port < 0)
  BY <1>6, PrintedIsNat
<1>8. ASSUME NEW u, u \in {result, other}, NEW flag, UndefinedFlag(u) \/ PortCanonical(u, flag)
      PROVE  Canonical(u, flag)
  <2>1. /\ IsParts(u) /\ u.scheme = scheme /\ u.path = path
        /\ u.userinfo = parts.userinfo /\ u.host = parts.host /\ u.query = parts.query
        /\ u.fragment = parts.fragment /\ u.has_auth = parts.has_auth
    BY <1>4, <1>5, <1>8
  <2>2. /\ UserinfoOk(parts.userinfo) /\ HostOk(parts.host)
        /\ ~parts.has_auth => parts.userinfo = <<>> /\ parts.host = <<>>
        /\ DecodedOk(parts.query) /\ DecodedOk(parts.fragment)
    BY DEF WellParsed, AuthorityOk
  <2> QED
    BY <1>2, <1>3, <1>6, <1>8, <2>1, <2>2 DEF Canonical
<1>9. CASE parts.port >= 0 /\ known /\ outcome = one
  <2>1. outcome[1] = result /\ outcome[2] = same
    BY <1>9
  <2>2. same <=> parts.port = default
    OBVIOUS
  <2> HIDE DEF same, default, known
  <2>3. PortCanonical(result, same)
    <3>1. CASE same
      BY <1>4, <1>9, <2>2, <3>1 DEF PortCanonical, known, default
    <3>2. CASE ~same
      BY <1>4, <1>7, <1>9, <3>2 DEF PortCanonical
    <3> QED
      BY <3>1, <3>2
  <2> QED
    BY <1>8, <2>1, <2>3
<1>10. CASE parts.port >= 0 /\ ~known /\ outcome[1] = result
  <2>1. UndefinedFlag(result)
    BY <1>4, <1>10 DEF UndefinedFlag
  <2> QED
    BY <1>8, <1>10, <2>1
<1>11. CASE parts.port < 0 /\ known /\ default >= 0 /\ outcome = three
  <2>1. outcome[1] = other /\ outcome[2] = t
    BY <1>11
  <2>2. PortCanonical(other, t)
    BY <1>5, <1>11 DEF PortCanonical
  <2> HIDE DEF t
  <2> QED
    BY <1>8, <2>1, <2>2
<1>12. CASE ~(parts.port >= 0) /\ ~(parts.port < 0 /\ known /\ default >= 0) /\ outcome = four
  <2>1. outcome[1] = result /\ outcome[2] = f
    BY <1>12
  <2>2. PortCanonical(result, f)
    BY <1>4, <1>7, <1>12 DEF PortCanonical
  <2> HIDE DEF f
  <2> QED
    BY <1>8, <2>1, <2>2
<1> QED
  BY <1>1, <1>9, <1>10, <1>11, <1>12

------------------------------------------------------------------------------
(* What is printed is normalized *)

\* What str() prints of the parts leads to the same parts again.
LEMMA PostParseAgain ==
    ASSUME OnlyPermanent, NEW u, NEW flag \in BOOLEAN, Canonical(u, flag), ~UndefinedFlag(u),
           NEW v, IsParts(v), \A g \in Fields \ {"port"} : v[g] = u[g],
           v.port = IF flag THEN -1 ELSE u.port,
           NEW outcome \in PostParse(v)
    PROVE  outcome[1] = u
<1> DEFINE scheme == [i \in DOMAIN v.scheme |-> ToLower(v.scheme[i])]
           path == PathNormalize(v.path).str
           result == [v EXCEPT !.scheme = scheme, !.path = path]
           known == scheme \in DOMAIN Permanent
           default == Permanent[scheme]
           other == [result EXCEPT !.port = default]
           same == v.port = default
           t == TRUE
           f == FALSE
           one == <<result, same>>
           three == <<other, t>>
           four == <<result, f>>
<1>1. \/ v.port >= 0 /\ known /\ outcome = one
      \/ v.port >= 0 /\ ~known /\ outcome[1] = result
      \/ v.port < 0 /\ known /\ default >= 0 /\ outcome = three
      \/ /\ ~(v.port >= 0) /\ ~(v.port < 0 /\ known /\ default >= 0)
         /\ outcome = four
  BY PostParseCases, Zenon
<1>2. v.scheme = u.scheme /\ v.path = u.path
  BY DEF Fields
<1>3. scheme = u.scheme
  <2> DEFINE s == u.scheme
  <2>1. s \in Seq(Chars) /\ \A i \in 1..Len(s) : s[i] \notin 65..90
    BY DEF Canonical, SchemeOk
  <2>2. scheme = [i \in DOMAIN s |-> ToLower(s[i])]
    BY <1>2
  <2> HIDE DEF s, scheme
  <2>3. s = [i \in 1..Len(s) |-> s[i]] /\ DOMAIN s = 1..Len(s)
    <3>1. s \in Seq(Chars)
      BY <2>1
    <3> QED
      BY ONLY <3>1
  <2>4. \A i \in 1..Len(s) : ToLower(s[i]) = s[i]
    BY <2>1 DEF ToLower
  <2>5. scheme = s
    BY <2>2, <2>3, <2>4
  <2> QED
    BY <2>5 DEF s
<1>4. path = u.path
  <2>1. u.path \in Seq(Chars) /\ WellPlaced(u.path)
    BY DEF Canonical
  <2> QED
    BY <1>2, <2>1, NormalizedStays
<1> HIDE DEF scheme, path
<1>5. result = v
  BY <1>2, <1>3, <1>4 DEF IsParts, Fields
<1> HIDE DEF result
<1>6. IsParts(u) /\ PortCanonical(u, flag)
  BY DEF Canonical
<1>7. v.port = u.port => v = u
  BY <1>6 DEF IsParts, Fields
<1>8. ASSUME u.port = default PROVE other = u
  <2>1. IsParts(other) /\ other.port = default /\ \A g \in Fields \ {"port"} : other[g] = v[g]
    BY <1>5 DEF IsParts, Fields
  <2> HIDE DEF other
  <2> QED
    BY <1>6, <1>8, <2>1 DEF IsParts, Fields
<1> HIDE DEF other
<1>9. CASE flag
  <2>1. known /\ u.port = default /\ default >= 0 /\ v.port = -1
    BY <1>3, <1>6, <1>9 DEF PortCanonical
  <2>2. v.port < 0 /\ ~(v.port >= 0)
    BY <2>1
  <2>3. outcome = three
    BY <1>1, <2>1, <2>2
  <2>4. outcome[1] = other
    BY <2>3
  <2> QED
    BY <1>8, <2>1, <2>4
<1>10. CASE ~flag
  <2>1. v.port = u.port
    BY <1>10
  <2>2. \/ u.port = -1 /\ ~(known /\ default >= 0)
        \/ Printed(u.port)
    BY <1>3, <1>6, <1>10 DEF PortCanonical
  <2>3. ~(v.port < 0 /\ known /\ default >= 0)
    BY <2>1, <2>2, PrintedIsNat
  <2>4. outcome = one \/ outcome[1] = result \/ outcome = four
    BY <1>1, <2>3
  <2>5. outcome[1] = result
    <3>1. one[1] = result /\ four[1] = result
      <4> HIDE DEF same, f
      <4> QED
        OBVIOUS
    <3> HIDE DEF one, four
    <3> QED
      BY <2>4, <3>1
  <2> QED
    BY <1>5, <1>7, <2>1, <2>5
<1> QED
  BY <1>9, <1>10

------------------------------------------------------------------------------
(* What is left of a text, from a position on *)

Rest(text, at, rest) ==
    /\ at \in Nat \ {0} /\ rest \in Seq(Chars) /\ Len(text) = at - 1 + Len(rest)
    /\ \A i \in 1..Len(rest) : text[at + i - 1] = rest[i]

LEMMA RestIs ==
    ASSUME NEW text \in Seq(Chars), NEW at, NEW rest, Rest(text, at, rest)
    PROVE  /\ at \in Nat \ {0} /\ rest \in Seq(Chars)
           /\ at <= Len(text) <=> rest # <<>>
           /\ rest # <<>> => text[at] = rest[1]
           /\ From(text, at) = rest
<1> DEFINE n == Len(rest)
<1>1. n \in Nat /\ (n # 0 <=> rest # <<>>) /\ at \in Nat \ {0} /\ rest \in Seq(Chars)
  BY EmptySeq DEF Rest
<1>2. Len(text) = at - 1 + n /\ \A i \in 1..n : text[at + i - 1] = rest[i]
  BY DEF Rest
<1> HIDE DEF n
<1>3. at <= Len(text) <=> rest # <<>>
  BY <1>1, <1>2
<1>4. rest # <<>> => text[at] = rest[1]
  <2>1. rest # <<>> => 1 \in 1..n /\ at + 1 - 1 = at
    BY <1>1
  <2> QED
    BY <1>2, <2>1
<1>5. From(text, at) = rest
  <2> DEFINE m == Len(text)
             s == SubSeq(text, at, m)
  <2>1. m \in Nat /\ m <= m
    OBVIOUS
  <2>2. s \in Seq(Chars) /\ Len(s) = (IF at <= m THEN m - at + 1 ELSE 0)
        /\ \A i \in 1..(m - at + 1) : s[i] = text[at + i - 1]
    BY <1>1, <2>1, PieceOf
  <2>3. m = at - 1 + n
    BY <1>2
  <2> HIDE DEF s, m
  <2>4. Len(s) = n /\ m - at + 1 = n
    BY <1>1, <2>1, <2>2, <2>3
  <2>5. \A i \in 1..n : s[i] = rest[i]
    BY <1>2, <2>2, <2>4
  <2>6. s = rest
    BY <1>1, <2>2, <2>4, <2>5, SeqEqual DEF n
  <2> QED
    BY <2>6 DEF From, s, m
<1> QED
  BY <1>1, <1>3, <1>4, <1>5

LEMMA RestAfter ==
    ASSUME NEW text \in Seq(Chars), NEW at \in Nat \ {0}, NEW x \in Seq(Chars), NEW y \in Seq(Chars),
           Rest(text, at, x \o y)
    PROVE  /\ Rest(text, at + Len(x), y)
           /\ SubSeq(text, at, at + Len(x) - 1) = x
           /\ \A i \in 1..Len(x) : text[at + i - 1] = x[i]
<1> DEFINE m == Len(x)
           n == Len(y)
           w == x \o y
<1>1. m \in Nat /\ n \in Nat /\ w \in Seq(Chars) /\ Len(w) = m + n
      /\ \A i \in 1..(m + n) : w[i] = IF i <= m THEN x[i] ELSE y[i - m]
  BY ConcatProperties
<1>2. at \in Nat \ {0} /\ Len(text) = at - 1 + Len(w) /\ \A i \in 1..Len(w) : text[at + i - 1] = w[i]
  BY DEF Rest
<1> HIDE DEF w, m, n
<1>3. \A i \in 1..m : text[at + i - 1] = x[i]
  BY <1>1, <1>2
<1>4. Rest(text, at + m, y)
  <2>1. at + m \in Nat \ {0} /\ Len(text) = (at + m) - 1 + n
    BY <1>1, <1>2
  <2>2. \A i \in 1..n : text[(at + m) + i - 1] = y[i]
    <3>1. SUFFICES ASSUME NEW i \in 1..n PROVE text[(at + m) + i - 1] = y[i]
      OBVIOUS
    <3> DEFINE j == m + i
    <3>2. j \in 1..(m + n) /\ ~(j <= m) /\ j - m = i /\ (at + m) + i - 1 = at + j - 1
      BY <1>1, <1>2
    <3> HIDE DEF j
    <3>3. w[j] = y[i]
      BY <1>1, <3>2
    <3>4. text[at + j - 1] = w[j]
      BY <1>1, <1>2, <3>2
    <3> QED
      BY <3>2, <3>3, <3>4
  <2> QED
    BY <2>1, <2>2 DEF Rest, n
<1>5. SubSeq(text, at, at + m - 1) = x
  <2> DEFINE k == at + m - 1
             s == SubSeq(text, at, k)
  <2>1. k \in Nat /\ k <= Len(text) /\ k - at + 1 = m /\ (at <= k <=> m # 0)
    BY <1>1, <1>2
  <2> HIDE DEF k
  <2>2. s \in Seq(Chars) /\ Len(s) = (IF at <= k THEN k - at + 1 ELSE 0)
        /\ \A i \in 1..(k - at + 1) : s[i] = text[at + i - 1]
    BY <1>2, <2>1, PieceOf
  <2> HIDE DEF s
  <2>3. Len(s) = m /\ \A i \in 1..m : s[i] = x[i]
    BY <1>1, <1>3, <2>1, <2>2
  <2>4. s = x
    BY <2>2, <2>3, SeqEqual DEF m
  <2> QED
    BY <2>4 DEF s, k
<1> QED
  BY <1>3, <1>4, <1>5 DEF m

\* A part ends where the next begins.
LEMMA RestEnds ==
    ASSUME NEW text \in Seq(Chars), NEW at \in Nat \ {0}, NEW x \in Seq(Chars), NEW y \in Seq(Chars),
           Rest(text, at, x \o y), NEW class, ToSet(x) \subseteq class,
           y # <<>> => y[1] \notin class
    PROVE  EndOf(text, at, class) = at + Len(x)
<1> DEFINE end == EndOf(text, at, class)
           m == Len(x)
           n == Len(text)
<1>1. at \in Nat \ {0}
  BY DEF Rest
<1>2. m \in Nat /\ n \in Nat /\ \A i \in 1..m : text[at + i - 1] \in class
  <2>1. \A i \in 1..m : x[i] \in class
    BY DEF ToSet
  <2>2. \A i \in 1..m : text[at + i - 1] = x[i]
    <3>1. /\ Rest(text, at + Len(x), y)
          /\ SubSeq(text, at, at + Len(x) - 1) = x
          /\ \A i \in 1..Len(x) : text[at + i - 1] = x[i]
      BY <1>1, RestAfter
    <3> QED
      BY <3>1
  <2>3. m \in Nat /\ n \in Nat
    OBVIOUS
  <2> HIDE DEF m, n
  <2> QED
    BY <2>1, <2>2, <2>3
<1>3. /\ end \in 1..(n + 1)
      /\ \A i \in at..(end - 1) : i \in 1..n /\ text[i] \in class
      /\ end <= n => at <= end /\ text[end] \notin class
  BY <1>1, EndOfProperties
<1>4. /\ at + m <= n <=> y # <<>>
      /\ y # <<>> => text[at + m] = y[1]
      /\ n = at + m - 1 + Len(y)
  <2>1. Rest(text, at + m, y)
    BY RestAfter
  <2> QED
    BY <2>1, RestIs DEF Rest
<1>5. Len(y) \in Nat
  OBVIOUS
<1> HIDE DEF end, n, m
<1>6. end >= at + m
  <2>1. SUFFICES ASSUME end < at + m PROVE FALSE
    BY <1>1, <1>2, <1>3
  <2>2. end <= n
    BY <1>1, <1>2, <1>3, <1>4, <1>5, <2>1
  <2>3. at <= end /\ text[end] \notin class
    BY <1>3, <2>2
  <2>4. end - at + 1 \in 1..m /\ at + (end - at + 1) - 1 = end
    BY <1>1, <1>2, <1>3, <2>1, <2>3
  <2> QED
    BY <1>2, <2>3, <2>4
<1>7. end <= at + m
  <2>1. SUFFICES ASSUME end > at + m PROVE FALSE
    BY <1>1, <1>2, <1>3
  <2>2. at + m \in at..(end - 1)
    BY <1>1, <1>2, <1>3, <2>1
  <2>3. at + m <= n /\ text[at + m] \in class
    BY <1>3, <2>2
  <2> QED
    BY <1>4, <2>3
<1>8. end = at + m
  BY <1>1, <1>2, <1>3, <1>6, <1>7
<1> QED
  BY <1>8 DEF end, m

------------------------------------------------------------------------------
(* The authority that is printed *)

(***************************************************************************)
(* The marks of an authority that is printed: k is the position of its     *)
(* "@", or 0, and m the length of its host.                                *)
(***************************************************************************)
Marked(auth, k, m, ported, literal) ==
    /\ IF ported THEN k + m + 1 <= Len(auth) /\ auth[k + m + 1] = Colon ELSE Len(auth) = k + m
    /\ k # 0 => auth[k] = At
    /\ literal => m >= 4 /\ auth[k + 1] = 91 /\ auth[k + m] = 93
    /\ \A i \in 1..Len(auth) :
          /\ auth[i] = At => i = k
          /\ auth[i] = 91 => literal /\ i = k + 1
          /\ auth[i] = 93 => literal /\ i = k + m
          /\ auth[i] = Colon => \/ i < k
                                \/ literal /\ k + 1 < i /\ i < k + m
                                \/ ported /\ i = k + m + 1

LEMMA AtMostOne ==
    ASSUME NEW T, NEW x, T \subseteq {x}
    PROVE  Cardinality(T) < 2 /\ Cardinality(T) \in Nat
<1>1. T = {} \/ T = {x}
  OBVIOUS
<1>2. Cardinality({}) = 0 /\ Cardinality({x}) = 1
  BY FS_EmptySet, FS_Singleton
<1>3. CASE T = {}
  BY <1>2, <1>3
<1>4. CASE T = {x}
  BY <1>2, <1>4
<1> QED
  BY <1>1, <1>3, <1>4

LEMMA CutMarked ==
    ASSUME NEW auth \in Seq(Chars), NEW k \in Nat, NEW m \in Nat, NEW ported \in BOOLEAN,
           NEW literal \in BOOLEAN, Marked(auth, k, m, ported, literal)
    PROVE  /\ Cut(auth).errno = "SUCCESS"
           /\ Cut(auth).userinfo = SubSeq(auth, 1, k - 1)
           /\ Cut(auth).host = SubSeq(auth, k + 1, k + m)
           /\ Cut(auth).port = IF ported THEN From(auth, k + m + 2) ELSE <<>>
<1> DEFINE n == Len(auth)
           at == First(Places(auth, At))
           open == First(Places(auth, 91))
           close == First(Places(auth, 93))
           colon == Max(Places(auth, Colon) \cup {0})
           cut == CutAt(auth, at, open, close, colon)
           has_port == (open > 0 /\ colon > close) \/ (open = 0 /\ colon > at)
           repeated == {Second(Places(auth, c)) : c \in {At, 91, 93}} \ {0}
           colons == {i \in Places(auth, Colon) : i > at}
<1>1. /\ at = k /\ open = (IF literal THEN k + 1 ELSE 0) /\ close = (IF literal THEN k + m ELSE 0)
      /\ colon \in Nat
      /\ ported => colon = k + m + 1
      /\ ~ported => \/ colon = 0 \/ colon < k
                    \/ literal /\ k + 1 < colon /\ colon < k + m
  <2>1. /\ n \in Nat
        /\ IF ported THEN k + m + 1 <= n /\ auth[k + m + 1] = Colon ELSE n = k + m
        /\ k # 0 => auth[k] = At
        /\ literal => m >= 4 /\ auth[k + 1] = 91 /\ auth[k + m] = 93
        /\ \A i \in 1..n :
              /\ auth[i] = At => i = k
              /\ auth[i] = 91 => literal /\ i = k + 1
              /\ auth[i] = 93 => literal /\ i = k + m
              /\ auth[i] = Colon => \/ i < k
                                    \/ literal /\ k + 1 < i /\ i < k + m
                                    \/ ported /\ i = k + m + 1
    BY DEF Marked
  <2>2. \/ at = 0 /\ \A i \in 1..n : auth[i] # At
        \/ at \in 1..n /\ auth[at] = At
    BY FirstProperties, Zenon
  <2>3. \/ open = 0 /\ \A i \in 1..n : auth[i] # 91
        \/ open \in 1..n /\ auth[open] = 91
    <3> DEFINE c == 91
    <3> HIDE DEF c
    <3>1. LET x == First(Places(auth, c))
          IN  \/ x = 0 /\ \A i \in 1..n : auth[i] # c
              \/ x \in 1..n /\ auth[x] = c
      BY FirstProperties, Zenon
    <3> QED
      BY <3>1 DEF c
  <2>4. \/ close = 0 /\ \A i \in 1..n : auth[i] # 93
        \/ close \in 1..n /\ auth[close] = 93
    <3> DEFINE c == 93
    <3> HIDE DEF c
    <3>1. LET x == First(Places(auth, c))
          IN  \/ x = 0 /\ \A i \in 1..n : auth[i] # c
              \/ x \in 1..n /\ auth[x] = c
      BY FirstProperties, Zenon
    <3> QED
      BY <3>1 DEF c
  <2>5. \/ colon = 0 /\ \A i \in 1..n : auth[i] # Colon
        \/ /\ colon \in 1..n /\ auth[colon] = Colon
           /\ \A i \in (colon + 1)..n : auth[i] # Colon
    BY LastProperties, Zenon
  <2> HIDE DEF n, at, open, close, colon
  <2>6. at = k
    <3>1. k # 0 => k \in 1..n
      BY <2>1
    <3> QED
      BY <2>1, <2>2, <3>1
  <2>7. open = IF literal THEN k + 1 ELSE 0
    <3>1. literal => k + 1 \in 1..n
      BY <2>1
    <3> QED
      BY <2>1, <2>3, <3>1
  <2>8. close = IF literal THEN k + m ELSE 0
    <3>1. literal => k + m \in 1..n
      BY <2>1
    <3> QED
      BY <2>1, <2>4, <3>1
  <2>9. /\ colon \in Nat
        /\ ported => colon = k + m + 1
        /\ ~ported => \/ colon = 0 \/ colon < k
                      \/ literal /\ k + 1 < colon /\ colon < k + m
    <3>1. colon \in Nat
      BY <2>1, <2>5
    <3>2. ASSUME ported PROVE colon = k + m + 1
      <4>1. k + m + 1 \in 1..n /\ auth[k + m + 1] = Colon
        BY <2>1, <3>2
      <4>2. colon \in 1..n /\ auth[colon] = Colon /\ ~(k + m + 1 \in (colon + 1)..n)
        BY <2>5, <4>1
      <4>3. colon >= k + m + 1
        BY <2>1, <4>1, <4>2
      <4> QED
        BY <2>1, <4>2, <4>3
    <3>3. ASSUME ~ported PROVE \/ colon = 0 \/ colon < k
                               \/ literal /\ k + 1 < colon /\ colon < k + m
      BY <2>1, <2>5, <3>3
    <3> QED
      BY <3>1, <3>2, <3>3
  <2> QED
    BY <2>6, <2>7, <2>8, <2>9 DEF at, open, close, colon
<1>2. repeated = {}
  <2>1. Places(auth, At) \subseteq {k} /\ Places(auth, 91) \subseteq {k + 1} /\ Places(auth, 93) \subseteq {k + m}
    BY DEF Places, Marked
  <2>2. \A c \in {At, 91, 93} : Cardinality(Places(auth, c)) < 2
    <3>1. Cardinality(Places(auth, At)) < 2
      BY <2>1, AtMostOne
    <3>2. Cardinality(Places(auth, 91)) < 2
      BY <2>1, AtMostOne
    <3>3. Cardinality(Places(auth, 93)) < 2
      BY <2>1, AtMostOne
    <3> QED
      BY <3>1, <3>2, <3>3
  <2>3. \A c \in {At, 91, 93} : Second(Places(auth, c)) = 0
    BY <2>2, Zenon DEF Second
  <2> QED
    BY <2>3
<1>3. ~literal => ~(Cardinality(colons) > 1)
  <2>1. SUFFICES ASSUME ~literal PROVE ~(Cardinality(colons) > 1)
    OBVIOUS
  <2>2. colons \subseteq {k + m + 1}
    <3>1. \A i \in 1..n : auth[i] = Colon => i < k \/ i = k + m + 1
      BY <2>1 DEF Marked
    <3> HIDE DEF at
    <3>2. colons = {i \in 1..n : auth[i] = Colon /\ i > k}
      BY <1>1 DEF Places
    <3> HIDE DEF colons
    <3> QED
      BY <3>1, <3>2
  <2> HIDE DEF colons
  <2>3. Cardinality(colons) < 2 /\ Cardinality(colons) \in Nat
    BY <2>2, AtMostOne
  <2> QED
    BY <2>3
<1>4. Cut(auth) = cut
  BY DEF Cut
<1>5. /\ cut.userinfo = SubSeq(auth, 1, at - 1)
      /\ cut.host = CASE open > 0 -> SubSeq(auth, open, close)
                      [] open = 0 /\ has_port -> SubSeq(auth, at + 1, colon - 1)
                      [] OTHER -> From(auth, at + 1)
      /\ cut.port = IF has_port THEN From(auth, colon + 1) ELSE <<>>
      /\ cut.errno = CASE repeated # {} ->
                            IF auth[Min(repeated)] = At THEN "URI_MULTI_AT" ELSE "URI_MULTI_IP_LIT"
                       [] repeated = {} /\ ((open = 0) # (close = 0) \/ open > close) ->
                            "URI_IP_LIT_MISMATCH"
                       [] repeated = {} /\ open = 0 /\ close = 0 /\ at > 0 /\ Cardinality(colons) > 1 -> "URI_COLON"
                       [] repeated = {} /\ open > 0 /\ close > open /\ colon > close + 1 -> "URI_COLON"
                       [] OTHER -> "SUCCESS"
  BY Zenon DEF CutAt
<1> HIDE DEF cut, repeated, colons, at, open, close, colon
<1>6. has_port <=> ported
  BY <1>1 DEF Marked
<1>7. cut.errno = "SUCCESS"
  <2>1. ~((open = 0) # (close = 0) \/ open > close)
    BY <1>1 DEF Marked
  <2>2. ~(open = 0 /\ close = 0 /\ at > 0 /\ Cardinality(colons) > 1)
    BY <1>1, <1>3
  <2>3. ~(open > 0 /\ close > open /\ colon > close + 1)
    BY <1>1, <1>6
  <2> DEFINE a == (open = 0) # (close = 0) \/ open > close
             b == open = 0 /\ close = 0 /\ at > 0 /\ Cardinality(colons) > 1
             c == open > 0 /\ close > open /\ colon > close + 1
  <2> QED
    BY <1>2, <1>5, <2>1, <2>2, <2>3, Zenon
<1>8. cut.userinfo = SubSeq(auth, 1, k - 1)
  BY <1>1, <1>5
<1>9. cut.port = IF ported THEN From(auth, k + m + 2) ELSE <<>>
  <2>1. ported => colon + 1 = k + m + 2
    BY <1>1
  <2> HIDE DEF has_port
  <2> QED
    BY <1>5, <1>6, <2>1
<1>10. cut.host = SubSeq(auth, k + 1, k + m)
  <2>1. CASE literal
    <3>1. open > 0 /\ open = k + 1 /\ close = k + m /\ ~(open = 0)
      BY <1>1, <2>1
    <3>2. cut.host = SubSeq(auth, open, close)
      BY <1>5, <3>1, Zenon
    <3> QED
      BY <3>1, <3>2
  <2>2. CASE ~literal /\ ported
    <3>1. open = 0 /\ ~(open > 0) /\ has_port /\ at + 1 = k + 1 /\ colon - 1 = k + m
      BY <1>1, <1>6, <2>2
    <3> HIDE DEF has_port
    <3>2. cut.host = SubSeq(auth, at + 1, colon - 1)
      BY <1>5, <3>1, Zenon
    <3> QED
      BY <3>1, <3>2
  <2>3. CASE ~literal /\ ~ported
    <3>1. open = 0 /\ ~(open > 0) /\ ~has_port /\ at + 1 = k + 1
      BY <1>1, <1>6, <2>3
    <3> HIDE DEF has_port
    <3>2. cut.host = From(auth, at + 1)
      BY <1>5, <3>1, Zenon
    <3>3. Len(auth) = k + m
      BY <2>3 DEF Marked
    <3> QED
      BY <3>1, <3>2, <3>3 DEF From
  <2> QED
    BY <2>1, <2>2, <2>3
<1> QED
  BY <1>4, <1>7, <1>8, <1>9, <1>10

\* A text of three parts, the first two of which are k and m characters long.
Parts(t, k, m, x, y, z) ==
    /\ t \in Seq(Chars) /\ Len(t) = k + m + Len(z)
    /\ \A i \in 1..k : t[i] = x[i]
    /\ \A i \in (k + 1)..(k + m) : t[i] = y[i - k]
    /\ \A i \in (k + m + 1)..Len(t) : t[i] = z[i - (k + m)]
    /\ SubSeq(t, k + 1, k + m) = y

LEMMA ThreeParts ==
    ASSUME NEW x \in Seq(Chars), NEW y \in Seq(Chars), NEW z \in Seq(Chars)
    PROVE  Parts(x \o y \o z, Len(x), Len(y), x, y, z)
<1> DEFINE s == x \o y
           k == Len(x)
           m == Len(y)
           t == x \o y \o z
<1>1. s \in Seq(Chars) /\ Len(s) = k + m /\ k \in Nat /\ m \in Nat /\ Len(z) \in Nat
  OBVIOUS
<1>2. y = [i \in 1..m |-> y[i]]
  OBVIOUS
<1>3. \A i \in 1..k : s[i] = x[i]
  OBVIOUS
<1>4. \A i \in (k + 1)..(k + m) : s[i] = y[i - k]
  OBVIOUS
<1> HIDE DEF s, k, m
<1>5. t = s \o z
  BY DEF s
<1> HIDE DEF t
<1>6. t \in Seq(Chars) /\ Len(t) = k + m + Len(z)
  <2>1. Len(s \o z) = Len(s) + Len(z) /\ s \o z \in Seq(Chars)
    BY <1>1, ConcatProperties
  <2> QED
    BY <1>1, <1>5, <2>1
<1>7. \A i \in 1..(k + m) : t[i] = s[i]
  BY <1>1, <1>5
<1>8. \A i \in (k + m + 1)..Len(t) : t[i] = z[i - (k + m)]
  BY <1>1, <1>5
<1>9. (\A i \in 1..k : t[i] = x[i]) /\ \A i \in (k + 1)..(k + m) : t[i] = y[i - k]
  <2>1. \A i \in 1..k : i \in 1..(k + m)
    BY <1>1
  <2>2. \A i \in (k + 1)..(k + m) : i \in 1..(k + m)
    BY <1>1
  <2> QED
    BY <1>3, <1>4, <1>7, <2>1, <2>2
<1>10. SubSeq(t, k + 1, k + m) = y
  <2> DEFINE w == SubSeq(t, k + 1, k + m)
  <2>1. w = [i \in 1..m |-> t[k + 1 + i - 1]]
    <3>1. k + 1 \in 1..(Len(t) + 1) /\ k + m <= Len(t) /\ k + m - (k + 1) + 1 = m
      BY <1>1, <1>6
    <3> QED
      BY <1>1, <1>6, <3>1
  <2>2. \A i \in 1..m : t[k + 1 + i - 1] = y[i]
    <3>1. TAKE i \in 1..m
    <3> DEFINE j == k + i
    <3>2. j \in (k + 1)..(k + m) /\ j - k = i /\ k + 1 + i - 1 = j
      BY <1>1
    <3> HIDE DEF j
    <3>3. t[j] = y[j - k]
      BY <1>9, <3>2, Zenon
    <3> QED
      BY <3>2, <3>3
  <2>3. y = [i \in 1..m |-> y[i]]
    BY <1>2
  <2> HIDE DEF w
  <2>4. w = y
    BY <2>1, <2>2, <2>3
  <2> QED
    BY <2>4 DEF w
<1>11. Parts(t, k, m, x, y, z)
  BY <1>6, <1>8, <1>9, <1>10, Zenon DEF Parts
<1> QED
  BY <1>11 DEF t, k, m

\* What stands before and after a host.
BeforeHost(userinfo) == IF userinfo = <<>> THEN <<>> ELSE Append(userinfo, At)
AfterHost(ported, digits) == IF ported THEN <<Colon>> \o digits ELSE <<>>

LEMMA BeforeHostFacts ==
    ASSUME NEW x \in Seq(Chars)
    PROVE  LET f == BeforeHost(x)
           IN  /\ f \in Seq(Chars) /\ Len(f) \in Nat
               /\ x = <<>> => Len(f) = 0
               /\ x # <<>> => Len(f) = Len(x) + 1 /\ f[Len(f)] = At /\ Len(x) \in Nat \ {0}
               /\ x # <<>> => \A i \in 1..Len(f) : i # Len(f) => i \in 1..Len(x) /\ f[i] = x[i]
<1> DEFINE g == Append(x, At)
<1>1. At \in Chars
  BY DEF At, Chars
<1>2. g \in Seq(Chars) /\ Len(g) = Len(x) + 1 /\ g[Len(g)] = At /\ Len(x) \in Nat
      /\ \A i \in 1..Len(x) : g[i] = x[i]
  BY <1>1
<1>3. x # <<>> => Len(x) # 0
  OBVIOUS
<1> HIDE DEF g
<1>4. CASE x = <<>>
  BY <1>4 DEF BeforeHost
<1>5. CASE x # <<>>
  <2>1. BeforeHost(x) = g
    BY <1>5 DEF BeforeHost, g
  <2>2. \A i \in 1..Len(g) : i # Len(g) => i \in 1..Len(x) /\ g[i] = x[i]
    BY <1>2
  <2> QED
    BY <1>2, <1>3, <1>5, <2>1, <2>2
<1> QED
  BY <1>4, <1>5

LEMMA AfterHostFacts ==
    ASSUME NEW ported \in BOOLEAN, NEW d \in Seq(DIGIT)
    PROVE  LET b == AfterHost(ported, d)
           IN  /\ b \in Seq(Chars) /\ Len(b) \in Nat
               /\ ~ported => Len(b) = 0
               /\ ported => Len(b) = Len(d) + 1 /\ b[1] = Colon /\ From(b, 2) = d
               /\ ported => \A i \in 1..Len(b) : i # 1 => b[i] \in DIGIT
<1> DEFINE b == <<Colon>> \o d
<1>1. <<Colon>> \in Seq(Chars) /\ d \in Seq(Chars) /\ Len(<<Colon>>) = 1
  BY DelimFacts DEF Colon, Chars, DIGIT
<1>2. b \in Seq(Chars) /\ Len(b) = Len(d) + 1 /\ Len(d) \in Nat /\ b[1] = Colon
  BY <1>1
<1>3. \A i \in 2..Len(b) : b[i] = d[i - 1] /\ d[i - 1] \in DIGIT
  <2>1. \A i \in 2..Len(b) : i - 1 \in 1..Len(d)
    BY <1>2
  <2>2. \A i \in 1..Len(d) : d[i] \in DIGIT
    OBVIOUS
  <2>3. \A i \in 2..Len(b) : b[i] = d[i - 1]
    BY <1>2, <1>1
  <2> QED
    BY <2>1, <2>2, <2>3
<1> HIDE DEF b
<1>4. From(b, 2) = d
  <2> DEFINE w == SubSeq(b, 2, Len(b))
  <2>1. w = [i \in 1..Len(d) |-> b[2 + i - 1]]
    <3>1. 2 \in 1..(Len(b) + 1) /\ Len(b) - 2 + 1 = Len(d)
      BY <1>2
    <3> QED
      BY <1>2, <3>1
  <2>2. \A i \in 1..Len(d) : b[2 + i - 1] = d[i]
    <3>1. TAKE i \in 1..Len(d)
    <3>2. i + 1 \in 2..Len(b) /\ i + 1 - 1 = i /\ 2 + i - 1 = i + 1
      BY <1>2
    <3> QED
      BY <1>3, <3>2
  <2>3. d = [i \in 1..Len(d) |-> d[i]]
    OBVIOUS
  <2> HIDE DEF w
  <2>4. w = d
    BY <2>1, <2>2, <2>3
  <2> QED
    BY <2>4 DEF w, From
<1>5. CASE ported
  <2>1. AfterHost(ported, d) = b
    BY <1>5 DEF AfterHost, b
  <2>2. \A i \in 1..Len(b) : i # 1 => b[i] \in DIGIT
    BY <1>2, <1>3
  <2> QED
    <3>1. Len(b) \in Nat
      BY <1>2
    <3> QED
      BY <1>2, <1>4, <1>5, <2>1, <2>2, <3>1, Zenon
<1>6. CASE ~ported
  BY <1>6 DEF AfterHost
<1> QED
  BY <1>5, <1>6

AuthorityText(userinfo, host, ported, digits) == BeforeHost(userinfo) \o host \o AfterHost(ported, digits)

LEMMA HostParts ==
    ASSUME NEW h, HostOk(h)
    PROVE  /\ h \in Seq(Chars) /\ Len(h) \in Nat /\ LiteralOk(h) \in BOOLEAN
           /\ LiteralOk(h) => Len(h) >= 4 /\ h[1] = 91 /\ h[Len(h)] = 93
           /\ \A i \in 1..Len(h) :
                 /\ h[i] # At
                 /\ h[i] = 91 => LiteralOk(h) /\ i = 1
                 /\ h[i] = 93 => LiteralOk(h) /\ i = Len(h)
                 /\ h[i] = Colon => LiteralOk(h) /\ 1 < i /\ i < Len(h)
<1>1. h \in Seq(Chars) /\ Len(h) \in Nat
  BY DEF HostOk
<1>2. LiteralOk(h) \in BOOLEAN
  BY Zenon DEF LiteralOk
<1>3. LiteralOk(h) => /\ Len(h) >= 4 /\ h[1] = 91 /\ h[Len(h)] = 93
                      /\ \A k \in 2..(Len(h) - 1) : h[k] \in LiteralClass
  BY Zenon DEF LiteralOk
<1>4. At \notin LiteralClass /\ 91 \notin LiteralClass /\ 93 \notin LiteralClass /\ At # 91 /\ At # 93
      /\ Colon # 91 /\ Colon # 93
  BY LiteralClassFacts DEF At, Colon
<1>5. CASE LiteralOk(h)
  <2>1. \A i \in 1..Len(h) : i = 1 \/ i = Len(h) \/ i \in 2..(Len(h) - 1)
    BY <1>1
  <2> DEFINE c == LiteralOk(h)
  <2> HIDE DEF c
  <2>2. \A i \in 1..Len(h) :
                 /\ h[i] # At
                 /\ h[i] = 91 => i = 1
                 /\ h[i] = 93 => i = Len(h)
                 /\ h[i] = Colon => 1 < i /\ i < Len(h)
    BY <1>1, <1>3, <1>4, <1>5, <2>1
  <2> QED
    BY <1>1, <1>2, <1>3, <1>5, <2>2, ZenonT(60)
<1>6. CASE ~LiteralOk(h)
  <2>1. ToSet(h) \cap gen_delims = {}
    BY <1>6 DEF HostOk
  <2>2. \A i \in 1..Len(h) : h[i] \notin gen_delims
    BY <1>1, <2>1 DEF ToSet
  <2>3. \A i \in 1..Len(h) : h[i] # At /\ h[i] # 91 /\ h[i] # 93 /\ h[i] # Colon
    BY <2>2 DEF gen_delims
  <2> QED
    BY <1>1, <1>2, <1>6, <2>3, Zenon
<1> QED
  BY <1>2, <1>5, <1>6

LEMMA AuthorityMarked ==
    ASSUME NEW x, UserinfoOk(x), NEW h, HostOk(h),
           NEW ported \in BOOLEAN, NEW d \in Seq(DIGIT),
           NEW t, t = AuthorityText(x, h, ported, d)
    PROVE  /\ t \in Seq(Chars)
           /\ Marked(t, Len(BeforeHost(x)), Len(h), ported, LiteralOk(h))
           /\ SubSeq(t, 1, Len(BeforeHost(x)) - 1) = x
           /\ SubSeq(t, Len(BeforeHost(x)) + 1, Len(BeforeHost(x)) + Len(h)) = h
           /\ ported => From(t, Len(BeforeHost(x)) + Len(h) + 2) = d
<1> DEFINE f == BeforeHost(x)
           b == AfterHost(ported, d)
           k == Len(f)
           m == Len(h)
           literal == LiteralOk(h)
           n == Len(t)
<1>1. x \in Seq(Chars) /\ \A i \in 1..Len(x) : x[i] \notin {At, 91, 93}
  <2>1. x \in Seq(Chars) /\ ToSet(x) \cap gen_delims \subseteq {Colon}
    BY DEF UserinfoOk, DecodedOk
  <2>2. \A i \in 1..Len(x) : x[i] \in gen_delims => x[i] = Colon
    BY <2>1 DEF ToSet
  <2> QED
    BY <2>1, <2>2 DEF gen_delims, Colon, At
<1>2. /\ f \in Seq(Chars) /\ k \in Nat
      /\ x = <<>> => k = 0
      /\ x # <<>> => k = Len(x) + 1 /\ f[k] = At /\ Len(x) \in Nat \ {0}
      /\ x # <<>> => \A i \in 1..k : i # k => i \in 1..Len(x) /\ f[i] = x[i]
  BY <1>1, BeforeHostFacts
<1>3. /\ b \in Seq(Chars) /\ Len(b) \in Nat
      /\ ~ported => Len(b) = 0
      /\ ported => Len(b) = Len(d) + 1 /\ b[1] = Colon /\ From(b, 2) = d
      /\ ported => \A i \in 1..Len(b) : i # 1 => b[i] \in DIGIT
  BY AfterHostFacts
<1>4. /\ h \in Seq(Chars) /\ m \in Nat /\ literal \in BOOLEAN
      /\ literal => m >= 4 /\ h[1] = 91 /\ h[m] = 93
      /\ \A i \in 1..m :
            /\ h[i] # At
            /\ h[i] = 91 => literal /\ i = 1
            /\ h[i] = 93 => literal /\ i = m
            /\ h[i] = Colon => literal /\ 1 < i /\ i < m
  BY HostParts, Zenon
<1> HIDE DEF f, b, literal, m
<1>5. t = f \o h \o b /\ k = Len(f) /\ m = Len(h)
  BY DEF f, b, m, AuthorityText
<1> HIDE DEF k
<1> HIDE DEF n
<1>6. /\ t \in Seq(Chars) /\ n = k + m + Len(b)
      /\ \A i \in 1..k : t[i] = f[i]
      /\ \A i \in (k + 1)..(k + m) : t[i] = h[i - k]
      /\ \A i \in (k + m + 1)..n : t[i] = b[i - (k + m)]
      /\ SubSeq(t, k + 1, k + m) = h
  <2>1. n = Len(t)
    BY DEF n
  <2>2. Parts(t, k, m, f, h, b)
    BY <1>2, <1>3, <1>4, <1>5, ThreeParts
  <2> QED
    BY <2>1, <2>2, Zenon DEF Parts
<1>7. \A i \in (k + 1)..(k + m) : t[i] = h[i - k]
  BY <1>6
<1>8. \A i \in (k + m + 1)..n : t[i] = b[i - (k + m)]
  BY <1>6
<1>9. Marked(t, k, m, ported, literal)
  <2>1. IF ported THEN k + m + 1 <= n /\ t[k + m + 1] = Colon ELSE n = k + m
    <3>1. CASE ported
      <4>1. Len(d) \in Nat
        OBVIOUS
      <4>2. n >= k + m + 1 /\ k + m + 1 \in (k + m + 1)..n /\ k + m + 1 - (k + m) = 1
        BY <1>2, <1>3, <1>4, <1>6, <3>1, <4>1
      <4>3. t[k + m + 1] = b[1]
        <5>1. t[k + m + 1] = b[k + m + 1 - (k + m)]
          BY <1>2, <1>3, <1>4, <1>6, <4>2
        <5> QED
          BY <4>2, <5>1
      <4> QED
        BY <1>3, <3>1, <4>2, <4>3
    <3>2. CASE ~ported
      BY <1>2, <1>3, <1>4, <1>6, <3>2
    <3> QED
      BY <3>1, <3>2
  <2>2. k # 0 => t[k] = At
    BY <1>2, <1>6
  <2>3. literal => m >= 4 /\ t[k + 1] = 91 /\ t[k + m] = 93
    <3>1. literal => m >= 4 /\ k + 1 \in (k + 1)..(k + m) /\ k + 1 - k = 1
                     /\ k + m \in (k + 1)..(k + m) /\ k + m - k = m
      BY <1>2, <1>4
    <3>2. ASSUME literal PROVE t[k + 1] = h[k + 1 - k] /\ t[k + m] = h[k + m - k]
      BY <1>2, <1>4, <1>7, <3>1, <3>2
    <3> QED
      BY <1>4, <3>1, <3>2
  <2>4. \A i \in 1..n :
          /\ t[i] = At => i = k
          /\ t[i] = 91 => literal /\ i = k + 1
          /\ t[i] = 93 => literal /\ i = k + m
          /\ t[i] = Colon => \/ i < k
                             \/ literal /\ k + 1 < i /\ i < k + m
                             \/ ported /\ i = k + m + 1
    <3>1. TAKE i \in 1..n
    <3>2. At # 91 /\ At # 93 /\ Colon # 91 /\ Colon # 93 /\ At # Colon
          /\ {At, 91, 93, Colon} \cap DIGIT = {}
      BY DEF At, Colon, DIGIT
    <3>3. i \in 1..k \/ i \in (k + 1)..(k + m) \/ i \in (k + m + 1)..n
      BY <1>2, <1>3, <1>4, <1>6
    <3>4. CASE i \in 1..k
      <4>1. x # <<>>
        BY <1>2, <3>4
      <4>2. t[i] = f[i]
        BY <1>6, <3>4
      <4>3. i = k => t[i] = At
        BY <1>2, <4>1, <4>2
      <4>4. i # k => i < k /\ t[i] \notin {At, 91, 93}
        BY <1>1, <1>2, <3>4, <4>1, <4>2
      <4> QED
        BY <3>2, <4>3, <4>4
    <3>5. CASE i \in (k + 1)..(k + m)
      <4>1. i - k \in 1..m /\ t[i] = h[i - k]
        BY <1>2, <1>4, <1>6, <3>5
      <4> DEFINE j == i - k
      <4>2. j = 1 => i = k + 1
        BY <1>2
      <4>3. j = m => i = k + m
        BY <1>2, <1>4
      <4>4. 1 < j /\ j < m => k + 1 < i /\ i < k + m
        BY <1>2, <1>4
      <4> HIDE DEF j
      <4>5. j \in 1..m /\ t[i] = h[j]
        BY <4>1 DEF j
      <4> QED
        BY <1>4, <4>2, <4>3, <4>4, <4>5
    <3>6. CASE i \in (k + m + 1)..n
      <4>1. i - (k + m) \in 1..Len(b) /\ t[i] = b[i - (k + m)]
        BY <1>2, <1>3, <1>4, <1>6, <3>6
      <4> DEFINE j == i - (k + m)
      <4>2. j = 1 => i = k + m + 1
        BY <1>2, <1>4
      <4> HIDE DEF j
      <4>3. j \in 1..Len(b) /\ t[i] = b[j]
        BY <4>1 DEF j
      <4>4. ported
        BY <1>3, <4>3
      <4>5. j = 1 => t[i] = Colon
        BY <1>3, <4>3, <4>4
      <4>6. j # 1 => t[i] \in DIGIT
        BY <1>3, <4>3, <4>4
      <4> QED
        BY <3>2, <4>2, <4>4, <4>5, <4>6
    <3> QED
      BY <3>3, <3>4, <3>5, <3>6
  <2> QED
    BY <2>1, <2>2, <2>3, <2>4, Zenon DEF Marked, n
<1>10. SubSeq(t, 1, k - 1) = x
  <2>1. CASE x = <<>>
    <3>1. 1 > k - 1
      BY <1>2, <2>1
    <3> QED
      BY <1>2, <1>6, <2>1, <3>1
  <2>2. CASE x # <<>>
    <3> DEFINE w == SubSeq(t, 1, k - 1)
    <3>1. k - 1 = Len(x) /\ Len(x) \in Nat \ {0} /\ Len(x) <= Len(t)
      BY <1>2, <1>3, <1>4, <1>6, <2>2 DEF n
    <3>2. w = [i \in 1..Len(x) |-> t[i]]
      BY <1>6, <3>1
    <3>3. \A i \in 1..Len(x) : t[i] = x[i]
      <4>1. \A i \in 1..Len(x) : i \in 1..k /\ i # k
        BY <1>2, <3>1
      <4> QED
        BY <1>2, <1>6, <2>2, <4>1
    <3>4. x = [i \in 1..Len(x) |-> x[i]]
      BY <1>1
    <3> HIDE DEF w
    <3>5. w = x
      BY <3>2, <3>3, <3>4
    <3> QED
      BY <3>5 DEF w
  <2> QED
    BY <2>1, <2>2
<1>11. ported => From(t, k + m + 2) = d
  <2>1. SUFFICES ASSUME ported PROVE From(t, k + m + 2) = d
    OBVIOUS
  <2> DEFINE w == From(t, k + m + 2)
             v == From(b, 2)
             j == Len(d)
  <2>2. Len(b) = j + 1 /\ j \in Nat /\ n = k + m + j + 1
    <3>1. j \in Nat
      OBVIOUS
    <3>2. Len(b) = j + 1
      BY <1>3, <2>1
    <3> HIDE DEF j
    <3> QED
      BY <1>2, <1>4, <1>6, <3>1, <3>2
  <2> HIDE DEF j
  <2>3. w = [i \in 1..j |-> t[k + m + 2 + i - 1]]
    <3>1. k + m + 2 \in 1..(n + 1) /\ n <= Len(t) /\ n - (k + m + 2) + 1 = j
      BY <1>2, <1>4, <2>2 DEF n
    <3>2. w = SubSeq(t, k + m + 2, n)
      BY DEF From, n
    <3> DEFINE a == k + m + 2
    <3>3. a \in 1..(n + 1) /\ n - a + 1 = j /\ w = SubSeq(t, a, n) /\ t \in Seq(Chars) /\ n <= Len(t)
      BY <1>6, <3>1, <3>2
    <3> HIDE DEF w, a
    <3>4. w = [i \in 1..j |-> t[a + i - 1]]
      BY <3>3 DEF n
    <3> QED
      BY <3>4 DEF a
  <2>4. v = [i \in 1..j |-> b[2 + i - 1]]
    <3>1. 2 \in 1..(Len(b) + 1) /\ Len(b) - 2 + 1 = j
      BY <2>2
    <3>2. v = SubSeq(b, 2, Len(b))
      BY DEF From
    <3> HIDE DEF v
    <3> QED
      BY <1>3, <3>1, <3>2
  <2>5. \A i \in 1..j : t[k + m + 2 + i - 1] = b[2 + i - 1]
    <3>1. TAKE i \in 1..j
    <3>2. k + m + 2 + i - 1 \in (k + m + 1)..n /\ k + m + 2 + i - 1 - (k + m) = 2 + i - 1
      BY <1>2, <1>4, <2>2
    <3>3. t[k + m + 2 + i - 1] = b[k + m + 2 + i - 1 - (k + m)]
      BY <1>2, <1>4, <1>8, <3>2
    <3> QED
      BY <3>2, <3>3
  <2> HIDE DEF w, v
  <2>6. w = v
    BY <2>3, <2>4, <2>5
  <2> QED
    BY <1>3, <2>1, <2>6 DEF w, v
<1> QED
  BY <1>6, <1>9, <1>10, <1>11 DEF f, k, m, literal

PrintsPort(u, flag) == u.port >= 0 /\ ~flag
DigitsOf(u, flag) == IF PrintsPort(u, flag) THEN Decimal[u.port] ELSE <<>>
PortAgain(u, flag) == IF flag THEN -1 ELSE u.port

LEMMA PortPrinted ==
    ASSUME NEW u, NEW flag \in BOOLEAN, Canonical(u, flag), ~UndefinedFlag(u)
    PROVE  /\ PrintsPort(u, flag) \in BOOLEAN
           /\ DigitsOf(u, flag) \in Seq(DIGIT) /\ Len(DigitsOf(u, flag)) <= 9
           /\ PrintsPort(u, flag) => /\ DigitsOf(u, flag) # <<>> /\ u.has_auth
                                     /\ Number(DigitsOf(u, flag)) = PortAgain(u, flag)
           /\ ~PrintsPort(u, flag) => DigitsOf(u, flag) = <<>> /\ PortAgain(u, flag) = -1
<1>1. PortCanonical(u, flag)
  BY DEF Canonical
<1>2. PrintsPort(u, flag) \in BOOLEAN
  BY Zenon DEF PrintsPort
<1>3. CASE PrintsPort(u, flag)
  <2>1. u.has_auth /\ Printed(u.port) /\ ~flag
    BY <1>1, <1>3 DEF PrintsPort, PortCanonical
  <2>2. PICK t \in Seq(DIGIT) : t # <<>> /\ Len(t) <= 9 /\ u.port = Number(t)
    BY <2>1 DEF Printed
  <2> DEFINE n == Number(t)
  <2>3. /\ n \in Nat
        /\ Decimal[n] \in Seq(DIGIT) /\ Decimal[n] # <<>>
        /\ Len(Decimal[n]) <= Len(t)
        /\ Number(Decimal[n]) = n
    BY <2>2, PrintedNumber
  <2> HIDE DEF n
  <2>4. u.port = n
    BY <2>2 DEF n
  <2>5. DigitsOf(u, flag) = Decimal[n]
    BY <1>3, <2>4 DEF DigitsOf
  <2>6. PortAgain(u, flag) = n
    BY <2>1, <2>4 DEF PortAgain
  <2> DEFINE d == Decimal[n]
  <2> HIDE DEF d
  <2>7. d \in Seq(DIGIT) /\ d # <<>> /\ Len(d) <= 9 /\ Number(d) = n
    <3>1. d \in Seq(DIGIT) /\ d # <<>> /\ Len(d) <= Len(t) /\ Number(d) = n
      BY <2>3 DEF d
    <3>2. Len(d) \in Nat /\ Len(t) \in Nat /\ Len(t) <= 9
      BY <2>2, <3>1
    <3> QED
      BY <3>1, <3>2
  <2> QED
    BY <1>2, <1>3, <2>1, <2>5, <2>6, <2>7, Zenon DEF d
<1>4. CASE ~PrintsPort(u, flag)
  <2>1. DigitsOf(u, flag) = <<>>
    BY <1>4 DEF DigitsOf
  <2>2. PortAgain(u, flag) = -1
    <3>1. CASE flag
      BY <3>1 DEF PortAgain
    <3>2. CASE ~flag
      <4>1. ~(u.port >= 0)
        BY <1>4, <3>2 DEF PrintsPort
      <4>2. ~Printed(u.port)
        <5>1. u.port \in Nat => u.port >= 0
          OBVIOUS
        <5> QED
          BY <4>1, <5>1, PrintedIsNat
      <4>3. u.port = -1
        BY <1>1, <3>2, <4>2 DEF PortCanonical
      <4> QED
        BY <3>2, <4>3 DEF PortAgain
    <3> QED
      BY <3>1, <3>2
  <2>3. <<>> \in Seq(DIGIT) /\ Len(<<>>) <= 9
    OBVIOUS
  <2> QED
    BY <1>2, <1>4, <2>1, <2>2, <2>3
<1> QED
  BY <1>3, <1>4

LEMMA AuthorityIs ==
    ASSUME NEW u, NEW flag \in BOOLEAN
    PROVE  authority(u, flag) = AuthorityText(u.userinfo, u.host, PrintsPort(u, flag), DigitsOf(u, flag))
<1>1. CASE PrintsPort(u, flag)
  BY <1>1, Zenon DEF authority, AuthorityText, BeforeHost, AfterHost, DigitsOf, PrintsPort
<1>2. CASE ~PrintsPort(u, flag)
  BY <1>2, Zenon DEF authority, AuthorityText, BeforeHost, AfterHost, DigitsOf, PrintsPort
<1> QED
  BY <1>1, <1>2

LEMMA PrintedClasses ==
    /\ \A c \in pchar : /\ c \notin WhiteSpace
                        /\ c \in UserinfoClass \/ c = At
                        /\ c \in HostClass \/ c = Colon \/ c = At
    /\ At \in gen_delims /\ Colon \in gen_delims /\ 91 \in gen_delims /\ At # Colon
    /\ \A c : c \in UserinfoClass \/ c \in HostClass \/ c \in DIGIT \/ c \in LiteralClass
             \/ c \in {At, Colon, 91, 93} => c \in AuthorityClass
    /\ \A c \in AuthorityClass : c # Slash /\ c # Question /\ c # Hash
<1>1. \A c \in pchar : /\ c \in UserinfoClass \/ c = At
                       /\ c \in HostClass \/ c = Colon \/ c = At
  BY DEF pchar, UserinfoClass, HostClass
<1>2. \A c \in pchar : c \notin WhiteSpace
  BY DEF pchar, WhiteSpace, unreserved, sub_delims, ALPHA, DIGIT, At, Colon, Percent, Dot
<1>3. At \in gen_delims /\ Colon \in gen_delims /\ 91 \in gen_delims /\ At # Colon
  BY DEF gen_delims, At, Colon
<1>4. \A c : c \in UserinfoClass \/ c \in HostClass \/ c \in DIGIT \/ c \in LiteralClass
             \/ c \in {At, Colon, 91, 93} => c \in AuthorityClass
  BY DEF UserinfoClass, HostClass, LiteralClass, AuthorityClass, unreserved
<1>5. \A c \in AuthorityClass : c # Slash /\ c # Question /\ c # Hash
  BY DEF AuthorityClass, unreserved, sub_delims, ALPHA, DIGIT, At, Colon, Slash, Question, Hash, Percent, Dot
<1> QED
  BY <1>1, <1>2, <1>3, <1>4, <1>5, Zenon

LEMMA ItselfDecoded ==
    ASSUME NEW x, NEW tolower, DecodesToItself(x, tolower)
    PROVE  PercentDecode(x, tolower).ok /\ PercentDecode(x, tolower).str = x
<1> DEFINE d == PercentDecode(x, tolower)
           t == TRUE
<1>1. d = [ok |-> t, str |-> x]
  BY DEF DecodesToItself
<1> HIDE DEF d, t
<1>2. d.ok = t /\ d.str = x
  BY <1>1
<1> QED
  BY <1>2 DEF d, t

LEMMA PiecesFit ==
    ASSUME NEW u, UserinfoOk(u.userinfo), HostOk(u.host), Printable(u)
    PROVE  /\ PercentDecode(u.userinfo, FALSE).ok /\ PercentDecode(u.userinfo, FALSE).str = u.userinfo
           /\ ToSet(u.userinfo) \subseteq UserinfoClass
           /\ PercentDecode(u.host, TRUE).ok /\ PercentDecode(u.host, TRUE).str = u.host
           /\ IF IsLiteral(u.host) THEN AcceptsIpLiteral(u.host) ELSE ToSet(u.host) \subseteq HostClass
           /\ IF LiteralOk(u.host) THEN TRUE ELSE ToSet(u.host) \subseteq HostClass
<1> DEFINE x == u.userinfo
           h == u.host
<1>1. /\ ToSet(x) \subseteq pchar /\ DecodesToItself(h, TRUE)
      /\ h = <<>> \/ Head(h) = 91 \/ ToSet(h) \subseteq pchar
  BY Zenon DEF Printable
<1>2. ToSet(x) \cap gen_delims \subseteq {Colon} /\ (NoSpace(x) => DecodesToItself(x, FALSE))
  BY DEF UserinfoOk, DecodedOk
<1>3. h \in Seq(Chars) /\ (LiteralOk(h) \/ ToSet(h) \cap gen_delims = {})
  BY DEF HostOk
<1> HIDE DEF x, h
<1>4. DecodesToItself(x, FALSE)
  <2>1. \A c \in ToSet(x) : c \in pchar /\ c \notin WhiteSpace
    BY <1>1, PrintedClasses, Zenon
  <2>2. NoSpace(x)
    BY <2>1 DEF NoSpace
  <2> QED
    BY <1>2, <2>2
<1>5. ToSet(x) \subseteq UserinfoClass
  <2>1. \A c \in ToSet(x) : c \in pchar /\ (c \in gen_delims => c = Colon)
    BY <1>1, <1>2
  <2> QED
    BY <2>1, PrintedClasses, Zenon
<1>6. PercentDecode(x, FALSE).ok /\ PercentDecode(x, FALSE).str = x
  BY <1>4, ItselfDecoded
<1>7. PercentDecode(h, TRUE).ok /\ PercentDecode(h, TRUE).str = h
  BY <1>1, ItselfDecoded
<1>8. CASE LiteralOk(h)
  <2>1. AcceptsIpLiteral(h) /\ Len(h) >= 4 /\ h[1] = 91
    BY <1>8, Zenon DEF LiteralOk
  <2>2. IsLiteral(h)
    BY <1>3, <2>1 DEF IsLiteral
  <2> QED
    BY <1>5, <1>6, <1>7, <1>8, <2>1, <2>2, Zenon DEF x, h
<1>9. CASE ~LiteralOk(h)
  <2>1. ToSet(h) \cap gen_delims = {}
    BY <1>3, <1>9
  <2>2. h # <<>> => Head(h) \in ToSet(h)
    <3>1. h # <<>> => 1 \in 1..Len(h) /\ Head(h) = h[1]
      BY <1>3
    <3> QED
      BY <3>1 DEF ToSet
  <2>3. ~IsLiteral(h) /\ (h # <<>> => Head(h) # 91)
    <3>1. h # <<>> => Head(h) # 91
      <4> DEFINE c == 91
      <4>1. h # <<>> => Head(h) \notin gen_delims
        BY <2>1, <2>2
      <4>2. c \in gen_delims
        BY DEF gen_delims
      <4> HIDE DEF c
      <4>3. h # <<>> => Head(h) # c
        BY <4>1, <4>2
      <4> QED
        BY <4>3 DEF c
    <3> QED
      BY <3>1 DEF IsLiteral
  <2>4. ToSet(h) \subseteq HostClass
    <3>1. CASE h = <<>>
      BY <3>1 DEF ToSet
    <3>2. CASE h # <<>>
      <4>1. ToSet(h) \subseteq pchar
        BY <1>1, <2>3, <3>2
      <4>2. \A c \in ToSet(h) : c \in pchar /\ c \notin gen_delims
        BY <2>1, <4>1
      <4> QED
        BY <4>2, PrintedClasses, Zenon
    <3> QED
      BY <3>1, <3>2
  <2> QED
    BY <1>5, <1>6, <1>7, <1>9, <2>3, <2>4, Zenon DEF x, h
<1> QED
  BY <1>8, <1>9

LEMMA AuthorityTextClass ==
    ASSUME NEW x \in Seq(Chars), ToSet(x) \subseteq AuthorityClass,
           NEW h \in Seq(Chars), ToSet(h) \subseteq AuthorityClass,
           NEW ported \in BOOLEAN, NEW d \in Seq(DIGIT)
    PROVE  ToSet(AuthorityText(x, h, ported, d)) \subseteq AuthorityClass
<1> DEFINE f == BeforeHost(x)
           b == AfterHost(ported, d)
<1>1. f \in Seq(Chars) /\ ToSet(f) \subseteq AuthorityClass
  <2>1. f \in Seq(Chars)
    BY BeforeHostFacts
  <2>2. CASE x = <<>>
    <3>1. f = <<>>
      BY <2>2 DEF BeforeHost
    <3> QED
      BY <2>1, <3>1 DEF ToSet
  <2>3. CASE x # <<>>
    <3>1. f = Append(x, At) /\ At \in Chars
      BY <2>3 DEF BeforeHost, At, Chars
    <3>2. ToSet(f) = ToSet(x) \cup {At}
      BY <3>1, AppendFacts
    <3>3. At \in AuthorityClass
      BY PrintedClasses, Zenon
    <3> QED
      BY <2>1, <3>2, <3>3
  <2> QED
    BY <2>2, <2>3
<1>2. b \in Seq(Chars) /\ ToSet(b) \subseteq AuthorityClass
  <2>1. /\ b \in Seq(Chars) /\ Len(b) \in Nat
        /\ ~ported => Len(b) = 0
        /\ ported => b[1] = Colon
        /\ ported => \A i \in 1..Len(b) : i # 1 => b[i] \in DIGIT
    BY AfterHostFacts
  <2> HIDE DEF b
  <2>2. \A i \in 1..Len(b) : b[i] = Colon \/ b[i] \in DIGIT
    BY <2>1
  <2>3. \A i \in 1..Len(b) : b[i] \in AuthorityClass
    <3>1. Colon \in AuthorityClass /\ \A c \in DIGIT : c \in AuthorityClass
      BY PrintedClasses, Zenon
    <3> QED
      BY <2>2, <3>1
  <2> QED
    BY <2>1, <2>3 DEF ToSet
<1> HIDE DEF f, b
<1>3. f \o h \in Seq(Chars)
  BY <1>1, ConcatProperties
<1>4. ToSet(f \o h) = ToSet(f) \cup ToSet(h)
  BY <1>1, ToSetConcat
<1>5. ToSet(f \o h \o b) = ToSet(f \o h) \cup ToSet(b)
  BY <1>2, <1>3, ToSetConcat, ZenonT(60)
<1>6. AuthorityText(x, h, ported, d) = f \o h \o b
  BY DEF AuthorityText, f, b
<1> QED
  BY <1>1, <1>2, <1>4, <1>5, <1>6

LEMMA AuthorityPrinted ==
    ASSUME NEW u, NEW flag \in BOOLEAN, Canonical(u, flag), ~UndefinedFlag(u), Printable(u)
    PROVE  LET a == authority(u, flag)
               cut == Cut(a)
           IN  /\ a \in Seq(Chars) /\ ToSet(a) \subseteq AuthorityClass
               /\ cut.userinfo \in Seq(Chars) /\ cut.host \in Seq(Chars) /\ cut.port \in Seq(Chars)
               /\ Takes(cut)
               /\ PercentDecode(cut.userinfo, FALSE).str = u.userinfo
               /\ PercentDecode(cut.host, TRUE).str = u.host
               /\ (IF cut.port = <<>> THEN -1 ELSE Number(cut.port)) = PortAgain(u, flag)
<1> DEFINE x == u.userinfo
           h == u.host
           ported == PrintsPort(u, flag)
           d == DigitsOf(u, flag)
           a == authority(u, flag)
           k == Len(BeforeHost(x))
           m == Len(h)
           literal == LiteralOk(h)
           cut == Cut(a)
           again == PortAgain(u, flag)
<1>1. /\ ported \in BOOLEAN /\ d \in Seq(DIGIT) /\ Len(d) <= 9
      /\ ported => d # <<>> /\ Number(d) = again
      /\ ~ported => d = <<>> /\ again = -1
  BY PortPrinted
<1>2. UserinfoOk(x) /\ HostOk(h)
  BY DEF Canonical
<1>3. /\ PercentDecode(x, FALSE).ok /\ PercentDecode(x, FALSE).str = x
      /\ ToSet(x) \subseteq UserinfoClass
      /\ PercentDecode(h, TRUE).ok /\ PercentDecode(h, TRUE).str = h
      /\ IF IsLiteral(h) THEN AcceptsIpLiteral(h) ELSE ToSet(h) \subseteq HostClass
      /\ IF literal THEN TRUE ELSE ToSet(h) \subseteq HostClass
  BY <1>2, PiecesFit
<1>4. x \in Seq(Chars) /\ h \in Seq(Chars)
  BY <1>2 DEF UserinfoOk, DecodedOk, HostOk
<1>5. a = AuthorityText(x, h, ported, d)
  BY AuthorityIs
<1> HIDE DEF x, h, ported, d, a, again
<1>6. /\ a \in Seq(Chars)
      /\ Marked(a, k, m, ported, literal)
      /\ SubSeq(a, 1, k - 1) = x
      /\ SubSeq(a, k + 1, k + m) = h
      /\ ported => From(a, k + m + 2) = d
  BY <1>1, <1>2, <1>5, AuthorityMarked
<1>7. k \in Nat /\ m \in Nat /\ literal \in BOOLEAN
  <2>1. k \in Nat
    BY <1>4, BeforeHostFacts
  <2>2. literal \in BOOLEAN
    BY Zenon DEF LiteralOk
  <2> QED
    BY <1>4, <2>1, <2>2
<1>8. ToSet(a) \subseteq AuthorityClass
  <2>1. ToSet(x) \subseteq AuthorityClass
    <3>1. \A c \in ToSet(x) : c \in UserinfoClass
      BY <1>3
    <3> QED
      BY <3>1, PrintedClasses, Zenon
  <2>2. ToSet(h) \subseteq AuthorityClass
    <3>1. CASE literal
      <4>1. /\ Len(h) >= 4 /\ h[1] = 91 /\ h[Len(h)] = 93
            /\ \A i \in 2..(Len(h) - 1) : h[i] \in LiteralClass
        BY <3>1, Zenon DEF LiteralOk
      <4>2. \A i \in 1..Len(h) : i = 1 \/ i = Len(h) \/ i \in 2..(Len(h) - 1)
        BY <1>4
      <4>3. 91 \in AuthorityClass /\ 93 \in AuthorityClass
        BY DEF AuthorityClass
      <4>4. \A c \in LiteralClass : c \in AuthorityClass
        BY PrintedClasses, Zenon
      <4>5. \A i \in 1..Len(h) : h[i] \in AuthorityClass
        BY <4>1, <4>2, <4>3, <4>4
      <4> QED
        BY <1>4, <4>5 DEF ToSet
    <3>2. CASE ~literal
      <4>1. \A c \in ToSet(h) : c \in HostClass
        BY <1>3, <3>2
      <4> QED
        BY <4>1, PrintedClasses, Zenon
    <3> QED
      BY <3>1, <3>2
  <2> QED
    BY <1>1, <1>4, <1>5, <2>1, <2>2, AuthorityTextClass
<1> HIDE DEF k, m, literal
<1>9. /\ cut.errno = "SUCCESS" /\ cut.userinfo = x /\ cut.host = h
      /\ cut.port = d
  <2>1. /\ cut.errno = "SUCCESS"
        /\ cut.userinfo = SubSeq(a, 1, k - 1)
        /\ cut.host = SubSeq(a, k + 1, k + m)
        /\ cut.port = IF ported THEN From(a, k + m + 2) ELSE <<>>
    BY <1>1, <1>6, <1>7, CutMarked
  <2> HIDE DEF cut
  <2> QED
    BY <1>1, <1>6, <2>1
<1> HIDE DEF cut
<1>10. d \in Seq(Chars) /\ ToSet(d) \subseteq DIGIT
  <2>1. \A i \in 1..Len(d) : d[i] \in DIGIT
    BY <1>1
  <2> QED
    BY <1>1, <2>1, DelimFacts DEF ToSet
<1>11. Takes(cut)
  BY <1>1, <1>3, <1>9, <1>10 DEF Takes
<1>12. (IF cut.port = <<>> THEN -1 ELSE Number(cut.port)) = again
  BY <1>1, <1>9
<1>13. /\ a \in Seq(Chars) /\ ToSet(a) \subseteq AuthorityClass
       /\ cut.userinfo \in Seq(Chars) /\ cut.host \in Seq(Chars) /\ cut.port \in Seq(Chars)
       /\ PercentDecode(cut.userinfo, FALSE).str = x
       /\ PercentDecode(cut.host, TRUE).str = h
  BY <1>3, <1>4, <1>6, <1>8, <1>9, <1>10
<1> QED
  BY <1>11, <1>12, <1>13, Zenon DEF cut, a, again, x, h

\* The parts that stand before the path, as the text that is printed makes them.
Again(v, u, flag) ==
    /\ v.scheme = u.scheme /\ v.userinfo = u.userinfo /\ v.host = u.host
    /\ v.port = PortAgain(u, flag) /\ v.has_auth = u.has_auth
    /\ v.path = <<>> /\ v.query = <<>> /\ v.fragment = <<>>

LEMMA AuthorityAgain ==
    ASSUME NEW u, NEW flag \in BOOLEAN, Canonical(u, flag), ~UndefinedFlag(u), Printable(u),
           u.has_auth,
           NEW p, IsParse(p), p.ok, SchemeOnly(p.uri), p.uri.scheme = u.scheme,
           NEW text \in Seq(Chars), NEW y \in Seq(Chars), y # <<>> => y[1] \in {Slash, Question, Hash},
           p.at \in Nat \ {0}, Rest(text, p.at, authority(u, flag) \o y)
    PROVE  LET q == ParseAuthority(p, text)
           IN  /\ IsParse(q) /\ q.ok /\ q.at \in Nat \ {0} /\ Rest(text, q.at, y)
               /\ Again(q.uri, u, flag)
<1> DEFINE q == ParseAuthority(p, text)
           a == authority(u, flag)
           at == p.at
           end == EndOf(text, at, AuthorityClass)
           auth == SubSeq(text, at, end - 1)
           cut == Cut(a)
<1>1. q = ParsePieces(p, Cut(auth), end)
  BY Zenon DEF ParseAuthority, AuthorityClass
<1>2. /\ a \in Seq(Chars) /\ ToSet(a) \subseteq AuthorityClass
      /\ cut.userinfo \in Seq(Chars) /\ cut.host \in Seq(Chars) /\ cut.port \in Seq(Chars)
      /\ Takes(cut)
      /\ PercentDecode(cut.userinfo, FALSE).str = u.userinfo
      /\ PercentDecode(cut.host, TRUE).str = u.host
      /\ (IF cut.port = <<>> THEN -1 ELSE Number(cut.port)) = PortAgain(u, flag)
  BY AuthorityPrinted
<1>3. at \in Nat \ {0} /\ Rest(text, at, a \o y)
  OBVIOUS
<1> HIDE DEF a, at, cut
<1>4. Rest(text, at + Len(a), y) /\ SubSeq(text, at, at + Len(a) - 1) = a
  BY <1>2, <1>3, RestAfter
<1>5. end = at + Len(a)
  <2>1. y # <<>> => y[1] \notin AuthorityClass
    BY PrintedClasses
  <2> QED
    BY <1>2, <1>3, <2>1, RestEnds
<1>6. auth = a /\ end \in Nat \ {0} /\ Rest(text, end, y)
  <2>1. Len(a) \in Nat
    BY <1>2
  <2>2. end - 1 = at + Len(a) - 1
    BY <1>3, <1>5, <2>1
  <2> HIDE DEF end
  <2> QED
    BY <1>3, <1>4, <1>5, <2>1, <2>2
<1> HIDE DEF auth, end
<1>7. q = ParsePieces(p, cut, end)
  BY <1>1, <1>6 DEF cut
<1>8. IsParse(q)
  BY AuthorityIsParse
<1> DEFINE r == ParsePieces(p, cut, end)
<1>9. /\ r.ok <=> p.ok /\ Takes(cut)
      /\ r.ok => r.at = end /\ AuthorityOf(cut, p.uri, r.uri)
  BY <1>2, PiecesAre
<1> HIDE DEF q, r
<1>10. q.ok /\ q.at = end /\ AuthorityOf(cut, p.uri, q.uri)
  <2>1. q = r
    BY <1>7 DEF r
  <2> QED
    BY <1>2, <1>9, <2>1
<1>11. Again(q.uri, u, flag)
  <2> DEFINE v == q.uri
             port == IF cut.port = <<>> THEN -1 ELSE Number(cut.port)
  <2>1. /\ v.scheme = p.uri.scheme /\ v.path = <<>> /\ v.query = <<>> /\ v.fragment = <<>>
        /\ v.has_auth = TRUE
        /\ v.userinfo = PercentDecode(cut.userinfo, FALSE).str
        /\ v.host = PercentDecode(cut.host, TRUE).str
        /\ v.port = port
    BY <1>10, Zenon DEF AuthorityOf
  <2>2. port = PortAgain(u, flag)
    BY <1>2
  <2>3. u.has_auth = TRUE
    <3>1. u.has_auth \in BOOLEAN
      BY DEF Canonical
    <3> QED
      BY <3>1
  <2> HIDE DEF v, port
  <2> QED
    BY <1>2, <2>1, <2>2, <2>3 DEF Again, v
<1> QED
  BY <1>6, <1>8, <1>10, <1>11 DEF q

------------------------------------------------------------------------------
(* The path that is printed *)

LEMMA EndsAt ==
    ASSUME NEW text \in Seq(Chars), NEW at \in Nat \ {0}, NEW e \in Nat, at <= e, e <= Len(text) + 1,
           NEW class, \A i \in at..(e - 1) : text[i] \in class,
           e <= Len(text) => text[e] \notin class
    PROVE  EndOf(text, at, class) = e
<1> DEFINE end == EndOf(text, at, class)
           n == Len(text)
<1>1. /\ end \in 1..(n + 1)
      /\ \A i \in at..(end - 1) : i \in 1..n /\ text[i] \in class
      /\ end <= n => at <= end /\ text[end] \notin class
  BY EndOfProperties
<1>2. n \in Nat /\ e <= n + 1 /\ (e <= n => text[e] \notin class)
  OBVIOUS
<1> HIDE DEF end, n
<1>3. end >= e
  <2>1. SUFFICES ASSUME end < e PROVE FALSE
    BY <1>1, <1>2
  <2>2. end <= n
    BY <1>1, <1>2, <2>1
  <2>3. end \in at..(e - 1) /\ text[end] \notin class
    BY <1>1, <1>2, <2>1, <2>2
  <2> QED
    BY <2>3
<1>4. end <= e
  <2>1. SUFFICES ASSUME end > e PROVE FALSE
    BY <1>1, <1>2
  <2>2. e \in at..(end - 1)
    BY <1>1, <1>2, <2>1
  <2>3. e <= n /\ text[e] \in class
    BY <1>1, <2>2
  <2> QED
    BY <1>2, <2>3
<1>5. end = e
  BY <1>1, <1>3, <1>4
<1> QED
  BY <1>5 DEF end

\* A path stands at a place of a text, and a query, a fragment or nothing after it.
Stands(text, at, path) ==
    /\ \A i \in 1..Len(path) : text[at + i - 1] = path[i]
    /\ at + Len(path) <= Len(text) + 1
    /\ at + Len(path) <= Len(text) => text[at + Len(path)] \in {Question, Hash}

\* A path that the parser takes as it stands.
PathClean(path) ==
    /\ WellPlaced(path)
    /\ \A i \in 1..Len(path) : path[i] \in SegmentsClass
    /\ Len(path) >= 2 => path[1] # Colon \/ path[2] # Slash
    /\ Len(path) >= 3 => path[1] # Slash \/ path[2] # Colon \/ path[3] # Slash

LEMMA SegmentsStand ==
    ASSUME NEW text \in Seq(Chars), NEW at \in Nat \ {0}, NEW path \in Seq(Chars), path # <<>>,
           Stands(text, at, path), PathClean(path),
           NEW from \in Nat, from = (IF path[1] = Slash THEN at + 1 ELSE at), from <= Len(text)
    PROVE  /\ text[from] # Slash /\ ~RepeatsSlash(text, from)
           /\ EndOfSegments(text, from) = at + Len(path)
<1> DEFINE m == Len(path)
           n == Len(text)
           e == at + m
           start == StartOf(text, from)
<1>1. m \in Nat \ {0} /\ n \in Nat
  BY EmptySeq
<1>2. /\ \A i \in 1..m : text[at + i - 1] = path[i]
      /\ e <= n + 1
      /\ e <= n => text[e] \in {Question, Hash}
  BY DEF Stands
<1>3. /\ \A i \in 2..m : path[i] = Slash => path[i - 1] # Slash
      /\ \A i \in 1..m : path[i] \in SegmentsClass
      /\ m >= 2 => path[1] # Colon \/ path[2] # Slash
      /\ m >= 3 => path[1] # Slash \/ path[2] # Colon \/ path[3] # Slash
  BY DEF PathClean, WellPlaced
<1>4. from <= n /\ from \in Nat \ {0} /\ (from = at \/ (from = at + 1 /\ path[1] = Slash))
      /\ (path[1] = Slash => from = at + 1)
  OBVIOUS
<1>5. start = IF text[from] = Colon THEN from + 1 ELSE from
  BY DEF StartOf
<1> HIDE DEF m, n, start
<1>6. e \in Nat /\ e - 1 >= at
  BY <1>1
<1>7. \A j \in at..(e - 1) : j - at + 1 \in 1..m /\ text[j] = path[j - at + 1]
  <2>1. SUFFICES ASSUME NEW j \in at..(e - 1)
                 PROVE  j - at + 1 \in 1..m /\ text[j] = path[j - at + 1]
    OBVIOUS
  <2> DEFINE i == j - at + 1
  <2>2. i \in 1..m /\ at + i - 1 = j
    BY <1>1
  <2> HIDE DEF i
  <2>3. text[at + i - 1] = path[i]
    BY <1>2, <2>2
  <2> QED
    BY <2>2, <2>3 DEF i
<1>8. \A j \in at..(e - 1) : text[j] \in SegmentsClass
  BY <1>3, <1>7
<1>9. Question \notin SegmentsClass /\ Hash \notin SegmentsClass /\ Question # Slash /\ Hash # Slash
      /\ Question # Colon /\ Hash # Colon /\ Slash # Colon
  <2>1. Question \notin SegmentsClass /\ Hash \notin SegmentsClass
    BY SegmentsClassFacts
  <2> QED
    BY <2>1 DEF Question, Hash, Slash, Colon
<1>10. from <= e
  BY <1>1, <1>4
<1>11. text[from] # Slash
  <2>1. CASE from = e
    BY <1>2, <1>4, <1>9, <2>1
  <2>2. CASE from # e /\ from = at
    <3>1. at \in at..(e - 1) /\ at - at + 1 = 1
      BY <1>6
    <3>2. text[at] = path[1]
      BY <1>7, <3>1
    <3> QED
      BY <1>4, <2>2, <3>2
  <2>3. CASE from # e /\ from = at + 1 /\ path[1] = Slash
    <3>1. at + 1 \in at..(e - 1) /\ at + 1 - at + 1 = 2 /\ 2 \in 2..m
      BY <1>1, <1>10, <2>3
    <3>2. text[at + 1] = path[2]
      BY <1>7, <3>1
    <3>3. path[2 - 1] = path[1]
      OBVIOUS
    <3> QED
      BY <1>3, <2>3, <3>1, <3>2, <3>3
  <2> QED
    BY <1>4, <2>1, <2>2, <2>3
<1>12. text[from] = Colon => from < e
  <2>1. from = e => text[from] # Colon
    BY <1>2, <1>4, <1>9
  <2> QED
    BY <1>4, <1>6, <1>10, <2>1
<1>13. start \in Nat \ {0} /\ from <= start /\ start <= e
  BY <1>4, <1>5, <1>6, <1>10, <1>12
<1> HIDE DEF e
<1>14. EndOf(text, start, SegmentsClass) = e
  <2>1. \A i \in start..(e - 1) : text[i] \in SegmentsClass
    BY <1>4, <1>6, <1>8, <1>13
  <2>2. e <= n => text[e] \notin SegmentsClass
    BY <1>2, <1>9
  <2> QED
    BY <1>2, <1>6, <1>13, <2>1, <2>2, EndsAt DEF n
<1>15. EndOfSegments(text, from) = e
  BY <1>14 DEF EndOfSegments, start
<1>16. ~\E i \in start..(e - 1) : text[i] = Slash /\ (i = start \/ text[i - 1] = Slash)
  <2>1. SUFFICES ASSUME NEW i \in start..(e - 1), text[i] = Slash, i = start \/ text[i - 1] = Slash
                 PROVE  FALSE
    OBVIOUS
  <2>2. i \in Nat /\ i \in at..(e - 1) /\ i >= from
    BY <1>4, <1>6, <1>13
  <2>3. CASE i # from /\ text[i - 1] = Slash
    <3>1. i - 1 \in at..(e - 1)
      BY <1>4, <1>6, <2>2, <2>3
    <3>2. text[i] = path[i - at + 1] /\ text[i - 1] = path[i - 1 - at + 1]
      BY <1>7, <2>2, <3>1
    <3> DEFINE k == i - at + 1
    <3>3. k \in 2..m /\ i - 1 - at + 1 = k - 1
      BY <1>1, <1>4, <1>6, <2>2, <2>3 DEF e
    <3> HIDE DEF k
    <3>4. path[k] = Slash /\ path[k - 1] = Slash
      BY <2>1, <2>3, <3>2, <3>3 DEF k
    <3> QED
      BY <1>3, <3>3, <3>4
  <2>4. CASE i = from
    BY <1>11, <2>1, <2>4
  <2>5. CASE i # from /\ i = start
    <3>1. text[from] = Colon /\ i = from + 1
      BY <1>5, <2>5
    <3>2. CASE from = at
      <4>1. at \in at..(e - 1) /\ at - at + 1 = 1 /\ i - at + 1 = 2 /\ 2 \in 1..m
        BY <1>1, <1>4, <1>6, <2>2, <3>1, <3>2 DEF e
      <4>2. path[1] = Colon /\ path[2] = Slash /\ m >= 2
        BY <1>1, <1>7, <2>1, <2>2, <3>1, <3>2, <4>1
      <4> QED
        BY <1>3, <4>2
    <3>3. CASE from = at + 1 /\ path[1] = Slash
      <4>1. at + 1 \in at..(e - 1) /\ at + 1 - at + 1 = 2 /\ i - at + 1 = 3 /\ 3 \in 1..m
        BY <1>1, <1>4, <1>6, <2>2, <3>1, <3>3 DEF e
      <4>2. path[2] = Colon /\ path[3] = Slash /\ m >= 3
        <5>1. text[at + 1] = path[2] /\ text[i] = path[3]
          BY <1>7, <2>2, <4>1
        <5> QED
          BY <1>1, <2>1, <3>1, <3>3, <4>1, <5>1
      <4> QED
        BY <1>3, <3>3, <4>2
    <3> QED
      BY <1>4, <3>2, <3>3
  <2> QED
    BY <2>1, <2>3, <2>4, <2>5
<1>17. ~RepeatsSlash(text, from)
  BY <1>15, <1>16 DEF RepeatsSlash, start
<1> QED
  BY <1>11, <1>15, <1>17 DEF e, m

\* A path that the parser takes, and that decodes to itself.
PathIs(path) ==
    /\ path \in Seq(Chars) /\ PathClean(path)
    /\ PercentDecode(path, FALSE).ok /\ PercentDecode(path, FALSE).str = path

LEMMA PrefixFacts ==
    ASSUME NEW path \in Seq(Chars)
    PROVE  /\ Len(path) >= 2 /\ path[1] = Colon /\ path[2] = Slash => IsPrefix(<<Colon, Slash>>, path)
           /\ Len(path) >= 3 /\ path[1] = Slash /\ path[2] = Colon /\ path[3] = Slash =>
                IsPrefix(<<Slash, Colon, Slash>>, path)
<1>1. ASSUME Len(path) >= 2, path[1] = Colon, path[2] = Slash
      PROVE  IsPrefix(<<Colon, Slash>>, path)
  <2> DEFINE s == <<Colon, Slash>>
             a == SubSeq(s, 1, 2)
             b == SubSeq(path, 1, 2)
  <2>1. Len(s) = 2 /\ s[1] = Colon /\ s[2] = Slash
    OBVIOUS
  <2>2. a = [i \in 1..2 |-> s[i]]
    BY DEF Colon, Slash
  <2>3. b = [i \in 1..2 |-> path[i]]
    BY <1>1
  <2>4. \A i \in 1..2 : s[i] = path[i]
    BY <1>1, <2>1
  <2> HIDE DEF s, a, b
  <2>5. a = b
    BY <2>2, <2>3, <2>4
  <2>6. IsPrefix(s, path)
    BY <1>1, <2>1, <2>5 DEF IsPrefix, a, b
  <2> QED
    BY <2>6 DEF s
<1>2. ASSUME Len(path) >= 3, path[1] = Slash, path[2] = Colon, path[3] = Slash
      PROVE  IsPrefix(<<Slash, Colon, Slash>>, path)
  <2> DEFINE s == <<Slash, Colon, Slash>>
             a == SubSeq(s, 1, 3)
             b == SubSeq(path, 1, 3)
  <2>1. Len(s) = 3 /\ s[1] = Slash /\ s[2] = Colon /\ s[3] = Slash
    OBVIOUS
  <2>2. a = [i \in 1..3 |-> s[i]]
    BY DEF Colon, Slash
  <2>3. b = [i \in 1..3 |-> path[i]]
    BY <1>2
  <2>4. \A i \in 1..3 : s[i] = path[i]
    BY <1>2, <2>1
  <2> HIDE DEF s, a, b
  <2>5. a = b
    BY <2>2, <2>3, <2>4
  <2>6. IsPrefix(s, path)
    BY <1>2, <2>1, <2>5 DEF IsPrefix, a, b
  <2> QED
    BY <2>6 DEF s
<1> QED
  BY <1>1, <1>2

LEMMA PrintablePath ==
    ASSUME NEW u, NEW flag, Canonical(u, flag), Printable(u)
    PROVE  PathIs(u.path)
<1> DEFINE path == u.path
<1>1. path \in Seq(Chars) /\ WellPlaced(path)
  BY DEF Canonical
<1>2. /\ ToSet(path) \subseteq pchar \cup {Slash}
      /\ ~IsPrefix(<<Colon, Slash>>, path) /\ ~IsPrefix(<<Slash, Colon, Slash>>, path)
      /\ DecodesToItself(path, FALSE)
  BY Zenon DEF Printable
<1> HIDE DEF path
<1>3. \A i \in 1..Len(path) : path[i] \in SegmentsClass
  BY <1>1, <1>2 DEF ToSet, SegmentsClass
<1>4. /\ Len(path) >= 2 => path[1] # Colon \/ path[2] # Slash
      /\ Len(path) >= 3 => path[1] # Slash \/ path[2] # Colon \/ path[3] # Slash
  BY <1>1, <1>2, PrefixFacts, Zenon
<1>5. PathClean(path)
  BY <1>1, <1>3, <1>4, Zenon DEF PathClean
<1>6. PercentDecode(path, FALSE).ok /\ PercentDecode(path, FALSE).str = path
  BY <1>2, ItselfDecoded
<1> QED
  BY <1>1, <1>5, <1>6, Zenon DEF PathIs, path

LEMMA RestStands ==
    ASSUME NEW text \in Seq(Chars), NEW at \in Nat \ {0}, NEW path \in Seq(Chars),
           NEW y \in Seq(Chars), y # <<>> => y[1] \in {Question, Hash}, Rest(text, at, path \o y)
    PROVE  Stands(text, at, path) /\ Rest(text, at + Len(path), y)
<1> DEFINE m == Len(path)
           n == Len(text)
<1>1. /\ Rest(text, at + m, y)
      /\ \A i \in 1..m : text[at + i - 1] = path[i]
  BY RestAfter
<1>2. m \in Nat /\ at + m \in Nat \ {0} /\ n \in Nat /\ Len(y) \in Nat
  OBVIOUS
<1>3. /\ at + m <= n <=> y # <<>>
      /\ y # <<>> => text[at + m] = y[1]
  BY <1>1, <1>2, RestIs
<1>4. n = at + m - 1 + Len(y)
  BY <1>1 DEF Rest
<1>5. at + m <= n + 1
  BY <1>2, <1>4
<1>6. at + m <= n => text[at + m] \in {Question, Hash}
  BY <1>3
<1> QED
  BY <1>1, <1>5, <1>6 DEF Stands

LEMMA StandsIs ==
    ASSUME NEW text \in Seq(Chars), NEW at \in Nat \ {0}, NEW path \in Seq(Chars),
           Stands(text, at, path)
    PROVE  /\ SubSeq(text, at, at + Len(path) - 1) = path
           /\ path # <<>> => SubSeq(text, at + 1, at + Len(path) - 1) = Tail(path)
<1> DEFINE m == Len(path)
           n == Len(text)
           a == SubSeq(text, at, at + m - 1)
           b == SubSeq(text, at + 1, at + m - 1)
<1>1. /\ \A i \in 1..m : text[at + i - 1] = path[i]
      /\ at + m <= n + 1
  BY DEF Stands
<1>2. m \in Nat /\ n \in Nat /\ path = [i \in 1..m |-> path[i]]
  OBVIOUS
<1>3. path # <<>> => m \in Nat \ {0} /\ Tail(path) = [i \in 1..(m - 1) |-> path[i + 1]]
  <2>1. path # <<>> => m \in Nat \ {0}
    BY EmptySeq
  <2>2. ASSUME path # <<>> PROVE Tail(path) = [i \in 1..(m - 1) |-> path[i + 1]]
    <3> DEFINE t == Tail(path)
    <3>1. t \in Seq(Chars) /\ Len(t) = m - 1 /\ \A i \in 1..Len(t) : t[i] = path[i + 1]
      BY <2>2, HeadTailProperties
    <3> HIDE DEF t, m
    <3>2. t = [i \in 1..Len(t) |-> t[i]]
      BY <3>1
    <3>3. t = [i \in 1..(m - 1) |-> path[i + 1]]
      BY <3>1, <3>2
    <3> QED
      BY <3>3 DEF t
  <2> QED
    BY <2>1, <2>2
<1> HIDE DEF m
<1>4. a = path
  <2>1. a = [i \in 1..m |-> text[at + i - 1]]
    <3>1. at \in 1..(n + 1) /\ at + m - 1 <= n /\ at + m - 1 - at + 1 = m
      BY <1>1, <1>2
    <3> QED
      BY <1>2, <3>1
  <2> HIDE DEF a
  <2> QED
    BY <1>1, <1>2, <2>1
<1>5. ASSUME path # <<>> PROVE b = Tail(path)
  <2>1. b = [i \in 1..(m - 1) |-> text[at + 1 + i - 1]]
    <3> DEFINE f == at + 1
               g == at + m - 1
    <3>1. m \in Nat \ {0} /\ n \in Nat /\ at + m <= n + 1
      BY <1>1, <1>2, <1>3, <1>5
    <3>2. f \in 1..(n + 1) /\ g <= n /\ g - f + 1 = m - 1 /\ g \in Int
      <4>1. at \in Nat \ {0}
        OBVIOUS
      <4> QED
        BY ONLY <3>1, <4>1
    <3>3. b = SubSeq(text, f, g)
      OBVIOUS
    <3> HIDE DEF f, g
    <3>4. SubSeq(text, f, g) = [i \in 1..(m - 1) |-> text[f + i - 1]]
      <4>1. text \in Seq(Chars) /\ Len(text) = n
        OBVIOUS
      <4>2. SubSeq(text, f, g) = [i \in 1..(g - f + 1) |-> text[f + i - 1]]
        <5> HIDE DEF n
        <5> QED
          BY ONLY <3>2, <4>1, SMTT(60)
      <4> QED
        BY <3>2, <4>2
    <3> QED
      BY <3>3, <3>4 DEF f
  <2>2. \A i \in 1..(m - 1) : text[at + 1 + i - 1] = path[i + 1]
    <3>1. TAKE i \in 1..(m - 1)
    <3> DEFINE j == i + 1
    <3>2. j \in 1..m /\ at + 1 + i - 1 = at + j - 1
      BY <1>2
    <3> HIDE DEF j
    <3>3. text[at + j - 1] = path[j]
      BY <1>1, <3>2
    <3> QED
      BY <3>2, <3>3 DEF j
  <2> HIDE DEF b
  <2> QED
    BY <1>3, <1>5, <2>1, <2>2
<1> QED
  BY <1>4, <1>5 DEF m

\* A parse that has taken the path: what has changed since p.
TakesPath(p, q, at, path) ==
    q.ok /\ q.at = at + Len(path) /\ Sets(p.uri, q.uri, "path", path)

LEMMA PathIsFacts ==
    ASSUME NEW path, PathIs(path)
    PROVE  /\ path \in Seq(Chars) /\ PathClean(path) /\ Len(path) \in Nat
           /\ PercentDecode(path, FALSE).ok /\ PercentDecode(path, FALSE).str = path
<1>1. path \in Seq(Chars) /\ PathClean(path)
      /\ PercentDecode(path, FALSE).ok /\ PercentDecode(path, FALSE).str = path
  BY Zenon DEF PathIs
<1>2. Len(path) \in Nat
  BY <1>1
<1> QED
  BY <1>1, <1>2

FirstSegment(path, at) == IF path[1] = Slash THEN at + 1 ELSE at

\* The segments of a path, its root among them.
LEMMA SegmentsAgain ==
    ASSUME NEW p, IsParse(p), p.ok, p.uri.path = <<>>, NEW at \in Nat \ {0}, p.at = at,
           NEW text \in Seq(Chars), NEW path, path # <<>>, PathIs(path), Stands(text, at, path),
           NEW from \in Nat, from = FirstSegment(path, at), from <= Len(text)
    PROVE  TakesPath(p, ParseSegments(p, text, from), at, path)
<1> DEFINE q == ParseSegments(p, text, from)
           end == EndOfSegments(text, from)
           piece == SubSeq(text, p.at, end - 1)
           d == PercentDecode(piece, FALSE)
<1>1. path \in Seq(Chars) /\ PathClean(path) /\ Len(path) \in Nat
      /\ PercentDecode(path, FALSE).ok /\ PercentDecode(path, FALSE).str = path
  BY PathIsFacts
<1>2. text[from] # Slash /\ ~RepeatsSlash(text, from) /\ end = at + Len(path)
  <2>1. from = (IF path[1] = Slash THEN at + 1 ELSE at)
    BY DEF FirstSegment
  <2> QED
    BY <1>1, <2>1, SegmentsStand
<1>3. SubSeq(text, at, at + Len(path) - 1) = path
  BY <1>1, StandsIs
<1>4. piece = path
  BY <1>2, <1>3
<1>5. /\ q.ok <=> p.ok /\ text[from] # Slash /\ ~RepeatsSlash(text, from) /\ d.ok
      /\ q.ok => q.at = end /\ Sets(p.uri, q.uri, "path", p.uri.path \o d.str)
  <2>1. IsParse(p)
    OBVIOUS
  <2> QED
    BY ONLY <2>1, SegmentsAre DEF q, end, piece, d
<1> HIDE DEF q, end, piece
<1>6. d.ok /\ d.str = path
  BY <1>1, <1>4
<1>7. <<>> \o path = path
  BY <1>1, ConcatEmptySeq
<1> HIDE DEF d
<1>8. q.ok /\ q.at = at + Len(path) /\ Sets(p.uri, q.uri, "path", path)
  BY <1>2, <1>5, <1>6, <1>7
<1> QED
  BY <1>8 DEF TakesPath, q

LEMMA TailOf ==
    ASSUME NEW path \in Seq(Chars), path # <<>>, path[1] = Slash
    PROVE  path = <<Slash>> \o Tail(path)
<1> DEFINE t == Tail(path)
           s == <<Slash>>
           w == s \o t
           m == Len(path)
<1>1. t \in Seq(Chars)
  BY HeadTailProperties
<1>2. /\ Len(t) = m - 1 /\ m \in Nat \ {0}
      /\ \A i \in 1..Len(t) : t[i] = path[i + 1]
  BY HeadTailProperties, EmptySeq
<1>3. s \in Seq(Chars) /\ Len(s) = 1 /\ s[1] = Slash
  BY SegmentsClassFacts
<1> HIDE DEF t, s, m
<1>4. w \in Seq(Chars) /\ Len(w) = m /\ w[1] = Slash
      /\ \A i \in 2..m : w[i] = t[i - 1]
  <2>1. /\ w \in Seq(Chars) /\ Len(w) = Len(s) + Len(t)
        /\ \A i \in 1..(Len(s) + Len(t)) : w[i] = IF i <= Len(s) THEN s[i] ELSE t[i - Len(s)]
    BY <1>1, <1>3, ConcatProperties
  <2> HIDE DEF w
  <2> QED
    BY <1>2, <1>3, <2>1
<1>5. \A i \in 1..m : w[i] = path[i]
  <2>1. SUFFICES ASSUME NEW i \in 1..m PROVE w[i] = path[i]
    OBVIOUS
  <2>2. CASE i = 1
    BY <1>4, <2>2
  <2>3. CASE i # 1
    <3>1. i \in 2..m /\ i - 1 \in 1..Len(t) /\ i - 1 + 1 = i
      BY <1>2, <2>3
    <3>2. w[i] = t[i - 1]
      BY <1>4, <3>1
    <3>3. t[i - 1] = path[i - 1 + 1]
      BY <1>2, <3>1
    <3> QED
      BY <3>1, <3>2, <3>3
  <2> QED
    BY <2>2, <2>3
<1>6. path = [i \in 1..m |-> path[i]]
  BY DEF m
<1> HIDE DEF w
<1>7. w = [i \in 1..m |-> w[i]]
  BY <1>4
<1>8. path = w
  BY <1>5, <1>6, <1>7
<1> QED
  BY <1>8 DEF w, s

\* The segments after a root that is stored before them.
LEMMA SegmentsAfterRoot ==
    ASSUME NEW p, IsParse(p), p.ok, p.uri.path = <<Slash>>, NEW at \in Nat \ {0}, p.at = at + 1,
           NEW text \in Seq(Chars), NEW path, path # <<>>, PathIs(path), Stands(text, at, path),
           path[1] = Slash, at + 1 <= Len(text)
    PROVE  TakesPath(p, ParseSegments(p, text, at + 1), at, path)
<1> DEFINE from == at + 1
           q == ParseSegments(p, text, from)
           end == EndOfSegments(text, from)
           piece == SubSeq(text, p.at, end - 1)
           t == Tail(path)
           d == PercentDecode(piece, FALSE)
<1>1. path \in Seq(Chars) /\ PathClean(path) /\ Len(path) \in Nat
      /\ PercentDecode(path, FALSE).ok /\ PercentDecode(path, FALSE).str = path
  BY PathIsFacts
<1>2. text[from] # Slash /\ ~RepeatsSlash(text, from) /\ end = at + Len(path)
  <2>1. from \in Nat /\ from = (IF path[1] = Slash THEN at + 1 ELSE at) /\ from <= Len(text)
    OBVIOUS
  <2> HIDE DEF from
  <2> QED
    BY <1>1, <2>1, SegmentsStand
<1>3. SubSeq(text, at + 1, at + Len(path) - 1) = t
  BY <1>1, StandsIs
<1>4. piece = t
  BY <1>2, <1>3
<1>5. /\ q.ok <=> p.ok /\ text[from] # Slash /\ ~RepeatsSlash(text, from) /\ d.ok
      /\ q.ok => q.at = end /\ Sets(p.uri, q.uri, "path", p.uri.path \o d.str)
  BY SegmentsAre, Zenon
<1>6. t \in Seq(Chars) /\ path = <<Slash>> \o t
  <2>1. t \in Seq(Chars)
    BY <1>1
  <2>2. path = <<Slash>> \o t
    BY <1>1, TailOf
  <2> QED
    BY <2>1, <2>2
<1> HIDE DEF q, end, piece, t
<1>7. d.ok /\ <<Slash>> \o d.str = path
  <2> DEFINE e == PercentDecode(t, FALSE)
             root == <<Slash>> \o t
             g == PercentDecode(root, FALSE)
  <2>1. (g.ok <=> e.ok) /\ (e.ok => g.str = <<Slash>> \o e.str)
    BY <1>6, SlashDecodes
  <2>2. root = path
    BY <1>6
  <2> HIDE DEF e, root
  <2>3. g.ok /\ g.str = path
    BY <1>1, <2>2
  <2>4. d = e
    BY <1>4 DEF e
  <2> QED
    BY <2>1, <2>3, <2>4
<1> HIDE DEF d
<1>8. q.ok /\ q.at = at + Len(path) /\ Sets(p.uri, q.uri, "path", path)
  BY <1>2, <1>5, <1>7
<1> QED
  BY <1>8 DEF TakesPath, q, from

LEMMA ParsePathIs ==
    ASSUME NEW p, NEW text, NEW root \in BOOLEAN
    PROVE  LET q == ParsePath(p, text, root)
               ends == p.at > Len(text) \/ (root /\ text[p.at] \in {Question, Hash})
           IN  /\ ends => q = p
               /\ ~ends /\ root /\ text[p.at] = Slash /\ p.at = Len(text) =>
                    q = [p EXCEPT !.at = @ + 1, !.uri.path = <<Slash>>]
               /\ ~ends /\ root /\ text[p.at] = Slash /\ p.at # Len(text) =>
                    q = ParseSegments(p, text, p.at + 1)
               /\ ~ends /\ ~root => q = ParseSegments(p, text, p.at)
<1> DEFINE q == ParsePath(p, text, root)
           ends == p.at > Len(text) \/ (root /\ text[p.at] \in {Question, Hash})
           slashed == text[p.at] = Slash
           last == p.at = Len(text)
           x == Fail(p, "URI_PATHABEMPTY")
           y == [p EXCEPT !.at = @ + 1, !.uri.path = <<Slash>>]
           from == IF root THEN p.at + 1 ELSE p.at
           z == ParseSegments(p, text, from)
<1>1. q = CASE ends -> p
            [] ~ends /\ root /\ ~slashed -> x
            [] ~ends /\ root /\ slashed /\ last -> y
            [] OTHER -> z
  BY Zenon DEF ParsePath
<1>2. (root => from = p.at + 1) /\ (~root => from = p.at)
  OBVIOUS
<1> SUFFICES /\ ends => q = p
             /\ ~ends /\ root /\ slashed /\ last => q = y
             /\ ~ends /\ root /\ slashed /\ ~last => q = ParseSegments(p, text, p.at + 1)
             /\ ~ends /\ ~root => q = ParseSegments(p, text, p.at)
  OBVIOUS
<1> HIDE DEF q, ends, slashed, last, x, y, from
<1>3. /\ ends => q = p
      /\ ~ends /\ root /\ slashed /\ last => q = y
      /\ ~ends /\ root /\ slashed /\ ~last => q = z
      /\ ~ends /\ ~root => q = z
  <2> HIDE DEF z
  <2> QED
    BY <1>1, Zenon
<1> QED
  BY <1>2, <1>3

LEMMA OneSlash ==
    ASSUME NEW path \in Seq(Chars), Len(path) = 1, path[1] = Slash
    PROVE  path = <<Slash>>
  OBVIOUS

LEMMA StandsFacts ==
    ASSUME NEW text \in Seq(Chars), NEW at \in Nat \ {0}, NEW path \in Seq(Chars),
           Stands(text, at, path)
    PROVE  /\ Len(path) \in Nat /\ Len(text) \in Nat
           /\ path = <<>> => Len(path) = 0 /\ at + Len(path) = at
                             /\ (at <= Len(text) => text[at] \in {Question, Hash})
           /\ path # <<>> => text[at] = path[1] /\ at <= Len(text)
           /\ path # <<>> /\ at >= Len(text) => Len(path) = 1 /\ at + 1 = at + Len(path)
           /\ path # <<>> /\ at < Len(text) /\ Len(path) = 1 => text[at + 1] \in {Question, Hash}
           /\ path # <<>> /\ at < Len(text) /\ Len(path) # 1 =>
                Len(path) >= 2 /\ text[at + 1] = path[2]
<1> DEFINE m == Len(path)
           n == Len(text)
<1>1. /\ \A i \in 1..m : text[at + i - 1] = path[i]
      /\ at + m <= n + 1
      /\ at + m <= n => text[at + m] \in {Question, Hash}
  BY DEF Stands
<1>2. m \in Nat /\ n \in Nat /\ (path = <<>> => m = 0)
  OBVIOUS
<1>3. path # <<>> => m \in Nat \ {0}
  BY EmptySeq
<1> HIDE DEF m, n
<1>4. path = <<>> => m = 0 /\ at + m = at /\ (at <= n => text[at] \in {Question, Hash})
  <2>1. m = 0 => at + m = at
    OBVIOUS
  <2> HIDE DEF m
  <2> QED
    BY <1>1, <1>2, <2>1
<1>5. ASSUME path # <<>> PROVE text[at] = path[1] /\ at <= n
  <2>1. 1 \in 1..m /\ at + 1 - 1 = at
    BY <1>3, <1>5
  <2>2. text[at + 1 - 1] = path[1]
    BY <1>1, <2>1
  <2> QED
    BY <1>1, <1>2, <1>3, <1>5, <2>1, <2>2
<1>6. ASSUME path # <<>>, at >= n PROVE m = 1 /\ at + 1 = at + m
  BY <1>1, <1>2, <1>3, <1>6
<1>7. ASSUME path # <<>>, at < n, m = 1 PROVE text[at + 1] \in {Question, Hash}
  <2>1. at + m = at + 1 /\ at + m <= n
    BY <1>2, <1>7
  <2> QED
    BY <1>1, <2>1
<1>8. ASSUME path # <<>>, at < n, m # 1 PROVE m >= 2 /\ text[at + 1] = path[2]
  <2>1. 2 \in 1..m /\ at + 2 - 1 = at + 1
    BY <1>3, <1>8
  <2>2. text[at + 2 - 1] = path[2]
    BY <1>1, <2>1
  <2> QED
    BY <1>3, <1>8, <2>1, <2>2
<1> QED
  BY <1>2, <1>4, <1>5, <1>6, <1>7, <1>8 DEF m, n

LEMMA StoresRoot ==
    ASSUME NEW p, IsParse(p), NEW i
    PROVE  LET q == [p EXCEPT !.at = i, !.uri.path = <<Slash>>]
           IN  IsParse(q) /\ q.ok = p.ok /\ q.at = i /\ Sets(p.uri, q.uri, "path", <<Slash>>)
<1> DEFINE slash == <<Slash>>
           q == [p EXCEPT !.at = i, !.uri.path = slash]
<1> HIDE DEF slash
<1>1. IsParse(q)
  BY PartIsParse
<1>2. q.ok = p.ok /\ q.at = i /\ q.uri = [p.uri EXCEPT !.path = slash]
  BY DEF IsParse
<1> HIDE DEF q
<1>3. Sets(p.uri, q.uri, "path", slash)
  BY <1>2 DEF Sets, IsParse, IsParts, Fields
<1> QED
  BY <1>1, <1>2, <1>3, SMTT(60) DEF q, slash

\* The path after an authority.
LEMMA RootedPathAgain ==
    ASSUME NEW p, IsParse(p), p.ok, p.uri.path = <<>>, NEW at \in Nat \ {0}, p.at = at,
           NEW text \in Seq(Chars), NEW path, PathIs(path), Stands(text, at, path),
           path = <<>> \/ path[1] = Slash, NEW root \in BOOLEAN, root
    PROVE  TakesPath(p, ParsePath(p, text, root), at, path)
<1> DEFINE q == ParsePath(p, text, root)
           ends == at > Len(text) \/ (root /\ text[at] \in {Question, Hash})
           next == at + 1
           whole == [p EXCEPT !.at = next, !.uri.path = <<Slash>>]
<1>1. path \in Seq(Chars)
  BY PathIsFacts
<1>2. /\ Len(path) \in Nat /\ Len(text) \in Nat
      /\ path = <<>> => Len(path) = 0 /\ at + Len(path) = at
                        /\ (at <= Len(text) => text[at] \in {Question, Hash})
      /\ path # <<>> => text[at] = path[1] /\ at <= Len(text)
      /\ path # <<>> /\ at >= Len(text) => Len(path) = 1 /\ at + 1 = at + Len(path)
  BY <1>1, StandsFacts
<1>3. /\ ends => q = p
      /\ ~ends /\ root /\ text[at] = Slash /\ at = Len(text) => q = whole
      /\ ~ends /\ root /\ text[at] = Slash /\ at # Len(text) => q = ParseSegments(p, text, next)
  BY ParsePathIs
<1> HIDE DEF q
<1>4. CASE path = <<>>
  <2>1. ends
    BY <1>2, <1>4
  <2>2. Sets(p.uri, p.uri, "path", path)
    BY <1>4 DEF Sets
  <2>3. p.ok /\ p.at = at + Len(path)
    BY <1>2, <1>4
  <2>4. q = p
    BY <1>3, <2>1
  <2> QED
    BY <2>2, <2>3, <2>4 DEF TakesPath, q
<1>5. CASE path # <<>> /\ at = Len(text)
  <2>1. text[at] = Slash /\ Len(path) = 1 /\ next = at + Len(path)
    BY <1>2, <1>5
  <2>2. ~ends
    BY <1>2, <1>5, <2>1 DEF Slash, Question, Hash
  <2>3. q = whole
    BY <1>3, <1>5, <2>1, <2>2
  <2>4. path = <<Slash>>
    BY <1>1, <1>5, <2>1, OneSlash
  <2> HIDE DEF next
  <2>5. whole.ok = p.ok /\ whole.at = next /\ Sets(p.uri, whole.uri, "path", <<Slash>>)
    BY StoresRoot, ZenonT(60)
  <2> HIDE DEF whole
  <2> QED
    BY <2>1, <2>3, <2>4, <2>5 DEF TakesPath, q
<1>6. CASE path # <<>> /\ at # Len(text)
  <2>1. text[at] = Slash /\ next <= Len(text) /\ path[1] = Slash /\ next \in Nat
    BY <1>2, <1>6
  <2>2. ~ends
    BY <1>2, <1>6, <2>1 DEF Slash, Question, Hash
  <2>3. q = ParseSegments(p, text, next)
    BY <1>3, <1>6, <2>1, <2>2
  <2>4. next = FirstSegment(path, at)
    BY <2>1 DEF FirstSegment
  <2> HIDE DEF next
  <2>5. TakesPath(p, ParseSegments(p, text, next), at, path)
    BY <1>6, <2>1, <2>4, SegmentsAgain
  <2> QED
    BY <2>3, <2>5 DEF q
<1> QED
  BY <1>4, <1>5, <1>6

------------------------------------------------------------------------------
(* The hierarchical part that is printed *)

\* The path of a text without authority that does not begin with "/".
LEMMA UnrootedPathAgain ==
    ASSUME NEW p, IsParse(p), p.ok, p.uri.path = <<>>, NEW at \in Nat \ {0}, p.at = at,
           NEW text \in Seq(Chars), NEW path, PathIs(path), Stands(text, at, path),
           path # <<>>, path[1] # Slash, NEW root \in BOOLEAN, ~root
    PROVE  TakesPath(p, ParsePath(p, text, root), at, path)
<1> DEFINE q == ParsePath(p, text, root)
           ends == at > Len(text) \/ (root /\ text[at] \in {Question, Hash})
<1>1. path \in Seq(Chars)
  BY PathIsFacts
<1>2. Len(text) \in Nat /\ at <= Len(text)
  <2>1. path # <<>> => text[at] = path[1] /\ at <= Len(text)
    BY <1>1, StandsFacts
  <2> QED
    BY <2>1
<1>3. ~ends /\ ~root => q = ParseSegments(p, text, at)
  BY ParsePathIs
<1> HIDE DEF q
<1>4. q = ParseSegments(p, text, at)
  BY <1>2, <1>3
<1>5. at = FirstSegment(path, at) /\ at \in Nat
  BY DEF FirstSegment
<1>6. TakesPath(p, ParseSegments(p, text, at), at, path)
  BY <1>2, <1>5, SegmentsAgain
<1> QED
  BY <1>4, <1>6 DEF q

\* The path of a text without authority that begins with "/".
LEMMA PathAfterRootAgain ==
    ASSUME NEW p, IsParse(p), p.ok, p.uri.path = <<Slash>>, NEW at \in Nat \ {0}, p.at = at + 1,
           NEW text \in Seq(Chars), NEW path, PathIs(path), Stands(text, at, path),
           path # <<>>, path[1] = Slash, NEW root \in BOOLEAN, ~root
    PROVE  TakesPath(p, ParsePath(p, text, root), at, path)
<1> DEFINE q == ParsePath(p, text, root)
           next == at + 1
           ends == next > Len(text) \/ (root /\ text[next] \in {Question, Hash})
<1>1. path \in Seq(Chars)
  BY PathIsFacts
<1>2. /\ Len(path) \in Nat /\ Len(text) \in Nat
      /\ path # <<>> /\ at >= Len(text) => Len(path) = 1 /\ at + 1 = at + Len(path)
  BY <1>1, StandsFacts
<1>3. /\ ends => q = p
      /\ ~ends /\ ~root => q = ParseSegments(p, text, next)
  BY ParsePathIs
<1> HIDE DEF q
<1>4. CASE next > Len(text)
  <2>1. q = p
    BY <1>3, <1>4
  <2>2. Len(path) = 1 /\ next = at + Len(path)
    BY <1>2, <1>4
  <2>3. path = <<Slash>>
    BY <1>1, <2>2, OneSlash
  <2>4. Sets(p.uri, p.uri, "path", path)
    BY <2>3 DEF Sets
  <2> QED
    BY <2>1, <2>2, <2>4 DEF TakesPath, q
<1>5. CASE next <= Len(text)
  <2>1. ~ends
    BY <1>2, <1>5
  <2>2. q = ParseSegments(p, text, next)
    BY <1>3, <2>1
  <2>3. TakesPath(p, ParseSegments(p, text, at + 1), at, path)
    BY <1>5, SegmentsAfterRoot
  <2> QED
    BY <2>2, <2>3 DEF q
<1> QED
  BY <1>2, <1>4, <1>5

\* What a hierarchical part is printed as.
HierText(u, flag) == IF u.has_auth THEN <<Slash, Slash>> \o (authority(u, flag) \o u.path) ELSE u.path

\* What its parse leads to.
HierAgainIs(q, u, flag, text, y) ==
    /\ IsParse(q) /\ q.ok /\ q.at \in Nat \ {0} /\ Rest(text, q.at, y)
    /\ \A g \in Fields \ {"port", "query", "fragment"} : q.uri[g] = u[g]
    /\ q.uri.port = PortAgain(u, flag) /\ q.uri.query = <<>> /\ q.uri.fragment = <<>>

LEMMA TakesPathMakes ==
    ASSUME NEW p, NEW u, NEW flag, Again(p.uri, u, flag), NEW q, IsParse(q),
           NEW at \in Nat \ {0}, NEW path \in Seq(Chars), path = u.path,
           TakesPath(p, q, at, path), NEW text, NEW y, Rest(text, at + Len(path), y)
    PROVE  HierAgainIs(q, u, flag, text, y)
<1> DEFINE v == q.uri
           w == p.uri
<1>1. q.ok /\ q.at = at + Len(path) /\ v.path = path /\ \A g \in Fields \ {"path"} : v[g] = w[g]
  BY DEF TakesPath, Sets
<1>2. /\ w.scheme = u.scheme /\ w.userinfo = u.userinfo /\ w.host = u.host
      /\ w.port = PortAgain(u, flag) /\ w.has_auth = u.has_auth
      /\ w.query = <<>> /\ w.fragment = <<>>
  BY DEF Again
<1> HIDE DEF v, w
<1>3. /\ v.scheme = w.scheme /\ v.userinfo = w.userinfo /\ v.host = w.host /\ v.port = w.port
      /\ v.has_auth = w.has_auth /\ v.query = w.query /\ v.fragment = w.fragment
  BY <1>1 DEF Fields
<1>4. \A g \in Fields \ {"port", "query", "fragment"} : v[g] = u[g]
  BY <1>1, <1>2, <1>3 DEF Fields
<1>5. q.at \in Nat \ {0} /\ Rest(text, q.at, y)
  <2>1. Len(path) \in Nat
    OBVIOUS
  <2> QED
    BY <1>1, <2>1
<1> QED
  BY <1>1, <1>2, <1>3, <1>4, <1>5 DEF HierAgainIs, v

LEMMA CharsAssociative == \A s, t, v \in Seq(Chars) : (s \o t) \o v = s \o (t \o v)
  BY ConcatAssociative, SMTT(30)

LEMMA HierPartIs ==
    ASSUME NEW p, NEW text
    PROVE  LET Is(i, c) == i <= Len(text) /\ text[i] = c
               q == ParseHierPart(p, text)
           IN  /\ Is(p.at, Slash) /\ Is(p.at + 1, Slash) =>
                    q = AfterAuthority(ParseAuthority([p EXCEPT !.at = p.at + 2], text), text)
               /\ Is(p.at, Slash) /\ ~Is(p.at + 1, Slash) =>
                    q = ParsePath([p EXCEPT !.at = p.at + 1, !.uri.path = <<Slash>>], text, FALSE)
               /\ ~Is(p.at, Slash) /\ p.at <= Len(text) /\ text[p.at] \in pchar =>
                    q = ParsePath(p, text, FALSE)
               /\ ~Is(p.at, Slash) /\ ~(p.at <= Len(text) /\ text[p.at] \in pchar) => q = p
<1> DEFINE a == p.at <= Len(text) /\ text[p.at] = Slash
           b == p.at + 1 <= Len(text) /\ text[p.at + 1] = Slash
           c == p.at <= Len(text) /\ text[p.at] \in pchar
           q == ParseHierPart(p, text)
           x == AfterAuthority(ParseAuthority([p EXCEPT !.at = p.at + 2], text), text)
           y == ParsePath([p EXCEPT !.at = p.at + 1, !.uri.path = <<Slash>>], text, FALSE)
           z == ParsePath(p, text, FALSE)
<1>1. q = CASE a /\ b -> x [] a /\ ~b -> y [] c -> z [] OTHER -> p
  BY Zenon DEF ParseHierPart
<1>2. c => ~a
  <2>1. Slash \notin pchar
    BY DEF pchar, unreserved, sub_delims, ALPHA, DIGIT, Percent, Colon, At, Dot, Slash
  <2> QED
    BY <2>1
<1> SUFFICES /\ a /\ b => q = x
             /\ a /\ ~b => q = y
             /\ ~a /\ c => q = z
             /\ ~a /\ ~c => q = p
  OBVIOUS
<1> HIDE DEF a, b, c, q, x, y, z
<1> QED
  BY <1>1, <1>2, Zenon

LEMMA DoubleSlashFirst ==
    ASSUME NEW t \in Seq(Chars), NEW text \in Seq(Chars), NEW at \in Nat \ {0},
           Rest(text, at, <<Slash, Slash>> \o t)
    PROVE  /\ Rest(text, at + 2, t)
           /\ at <= Len(text) /\ text[at] = Slash
           /\ at + 1 <= Len(text) /\ text[at + 1] = Slash
<1> DEFINE s == <<Slash, Slash>>
<1>1. s \in Seq(Chars) /\ Len(s) = 2 /\ s[1] = Slash /\ s[2] = Slash
  BY SegmentsClassFacts
<1> HIDE DEF s
<1>2. /\ Rest(text, at + Len(s), t)
      /\ \A i \in 1..Len(s) : text[at + i - 1] = s[i]
  BY <1>1, RestAfter DEF s
<1>3. Rest(text, at + 2, t)
  BY <1>1, <1>2
<1>4. Len(text) = at + 2 - 1 + Len(t)
  BY <1>3 DEF Rest
<1>5. Len(t) \in Nat
  OBVIOUS
<1>6. at <= Len(text) /\ at + 1 <= Len(text)
  BY <1>4, <1>5
<1>7. text[at + 1 - 1] = s[1] /\ text[at + 2 - 1] = s[2]
  BY <1>1, <1>2
<1>8. at + 1 - 1 = at /\ at + 2 - 1 = at + 1
  OBVIOUS
<1> QED
  BY <1>1, <1>3, <1>6, <1>7, <1>8

LEMMA HierWithAuthority ==
    ASSUME NEW u, NEW flag \in BOOLEAN, Canonical(u, flag), ~UndefinedFlag(u), Printable(u), u.has_auth,
           NEW p, IsParse(p), p.ok, SchemeOnly(p.uri), p.uri.scheme = u.scheme, p.at \in Nat \ {0},
           NEW text \in Seq(Chars), NEW y \in Seq(Chars), y # <<>> => y[1] \in {Question, Hash},
           Rest(text, p.at, HierText(u, flag) \o y)
    PROVE  HierAgainIs(ParseHierPart(p, text), u, flag, text, y)
<1> DEFINE a == authority(u, flag)
           path == u.path
           at == p.at
           rest == path \o y
           inside == [p EXCEPT !.at = p.at + 2]
           q == ParseAuthority(inside, text)
           r == ParsePath(q, text, TRUE)
           hier == ParseHierPart(p, text)
<1>1. a \in Seq(Chars) /\ PathIs(path) /\ (path = <<>> \/ path[1] = Slash)
  <2>1. a \in Seq(Chars)
    BY AuthorityPrinted
  <2>2. PathIs(path)
    BY PrintablePath
  <2>3. path = <<>> \/ path[1] = Slash
    BY DEF Canonical
  <2> QED
    BY <2>1, <2>2, <2>3
<1>2. path \in Seq(Chars)
  BY <1>1, PathIsFacts
<1>3. Rest(text, at, <<Slash, Slash>> \o (a \o rest)) /\ at \in Nat \ {0}
  <2> DEFINE s == <<Slash, Slash>>
             h == HierText(u, flag)
  <2>1. s \in Seq(Chars)
    BY SegmentsClassFacts
  <2>2. h = s \o (a \o path)
    BY Zenon DEF HierText
  <2>3. Rest(text, at, h \o y)
    OBVIOUS
  <2> HIDE DEF a, path, s, h
  <2>4. a \o path \in Seq(Chars)
    BY <1>1, <1>2, ConcatProperties
  <2>5. (s \o (a \o path)) \o y = s \o ((a \o path) \o y)
    BY <2>1, <2>4, CharsAssociative, ZenonT(60)
  <2>6. (a \o path) \o y = a \o (path \o y)
    BY <1>1, <1>2, CharsAssociative, ZenonT(60)
  <2> QED
    BY <2>2, <2>3, <2>5, <2>6 DEF s
<1>4. rest \in Seq(Chars) /\ a \o rest \in Seq(Chars)
  <2> HIDE DEF a, path
  <2>1. rest \in Seq(Chars)
    BY <1>2, ConcatProperties
  <2> HIDE DEF rest
  <2>2. a \o rest \in Seq(Chars)
    BY <1>1, <2>1, ConcatProperties
  <2> QED
    BY <2>1, <2>2
<1>5. rest # <<>> => rest[1] \in {Slash, Question, Hash}
  <2> HIDE DEF path
  <2>1. CASE path = <<>>
    <3>1. rest = y
      BY <2>1, ConcatEmptySeq
    <3> QED
      BY <3>1
  <2>2. CASE path # <<>>
    <3>1. Len(path) \in Nat \ {0} /\ Len(y) \in Nat
      BY <1>2, <2>2, EmptySeq
    <3>2. rest[1] = path[1]
      BY <1>2, <3>1, ConcatProperties
    <3> QED
      BY <1>1, <2>2, <3>2
  <2> QED
    BY <2>1, <2>2
<1>6. /\ Rest(text, at + 2, a \o rest)
      /\ at <= Len(text) /\ text[at] = Slash
      /\ at + 1 <= Len(text) /\ text[at + 1] = Slash
  <2> DEFINE t == a \o rest
  <2>1. t \in Seq(Chars)
    BY <1>4
  <2> HIDE DEF a, at, rest, t
  <2>2. Rest(text, at, <<Slash, Slash>> \o t)
    BY <1>3 DEF t
  <2>3. /\ Rest(text, at + 2, t)
        /\ at <= Len(text) /\ text[at] = Slash
        /\ at + 1 <= Len(text) /\ text[at + 1] = Slash
    BY <1>3, <2>1, <2>2, DoubleSlashFirst
  <2> QED
    BY <2>3 DEF t
<1>7. hier = AfterAuthority(q, text)
  BY <1>6, HierPartIs, Zenon
<1>8. IsParse(inside) /\ inside.ok /\ inside.at = at + 2 /\ inside.uri = p.uri
  BY AtSets, ZenonT(60)
<1>9. inside.at \in Nat \ {0} /\ SchemeOnly(inside.uri) /\ inside.uri.scheme = u.scheme
  BY <1>8
<1>10. Rest(text, inside.at, a \o rest)
  BY <1>6, <1>8
<1> HIDE DEF inside, rest
<1>11. /\ IsParse(q) /\ q.ok /\ q.at \in Nat \ {0} /\ Rest(text, q.at, rest)
       /\ Again(q.uri, u, flag)
  BY <1>4, <1>5, <1>8, <1>9, <1>10, AuthorityAgain
<1> HIDE DEF q
<1> DEFINE start == q.at
<1>12. Stands(text, start, path) /\ Rest(text, start + Len(path), y) /\ start \in Nat \ {0}
  <2>1. Rest(text, start, path \o y) /\ start \in Nat \ {0}
    BY <1>11 DEF rest
  <2> HIDE DEF path, start
  <2> QED
    BY <1>2, <2>1, RestStands
<1>13. hier = r
  <2>1. hier = IF q.ok THEN r ELSE q
    BY <1>7, Zenon DEF AfterAuthority
  <2> QED
    BY <1>11, <2>1
<1>14. TakesPath(q, r, start, path)
  <2> DEFINE t == TRUE
  <2>1. t \in BOOLEAN /\ t
    OBVIOUS
  <2>2. q.uri.path = <<>> /\ q.at = start
    BY <1>11 DEF Again
  <2> HIDE DEF t, start, path
  <2>3. TakesPath(q, ParsePath(q, text, t), start, path)
    BY <1>1, <1>11, <1>12, <2>1, <2>2, RootedPathAgain
  <2> QED
    BY <2>3 DEF t
<1>15. IsParse(hier)
  BY HierPartIsParse
<1>16. HierAgainIs(r, u, flag, text, y)
  <2>1. IsParse(r)
    BY <1>13, <1>15
  <2>2. path = u.path
    OBVIOUS
  <2> HIDE DEF r, start, path, hier
  <2> QED
    BY <1>2, <1>11, <1>12, <1>14, <2>1, <2>2, TakesPathMakes
<1> QED
  BY <1>13, <1>16

LEMMA HierWithoutAuthority ==
    ASSUME NEW u, NEW flag \in BOOLEAN, Canonical(u, flag), ~UndefinedFlag(u), Printable(u), ~u.has_auth,
           NEW p, IsParse(p), p.ok, SchemeOnly(p.uri), p.uri.scheme = u.scheme, p.at \in Nat \ {0},
           NEW text \in Seq(Chars), NEW y \in Seq(Chars), y # <<>> => y[1] \in {Question, Hash},
           Rest(text, p.at, HierText(u, flag) \o y)
    PROVE  HierAgainIs(ParseHierPart(p, text), u, flag, text, y)
<1> DEFINE path == u.path
           at == p.at
           rooted == [p EXCEPT !.at = at + 1, !.uri.path = <<Slash>>]
           hier == ParseHierPart(p, text)
           f == FALSE
           a == at <= Len(text) /\ text[at] = Slash
           b == at + 1 <= Len(text) /\ text[at + 1] = Slash
           c == at <= Len(text) /\ text[at] \in pchar
<1>1. PathIs(path)
  BY PrintablePath
<1>2. path \in Seq(Chars) /\ PathClean(path)
  BY <1>1, PathIsFacts
<1>3. Stands(text, at, path) /\ Rest(text, at + Len(path), y) /\ at \in Nat \ {0}
  <2>1. HierText(u, flag) = path
    BY DEF HierText
  <2>2. Rest(text, at, path \o y) /\ at \in Nat \ {0}
    BY <2>1
  <2> HIDE DEF path, at
  <2> QED
    BY <1>2, <2>2, RestStands
<1>4. Again(p.uri, u, flag)
  <2>1. PortAgain(u, flag) = -1
    BY PortPrinted
  <2>2. u.userinfo = <<>> /\ u.host = <<>> /\ u.has_auth \in BOOLEAN
    BY DEF Canonical
  <2> QED
    BY <2>1, <2>2 DEF SchemeOnly, Again
<1>5. p.uri.path = <<>>
  BY DEF SchemeOnly
<1> HIDE DEF path, at
<1>6. /\ Len(path) \in Nat /\ Len(text) \in Nat
      /\ path = <<>> => Len(path) = 0 /\ at + Len(path) = at
                        /\ (at <= Len(text) => text[at] \in {Question, Hash})
      /\ path # <<>> => text[at] = path[1] /\ at <= Len(text)
      /\ path # <<>> /\ at < Len(text) /\ Len(path) = 1 => text[at + 1] \in {Question, Hash}
      /\ path # <<>> /\ at < Len(text) /\ Len(path) # 1 => Len(path) >= 2 /\ text[at + 1] = path[2]
  BY <1>2, <1>3, StandsFacts
<1>7. /\ a /\ ~b => hier = ParsePath(rooted, text, f)
      /\ ~a /\ c => hier = ParsePath(p, text, f)
      /\ ~a /\ ~c => hier = p
  BY HierPartIs, Zenon DEF at
<1>8. IsParse(hier)
  BY HierPartIsParse
<1>9. f \in BOOLEAN /\ ~f
  OBVIOUS
<1> HIDE DEF f, hier
<1>10. Slash \notin {Question, Hash} /\ Question \notin pchar /\ Hash \notin pchar
  <2>1. Question \notin pchar /\ Hash \notin pchar
    BY SegmentsClassFacts
  <2> QED
    BY <2>1 DEF Slash, Question, Hash
<1>11. CASE path = <<>>
  <2>1. ~a /\ ~c
    BY <1>6, <1>10, <1>11
  <2>2. hier = p
    BY <1>7, <2>1
  <2>3. Sets(p.uri, p.uri, "path", path)
    BY <1>5, <1>11 DEF Sets
  <2>4. p.at = at + Len(path)
    BY <1>6, <1>11 DEF at
  <2> QED
    <3>1. TakesPath(p, hier, at, path)
      BY <2>2, <2>3, <2>4 DEF TakesPath
    <3> QED
      BY <1>2, <1>3, <1>4, <1>8, <3>1, TakesPathMakes DEF path, hier
<1>12. CASE path # <<>> /\ path[1] = Slash
  <2>1. a
    BY <1>6, <1>12
  <2>2. ~b
    <3>1. SUFFICES ASSUME at + 1 <= Len(text) PROVE text[at + 1] # Slash
      OBVIOUS
    <3>2. at < Len(text)
      BY <1>3, <1>6, <3>1
    <3>3. CASE Len(path) = 1
      BY <1>6, <1>10, <1>12, <3>2, <3>3
    <3>4. CASE Len(path) # 1
      <4>1. 2 \in 2..Len(path) /\ text[at + 1] = path[2]
        BY <1>6, <1>12, <3>2, <3>4
      <4>2. path[2] = Slash => path[2 - 1] # Slash
        BY <1>2, <4>1 DEF PathClean, WellPlaced
      <4> QED
        BY <1>12, <4>1, <4>2
    <3> QED
      BY <3>3, <3>4
  <2> DEFINE next == at + 1
             slash == <<Slash>>
  <2>3. rooted = [p EXCEPT !.at = next, !.uri.path = slash]
    OBVIOUS
  <2>4. hier = ParsePath(rooted, text, f)
    BY <1>7, <2>1, <2>2
  <2>5. IsParse(rooted) /\ rooted.ok = p.ok /\ rooted.at = next /\ Sets(p.uri, rooted.uri, "path", slash)
    BY StoresRoot
  <2>6. next = at + 1
    OBVIOUS
  <2> HIDE DEF rooted, next
  <2>7. rooted.uri.path = slash
    BY <2>5 DEF Sets
  <2>8. TakesPath(rooted, hier, at, path)
    <3>1. rooted.ok /\ rooted.at = at + 1
      BY <2>5, <2>6
    <3> QED
      BY <1>1, <1>3, <1>9, <1>12, <2>4, <2>5, <2>7, <3>1, PathAfterRootAgain
  <2>9. TakesPath(p, hier, at, path)
    BY <2>5, <2>8 DEF TakesPath, Sets
  <2> QED
    BY <1>2, <1>3, <1>4, <1>8, <2>9, TakesPathMakes DEF path, hier
<1>13. CASE path # <<>> /\ path[1] # Slash
  <2>1. path[1] \in pchar
    <3>1. 1 \in 1..Len(path)
      BY <1>2, <1>13, EmptySeq
    <3>2. path[1] \in SegmentsClass
      BY <1>2, <3>1 DEF PathClean
    <3> QED
      BY <1>13, <3>2 DEF SegmentsClass
  <2>2. ~a /\ c
    BY <1>6, <1>13, <2>1
  <2>3. hier = ParsePath(p, text, f)
    BY <1>7, <2>2
  <2>4. p.at = at
    BY DEF at
  <2>5. TakesPath(p, hier, at, path)
    BY <1>1, <1>3, <1>5, <1>9, <1>13, <2>3, <2>4, UnrootedPathAgain
  <2> QED
    BY <1>2, <1>3, <1>4, <1>8, <2>5, TakesPathMakes DEF path, hier
<1> QED
  BY <1>11, <1>12, <1>13

LEMMA HierAgain ==
    ASSUME NEW u, NEW flag \in BOOLEAN, Canonical(u, flag), ~UndefinedFlag(u), Printable(u),
           NEW p, IsParse(p), p.ok, SchemeOnly(p.uri), p.uri.scheme = u.scheme, p.at \in Nat \ {0},
           NEW text \in Seq(Chars), NEW y \in Seq(Chars), y # <<>> => y[1] \in {Question, Hash},
           Rest(text, p.at, HierText(u, flag) \o y)
    PROVE  HierAgainIs(ParseHierPart(p, text), u, flag, text, y)
  BY HierWithAuthority, HierWithoutAuthority

------------------------------------------------------------------------------
(* The text that is printed *)

\* A mark and what is after it.
LEMMA MarkFirst ==
    ASSUME NEW c \in Chars, NEW x \in Seq(Chars)
    PROVE  <<c>> \o x \in Seq(Chars) /\ <<c>> \o x # <<>> /\ (<<c>> \o x)[1] = c
<1> DEFINE s == <<c>>
           w == s \o x
<1>1. s \in Seq(Chars) /\ Len(s) = 1 /\ s[1] = c
  OBVIOUS
<1>2. w = s \o x
  OBVIOUS
<1> HIDE DEF s, w
<1>3. Len(x) \in Nat
  OBVIOUS
<1>4. w \in Seq(Chars) /\ Len(w) = 1 + Len(x)
      /\ \A i \in 1..(1 + Len(x)) : w[i] = IF i <= 1 THEN s[i] ELSE x[i - 1]
  BY <1>1, <1>2, ConcatProperties
<1>5. 1 \in 1..(1 + Len(x)) /\ Len(w) # 0
  BY <1>3, <1>4
<1>6. w[1] = s[1]
  BY <1>4, <1>5
<1>7. w \in Seq(Chars) /\ w # <<>> /\ w[1] = c
  BY <1>1, <1>4, <1>5, <1>6, EmptySeq
<1> QED
  BY <1>7 DEF w, s

\* A mark and the part after it, or nothing.
LEMMA BeforeFacts ==
    ASSUME NEW c \in Chars, NEW x \in Seq(Chars)
    PROVE  /\ Before(c, x) \in Seq(Chars)
           /\ x = <<>> => Before(c, x) = <<>>
           /\ x # <<>> => Before(c, x) # <<>> /\ Before(c, x)[1] = c /\ Before(c, x) = <<c>> \o x
<1> DEFINE b == Before(c, x)
           w == <<c>> \o x
<1>1. /\ x = <<>> => b = <<>>
      /\ x # <<>> => b = w
  BY Zenon DEF Before
<1>2. w \in Seq(Chars) /\ w # <<>> /\ w[1] = c
  BY MarkFirst
<1> HIDE DEF w
<1>3. b \in Seq(Chars)
  BY <1>1, <1>2
<1> HIDE DEF b
<1> QED
  BY <1>1, <1>2, <1>3 DEF b, w

LEMMA HierTextIsSeq ==
    ASSUME NEW u, NEW flag \in BOOLEAN, Canonical(u, flag), ~UndefinedFlag(u), Printable(u)
    PROVE  /\ authority(u, flag) \in Seq(Chars) /\ u.path \in Seq(Chars) /\ HierText(u, flag) \in Seq(Chars)
           /\ <<Slash, Slash>> \in Seq(Chars)
<1> DEFINE a == authority(u, flag)
           path == u.path
           s == <<Slash, Slash>>
           h == HierText(u, flag)
<1>1. a \in Seq(Chars) /\ path \in Seq(Chars) /\ u.has_auth \in BOOLEAN
  <2>1. a \in Seq(Chars)
    BY AuthorityPrinted
  <2> QED
    BY <2>1 DEF Canonical
<1>2. s \in Seq(Chars)
  BY SegmentsClassFacts
<1>3. h = IF u.has_auth THEN s \o (a \o path) ELSE path
  BY Zenon DEF HierText
<1> HIDE DEF a, path, s, h
<1>4. a \o path \in Seq(Chars)
  BY <1>1, ConcatProperties
<1>5. s \o (a \o path) \in Seq(Chars)
  BY <1>2, <1>4, ConcatProperties
<1>6. h \in Seq(Chars)
  BY <1>1, <1>3, <1>5
<1> QED
  BY <1>1, <1>2, <1>6 DEF a, path, s, h

\* An object without authority prints none.
LEMMA PrintsAuthority ==
    ASSUME NEW u, NEW flag \in BOOLEAN, Canonical(u, flag), ~UndefinedFlag(u)
    PROVE  HasAuthority(u, flag) <=> u.has_auth
<1> DEFINE e == <<>>
           f == FALSE
<1>1. SUFFICES ASSUME ~u.has_auth PROVE authority(u, flag) = e
  BY Zenon DEF HasAuthority
<1>2. u.userinfo = e /\ u.host = e
  BY <1>1 DEF Canonical
<1>3. PrintsPort(u, flag) \in BOOLEAN /\ ~PrintsPort(u, flag)
  BY <1>1, PortPrinted
<1> DEFINE ported == PrintsPort(u, flag)
           d == DigitsOf(u, flag)
<1>4. authority(u, flag) = AuthorityText(e, e, ported, d)
  BY <1>2, AuthorityIs
<1>5. ~ported
  BY <1>3
<1> HIDE DEF ported, d
<1>6. BeforeHost(e) = e /\ AfterHost(ported, d) = e
  BY <1>5 DEF BeforeHost, AfterHost
<1>7. AuthorityText(e, e, ported, d) = (e \o e) \o e
  BY <1>6, Zenon DEF AuthorityText
<1>8. e \o e = e
  <2>1. e \in Seq(Chars)
    OBVIOUS
  <2> HIDE DEF e
  <2> QED
    BY <2>1, ConcatEmptySeq DEF e
<1> HIDE DEF e
<1> QED
  BY <1>4, <1>7, <1>8

LEMMA StrIs ==
    ASSUME NEW u, NEW flag \in BOOLEAN, Canonical(u, flag), ~UndefinedFlag(u), Printable(u)
    PROVE  str(u, flag) = u.scheme \o (<<Colon>> \o (HierText(u, flag)
                              \o (Before(Question, u.query) \o Before(Hash, u.fragment))))
<1> DEFINE scheme == u.scheme
           path == u.path
           a == authority(u, flag)
           c == <<Colon>>
           s == <<Slash, Slash>>
           e == <<>>
           q == Before(Question, u.query)
           f == Before(Hash, u.fragment)
           h == HierText(u, flag)
           b == IF ~HasAuthority(u, flag) THEN e
                ELSE s \o a \o (IF path # e /\ path[1] # Slash THEN <<Slash>> ELSE e)
           first == IF scheme = e THEN e ELSE Append(scheme, Colon)
<1>1. str(u, flag) = (((first \o b) \o path) \o q) \o f
  BY Zenon DEF str, abs_str
<1>2. scheme \in Seq(Chars) /\ scheme # e /\ Colon \in Chars
  BY SegmentsClassFacts DEF Canonical, SchemeOk, Colon, Chars
<1>3. a \in Seq(Chars) /\ path \in Seq(Chars) /\ h \in Seq(Chars) /\ s \in Seq(Chars)
  BY HierTextIsSeq
<1>4. c \in Seq(Chars) /\ e \in Seq(Chars)
  BY <1>2
<1>5. q \in Seq(Chars) /\ f \in Seq(Chars)
  <2>1. Question \in Chars /\ Hash \in Chars
    BY DEF Question, Hash, Chars
  <2>2. u.query \in Seq(Chars) /\ u.fragment \in Seq(Chars)
    BY DEF Canonical, DecodedOk
  <2>3. q \in Seq(Chars)
    BY <2>1, <2>2, BeforeFacts
  <2>4. f \in Seq(Chars)
    BY <2>1, <2>2, BeforeFacts
  <2> QED
    BY <2>3, <2>4
<1>6. first = scheme \o c
  <2>1. first = Append(scheme, Colon)
    BY <1>2
  <2> HIDE DEF first, scheme
  <2> QED
    BY <1>2, <2>1, AppendIsConcat
<1>7. u.has_auth \in BOOLEAN /\ (HasAuthority(u, flag) <=> u.has_auth)
      /\ (u.has_auth => path = e \/ path[1] = Slash)
  BY PrintsAuthority DEF Canonical
<1>8. /\ u.has_auth => h = s \o (a \o path) /\ b = (s \o a) \o e
      /\ ~u.has_auth => h = path /\ b = e
  <2>1. /\ u.has_auth => h = s \o (a \o path)
        /\ ~u.has_auth => h = path
    BY Zenon DEF HierText
  <2>2. u.has_auth => ~(path # e /\ path[1] # Slash)
    BY <1>7
  <2> DEFINE between == IF path # e /\ path[1] # Slash THEN <<Slash>> ELSE e
  <2>3. u.has_auth => between = e
    BY <2>2, Zenon
  <2>4. b = IF ~HasAuthority(u, flag) THEN e ELSE (s \o a) \o between
    OBVIOUS
  <2> HIDE DEF between, b, s, a, e, h, path
  <2> QED
    BY <1>7, <2>1, <2>3, <2>4, Zenon
<1> HIDE DEF scheme, path, a, c, s, q, f, h, b, first
<1>9. b \in Seq(Chars) /\ b \o path = h
  <2>1. s \o a \in Seq(Chars)
    BY <1>3, ConcatProperties
  <2> DEFINE sa == s \o a
  <2>2. sa \o e = sa /\ e \o path = path
    BY <1>3, <2>1, ConcatEmptySeq
  <2>3. sa \o path = s \o (a \o path)
    BY <1>3, CharsAssociative, Zenon
  <2>4. sa \in Seq(Chars)
    BY <2>1
  <2> HIDE DEF sa, e
  <2>5. /\ u.has_auth => b = sa
        /\ ~u.has_auth => b = e
    BY <1>8, <2>2 DEF sa
  <2> QED
    BY <1>4, <1>7, <1>8, <2>2, <2>3, <2>4, <2>5
<1>10. (first \o b) \o path = first \o h
  <2>1. first \in Seq(Chars)
    BY <1>2, <1>4, <1>6, ConcatProperties
  <2>2. (first \o b) \o path = first \o (b \o path)
    BY <1>3, <1>9, <2>1, CharsAssociative, ZenonT(60)
  <2> QED
    BY <1>9, <2>2
<1>11. scheme \o c \in Seq(Chars) /\ h \o (q \o f) \in Seq(Chars)
  <2>1. q \o f \in Seq(Chars)
    BY <1>5, ConcatProperties
  <2> DEFINE qf == q \o f
  <2>2. qf \in Seq(Chars)
    BY <2>1
  <2> HIDE DEF qf
  <2>3. h \o qf \in Seq(Chars) /\ scheme \o c \in Seq(Chars)
    BY <1>2, <1>3, <1>4, <2>2, ConcatProperties
  <2> QED
    BY <2>3 DEF qf
<1> DEFINE w == scheme \o c
           r == h \o (q \o f)
<1>12. str(u, flag) = ((w \o h) \o q) \o f
  BY <1>1, <1>6, <1>10
<1>13. w \o r = scheme \o (c \o r)
  <2>1. w = scheme \o c /\ r \in Seq(Chars)
    BY <1>11
  <2> HIDE DEF r
  <2>2. \A x \in Seq(Chars) : (scheme \o c) \o x = scheme \o (c \o x)
    BY <1>2, <1>4, CharsAssociative, Zenon
  <2> QED
    BY <2>1, <2>2
<1>14. w \in Seq(Chars)
  BY <1>11
<1> HIDE DEF w
<1>15. ((w \o h) \o q) \o f = w \o r
  <2>1. \A x \in Seq(Chars) : (x \o q) \o f = x \o (q \o f)
    BY <1>5, CharsAssociative, Zenon
  <2>2. \A y \in Seq(Chars) : (w \o h) \o y = w \o (h \o y)
    BY <1>3, <1>14, CharsAssociative, Zenon
  <2>3. w \o h \in Seq(Chars)
    BY <1>3, <1>14, ConcatProperties
  <2>4. q \o f \in Seq(Chars)
    BY <1>5, ConcatProperties
  <2>5. ((w \o h) \o q) \o f = (w \o h) \o (q \o f)
    BY <2>1, <2>3, Zenon
  <2>6. (w \o h) \o (q \o f) = w \o r
    BY <2>2, <2>4, Zenon
  <2> QED
    BY <2>5, <2>6, Zenon
<1> HIDE DEF r
<1>16. str(u, flag) = scheme \o (c \o r)
  BY <1>12, <1>13, <1>15
<1> QED
  BY <1>16 DEF scheme, c, r, h, q, f

LEMMA AfterMark ==
    ASSUME NEW c \in Chars, NEW z \in Seq(Chars), NEW text \in Seq(Chars), NEW at \in Nat \ {0},
           Rest(text, at, <<c>> \o z)
    PROVE  at <= Len(text) /\ text[at] = c /\ Rest(text, at + 1, z)
<1> DEFINE s == <<c>>
<1>1. s \in Seq(Chars) /\ Len(s) = 1 /\ s[1] = c
  OBVIOUS
<1>2. ASSUME NEW x \in Seq(Chars), Rest(text, at, x \o z)
      PROVE  /\ Rest(text, at + Len(x), z)
             /\ SubSeq(text, at, at + Len(x) - 1) = x
             /\ \A i \in 1..Len(x) : text[at + i - 1] = x[i]
  BY <1>2, RestAfter
<1>3. Rest(text, at + Len(s), z) /\ \A i \in 1..Len(s) : text[at + i - 1] = s[i]
  BY <1>1, <1>2
<1> HIDE DEF s
<1>4. text[at + 1 - 1] = s[1] /\ at + 1 - 1 = at
  BY <1>1, <1>3
<1>5. Rest(text, at + 1, z)
  BY <1>1, <1>3
<1>6. Len(text) = at + 1 - 1 + Len(z) /\ Len(z) \in Nat
  BY <1>5 DEF Rest
<1> QED
  BY <1>1, <1>4, <1>5, <1>6

LEMMA SchemeAgain ==
    ASSUME NEW scheme, SchemeOk(scheme), NEW text \in Seq(Chars), NEW z \in Seq(Chars),
           Rest(text, 1, scheme \o (<<Colon>> \o z))
    PROVE  LET q == ParseScheme(StartOfParse, text)
           IN  /\ IsParse(q) /\ q.ok /\ q.at \in Nat \ {0}
               /\ SchemeOnly(q.uri) /\ q.uri.scheme = scheme
               /\ q.at <= Len(text) /\ text[q.at] = Colon /\ Rest(text, q.at + 1, z)
<1> DEFINE q == ParseScheme(StartOfParse, text)
           y == <<Colon>> \o z
           end == EndOf(text, 1, SchemeClass)
           one == 1
<1>1. Colon \in Chars /\ Colon \notin SchemeClass
  BY DEF Colon, Chars, SchemeClass, ALPHA, DIGIT, Dot
<1>2. y \in Seq(Chars) /\ y # <<>> /\ y[1] = Colon
  BY <1>1, MarkFirst
<1>3. scheme \in Seq(Chars) /\ scheme # <<>> /\ scheme[1] \in ALPHA /\ ToSet(scheme) \subseteq SchemeClass
  BY DEF SchemeOk
<1>4. one \in Nat \ {0} /\ Rest(text, one, scheme \o y)
  OBVIOUS
<1>5. end = EndOf(text, one, SchemeClass)
  OBVIOUS
<1> HIDE DEF y, one, end
<1>6. /\ Rest(text, one + Len(scheme), y)
      /\ SubSeq(text, one, one + Len(scheme) - 1) = scheme
      /\ \A i \in 1..Len(scheme) : text[one + i - 1] = scheme[i]
  BY <1>2, <1>3, <1>4, RestAfter
<1>7. end = one + Len(scheme)
  BY <1>1, <1>2, <1>3, <1>4, <1>5, RestEnds
<1>8. Len(scheme) \in Nat \ {0} /\ text[1] = scheme[1] /\ text # <<>>
  <2>1. Len(scheme) \in Nat \ {0}
    BY <1>3, EmptySeq
  <2>2. 1 \in 1..Len(scheme) /\ one + 1 - 1 = 1
    BY <2>1 DEF one
  <2>3. text[1] = scheme[1]
    BY <1>6, <2>2
  <2>4. Len(text) = one + Len(scheme) - 1 + Len(y)
    <3> DEFINE m == one + Len(scheme)
    <3>1. m \in Nat /\ Len(scheme) \in Nat /\ one \in Nat
      BY <1>4, <2>1
    <3>2. Rest(text, m, y)
      BY <1>6
    <3> HIDE DEF m
    <3>3. Len(text) = m - 1 + Len(y)
      BY <3>2 DEF Rest
    <3>4. Len(y) \in Nat
      BY <1>2
    <3> QED
      BY <3>1, <3>3, <3>4 DEF m
  <2>5. Len(y) \in Nat
    BY <1>2
  <2>6. Len(text) # 0
    BY <2>1, <2>4, <2>5 DEF one
  <2> QED
    BY <2>1, <2>3, <2>6, EmptySeq
<1>9. IsParse(q) /\ q.ok /\ q.at = end /\ Sets(StartOfParse.uri, q.uri, "scheme", scheme)
  <2>1. /\ q.ok <=> StartOfParse.ok /\ text[1] \in ALPHA
        /\ q.ok => q.at = end /\ Sets(StartOfParse.uri, q.uri, "scheme", SubSeq(text, 1, end - 1))
    BY <1>8, StartIsParse, SchemeSets, Zenon DEF end
  <2>2. StartOfParse.ok
    BY DEF StartOfParse
  <2>3. SubSeq(text, 1, end - 1) = scheme
    BY <1>6, <1>7 DEF one
  <2>4. IsParse(q)
    BY StartIsParse, SchemeIsParse
  <2> QED
    BY <1>3, <1>8, <2>1, <2>2, <2>3, <2>4
<1> HIDE DEF q
<1>10. SchemeOnly(q.uri) /\ q.uri.scheme = scheme
  <2>1. StartOfParse.uri = EmptyUri
    BY DEF StartOfParse
  <2> QED
    BY <1>9, <2>1 DEF Sets, EmptyUri, SchemeOnly, Fields
<1>11. end \in Nat \ {0} /\ Rest(text, end, y)
  BY <1>6, <1>7, <1>8 DEF one
<1>12. end <= Len(text) /\ text[end] = Colon /\ Rest(text, end + 1, z)
  <2>1. Rest(text, end, <<Colon>> \o z)
    BY <1>11 DEF y
  <2> QED
    BY <1>1, <1>11, <2>1, AfterMark
<1>13. /\ IsParse(q) /\ q.ok /\ q.at \in Nat \ {0}
       /\ SchemeOnly(q.uri) /\ q.uri.scheme = scheme
       /\ q.at <= Len(text) /\ text[q.at] = Colon /\ Rest(text, q.at + 1, z)
  BY <1>9, <1>10, <1>11, <1>12
<1> QED
  BY <1>13 DEF q

\* The position after a mark.
LEMMA NextIs ==
    ASSUME NEW p, IsParse(p)
    PROVE  LET r == [p EXCEPT !.at = p.at + 1]
           IN  IsParse(r) /\ r.ok = p.ok /\ r.at = p.at + 1 /\ r.uri = p.uri
<1> DEFINE next == p.at + 1
           r == [p EXCEPT !.at = next]
<1> SUFFICES IsParse(r) /\ r.ok = p.ok /\ r.at = next /\ r.uri = p.uri
  OBVIOUS
<1> HIDE DEF next
<1> QED
  BY AtSets

LEMMA QueryAgain ==
    ASSUME NEW p, IsParse(p), p.ok, p.uri.query = <<>>, NEW at \in Nat \ {0}, p.at = at,
           NEW x \in Seq(Chars), DecodesToItself(x, FALSE), ToSet(x) \subseteq QueryClass,
           NEW y \in Seq(Chars), y # <<>> => y[1] = Hash,
           NEW text \in Seq(Chars), Rest(text, at, Before(Question, x) \o y)
    PROVE  LET q == If(p, text, Question, ParseQuery)
           IN  /\ IsParse(q) /\ q.ok /\ q.at \in Nat \ {0} /\ Rest(text, q.at, y)
               /\ Sets(p.uri, q.uri, "query", x)
<1> DEFINE q == If(p, text, Question, ParseQuery)
           r == [p EXCEPT !.at = p.at + 1]
           s == ParseQuery(r, text)
           a == p.ok /\ p.at <= Len(text) /\ text[p.at] = Question
           b == Before(Question, x)
           next == at + 1
<1>1. /\ IsParse(r) /\ r.ok = p.ok /\ r.at = next /\ r.uri = p.uri
      /\ a => q = s
      /\ ~a => q = p
  <2>1. q = IF a THEN s ELSE p
    BY Zenon DEF If
  <2>2. IsParse(r) /\ r.ok = p.ok /\ r.at = p.at + 1 /\ r.uri = p.uri
    BY NextIs
  <2> HIDE DEF r, q, s
  <2> QED
    BY <2>1, <2>2
<1>2. Question \in Chars /\ Question # Hash /\ Hash \notin QueryClass
  <2>1. Hash \notin pchar
    BY SegmentsClassFacts
  <2> QED
    BY <2>1 DEF Question, Hash, Chars, QueryClass, Slash
<1>3. /\ b \in Seq(Chars)
      /\ x = <<>> => b = <<>>
      /\ x # <<>> => b = <<Question>> \o x
  BY <1>2, BeforeFacts
<1>4. next \in Nat \ {0} /\ next = at + 1
  OBVIOUS
<1>5. Rest(text, at, b \o y)
  OBVIOUS
<1> HIDE DEF q, r, s, b, next
<1>6. CASE x = <<>>
  <2>1. b \o y = y
    BY <1>3, <1>6, ConcatEmptySeq
  <2>2. Rest(text, at, y)
    BY <1>5, <2>1
  <2>3. at <= Len(text) => text[at] = Hash
    BY <2>2, RestIs
  <2>4. q = p
    BY <1>1, <1>2, <2>3
  <2>5. Sets(p.uri, q.uri, "query", x)
    BY <1>6, <2>4 DEF Sets
  <2>6. IsParse(q) /\ q.ok /\ q.at \in Nat \ {0} /\ Rest(text, q.at, y)
    BY <2>2, <2>4
  <2> QED
    BY <2>5, <2>6 DEF q
<1>7. CASE x # <<>>
  <2> DEFINE xy == x \o y
  <2>1. xy \in Seq(Chars)
    BY ConcatProperties
  <2>2. b \o y = <<Question>> \o xy
    <3> DEFINE c == <<Question>>
    <3>1. c \in Seq(Chars) /\ b = c \o x
      BY <1>2, <1>3, <1>7
    <3> HIDE DEF c
    <3>2. (c \o x) \o y = c \o (x \o y)
      BY <3>1, CharsAssociative, Zenon
    <3> QED
      BY <3>1, <3>2 DEF c
  <2>3. xy = x \o y
    OBVIOUS
  <2> HIDE DEF xy
  <2>4. Rest(text, at, <<Question>> \o xy)
    BY <1>5, <2>2
  <2>5. at <= Len(text) /\ text[at] = Question /\ Rest(text, next, xy)
    BY <1>2, <1>4, <2>1, <2>4, AfterMark
  <2>6. q = s
    BY <1>1, <2>5
  <2> DEFINE end == EndOf(text, next, QueryClass)
             piece == SubSeq(text, next, end - 1)
             d == PercentDecode(piece, FALSE)
  <2>7. end = next + Len(x) /\ Rest(text, next + Len(x), y) /\ SubSeq(text, next, next + Len(x) - 1) = x
    <3>1. Rest(text, next, x \o y)
      BY <2>3, <2>5
    <3>2. Rest(text, next + Len(x), y) /\ SubSeq(text, next, next + Len(x) - 1) = x
      BY <1>4, <3>1, RestAfter
    <3>3. y # <<>> => y[1] \notin QueryClass
      BY <1>2
    <3>4. end = next + Len(x)
      BY <1>4, <3>1, <3>3, RestEnds
    <3> QED
      BY <3>2, <3>4
  <2>8. /\ s.ok <=> r.ok /\ d.ok
        /\ s.ok => s.at = end /\ Sets(r.uri, s.uri, "query", r.uri.query \o d.str)
    <3>1. r.at = next
      BY <1>1
    <3>2. LET e == EndOf(text, r.at, QueryClass)
              g == PercentDecode(SubSeq(text, r.at, e - 1), FALSE)
          IN  /\ s.ok <=> r.ok /\ g.ok
              /\ s.ok => s.at = e /\ Sets(r.uri, s.uri, "query", r.uri.query \o g.str)
      BY <1>1, QuerySets, Zenon DEF s
    <3> QED
      BY <3>1, <3>2
  <2>9. piece = x /\ end \in Nat \ {0} /\ Rest(text, end, y)
    <3>1. Len(x) \in Nat
      OBVIOUS
    <3> HIDE DEF end
    <3> QED
      BY <1>4, <2>7, <3>1
  <2> HIDE DEF piece, end
  <2>10. d.ok /\ d.str = x
    BY <2>9, ItselfDecoded
  <2> HIDE DEF d
  <2>11. <<>> \o x = x
    BY ConcatEmptySeq
  <2>12. r.ok /\ r.uri = p.uri /\ r.uri.query = <<>>
    BY <1>1
  <2>13. s.ok /\ s.at = end /\ Sets(p.uri, s.uri, "query", x)
    BY <2>8, <2>10, <2>11, <2>12
  <2>14. IsParse(s)
    BY <1>1, QueryIsParse DEF s
  <2> QED
    BY <2>6, <2>9, <2>13, <2>14 DEF q
<1> QED
  BY <1>6, <1>7

LEMMA FragmentAgain ==
    ASSUME NEW p, IsParse(p), p.ok, p.uri.fragment = <<>>, NEW at \in Nat \ {0}, p.at = at,
           NEW x \in Seq(Chars), DecodesToItself(x, FALSE),
           NEW text \in Seq(Chars), Rest(text, at, Before(Hash, x))
    PROVE  LET q == If(p, text, Hash, ParseFragment)
           IN  q.ok /\ Sets(p.uri, q.uri, "fragment", x)
<1> DEFINE q == If(p, text, Hash, ParseFragment)
           r == [p EXCEPT !.at = p.at + 1]
           s == ParseFragment(r, text)
           a == p.ok /\ p.at <= Len(text) /\ text[p.at] = Hash
           b == Before(Hash, x)
           next == at + 1
<1>1. /\ IsParse(r) /\ r.ok = p.ok /\ r.at = next /\ r.uri = p.uri
      /\ a => q = s
      /\ ~a => q = p
  <2>1. q = IF a THEN s ELSE p
    BY Zenon DEF If
  <2>2. IsParse(r) /\ r.ok = p.ok /\ r.at = p.at + 1 /\ r.uri = p.uri
    BY NextIs
  <2> HIDE DEF r, q, s
  <2> QED
    BY <2>1, <2>2
<1>2. Hash \in Chars
  BY DEF Hash, Chars
<1>3. /\ b \in Seq(Chars)
      /\ x = <<>> => b = <<>>
      /\ x # <<>> => b = <<Hash>> \o x
  BY <1>2, BeforeFacts, SMTT(60)
<1>4. next \in Nat \ {0} /\ next = at + 1
  OBVIOUS
<1>5. Rest(text, at, b)
  OBVIOUS
<1> HIDE DEF q, r, s, b, next
<1>6. CASE x = <<>>
  <2>1. ~(at <= Len(text))
    BY <1>3, <1>5, <1>6, RestIs
  <2>2. q = p
    BY <1>1, <2>1
  <2>3. q.ok /\ Sets(p.uri, q.uri, "fragment", x)
    BY <1>6, <2>2 DEF Sets
  <2> QED
    BY <2>3 DEF q
<1>7. CASE x # <<>>
  <2>1. Rest(text, at, <<Hash>> \o x)
    BY <1>3, <1>5, <1>7
  <2>2. at <= Len(text) /\ text[at] = Hash /\ Rest(text, next, x)
    BY <1>2, <1>4, <2>1, AfterMark
  <2>3. q = s
    BY <1>1, <2>2
  <2>4. From(text, next) = x
    BY <2>2, RestIs
  <2> DEFINE d == PercentDecode(From(text, next), FALSE)
  <2>5. /\ s.ok <=> r.ok /\ d.ok
        /\ s.ok => Sets(r.uri, s.uri, "fragment", r.uri.fragment \o d.str)
    <3>1. r.at = next
      BY <1>1
    <3>2. LET g == PercentDecode(From(text, r.at), FALSE)
          IN  /\ s.ok <=> r.ok /\ g.ok
              /\ s.ok => Sets(r.uri, s.uri, "fragment", r.uri.fragment \o g.str)
      BY <1>1, FragmentSets, Zenon DEF s
    <3> QED
      BY <3>1, <3>2
  <2>6. d.ok /\ d.str = x
    BY <2>4, ItselfDecoded
  <2> HIDE DEF d
  <2>7. <<>> \o x = x
    BY ConcatEmptySeq
  <2>8. r.ok /\ r.uri = p.uri /\ r.uri.fragment = <<>>
    BY <1>1
  <2>9. s.ok /\ Sets(p.uri, s.uri, "fragment", x)
    BY <2>5, <2>6, <2>7, <2>8
  <2> QED
    BY <2>3, <2>9 DEF q
<1> QED
  BY <1>6, <1>7

------------------------------------------------------------------------------
(* The text that is printed, read again *)

LEMMA AfterSchemeIs ==
    ASSUME NEW p, p.ok, p.at \in Nat, NEW text \in Seq(Chars), p.at <= Len(text), text[p.at] = Colon
    PROVE  LET hier == ParseHierPart([p EXCEPT !.at = p.at + 1], text)
               queried == If(hier, text, Question, ParseQuery)
           IN  AfterScheme(p, text) = If(queried, text, Hash, ParseFragment)
<1> DEFINE hier == ParseHierPart([p EXCEPT !.at = p.at + 1], text)
           queried == If(hier, text, Question, ParseQuery)
           whole == If(queried, text, Hash, ParseFragment)
           e == Fail(p, "URI_NOCOLON")
           a == p.ok
           b == p.at > Len(text) \/ text[p.at] # Colon
           q == AfterScheme(p, text)
<1>1. q = CASE ~a -> p [] a /\ b -> e [] OTHER -> whole
  BY Zenon DEF AfterScheme
<1>2. a /\ ~b
  <2>1. Len(text) \in Nat
    OBVIOUS
  <2> QED
    BY <2>1
<1> HIDE DEF a, b, q, whole, e
<1>3. q = whole
  BY <1>1, <1>2, Zenon
<1> QED
  BY <1>3 DEF q, whole

LEMMA MarksAfter ==
    ASSUME NEW x \in Seq(Chars), NEW y \in Seq(Chars)
    PROVE  LET q == Before(Question, x)
               f == Before(Hash, y)
           IN  /\ q \in Seq(Chars) /\ f \in Seq(Chars) /\ q \o f \in Seq(Chars)
               /\ f # <<>> => f[1] = Hash
               /\ q \o f # <<>> => (q \o f)[1] \in {Question, Hash}
<1> DEFINE q == Before(Question, x)
           f == Before(Hash, y)
           w == q \o f
<1>1. Question \in Chars /\ Hash \in Chars
  BY DEF Question, Hash, Chars
<1>2. /\ q \in Seq(Chars)
      /\ x = <<>> => q = <<>>
      /\ x # <<>> => q # <<>> /\ q[1] = Question
  BY <1>1, BeforeFacts
<1>3. /\ f \in Seq(Chars)
      /\ y = <<>> => f = <<>>
      /\ y # <<>> => f # <<>> /\ f[1] = Hash
  BY <1>1, BeforeFacts
<1>4. w = q \o f
  OBVIOUS
<1> HIDE DEF q, f, w
<1>5. w \in Seq(Chars)
  BY <1>2, <1>3, <1>4, ConcatProperties
<1>6. w # <<>> => w[1] \in {Question, Hash}
  <2>1. CASE x = <<>>
    <3>1. w = f
      BY <1>2, <1>3, <1>4, <2>1, ConcatEmptySeq
    <3> QED
      BY <1>3, <3>1
  <2>2. CASE x # <<>>
    <3>1. Len(q) \in Nat \ {0} /\ Len(f) \in Nat
      BY <1>2, <1>3, <2>2, EmptySeq
    <3>2. 1 \in 1..(Len(q) + Len(f)) /\ 1 <= Len(q)
      BY <3>1
    <3>3. \A i \in 1..(Len(q) + Len(f)) : w[i] = IF i <= Len(q) THEN q[i] ELSE f[i - Len(q)]
      BY <1>2, <1>3, <1>4, ConcatProperties
    <3>4. w[1] = q[1]
      BY <3>2, <3>3
    <3> QED
      BY <1>2, <2>2, <3>4
  <2> QED
    BY <2>1, <2>2
<1>7. /\ q \in Seq(Chars) /\ f \in Seq(Chars) /\ w \in Seq(Chars)
      /\ f # <<>> => f[1] = Hash
      /\ w # <<>> => w[1] \in {Question, Hash}
  BY <1>2, <1>3, <1>5, <1>6
<1> QED
  BY <1>7 DEF q, f, w

\* What is left of a text that is printed, when its parts are read.
Reread(p, u, flag) ==
    /\ IsParse(p) /\ p.ok
    /\ \A g \in Fields \ {"port"} : p.uri[g] = u[g]
    /\ p.uri.port = PortAgain(u, flag)

LEMMA PartsAfterHier ==
    ASSUME NEW u, NEW flag \in BOOLEAN, Canonical(u, flag), Printable(u), NEW text \in Seq(Chars),
           NEW hier, HierAgainIs(hier, u, flag, text, Before(Question, u.query) \o Before(Hash, u.fragment))
    PROVE  Reread(If(If(hier, text, Question, ParseQuery), text, Hash, ParseFragment), u, flag)
<1> DEFINE x == u.query
           y == u.fragment
           q == Before(Question, x)
           f == Before(Hash, y)
           queried == If(hier, text, Question, ParseQuery)
           whole == If(queried, text, Hash, ParseFragment)
           e == <<>>
<1>1. x \in Seq(Chars) /\ y \in Seq(Chars) /\ ToSet(x) \subseteq QueryClass
  BY DEF Canonical, DecodedOk, Printable, QueryClass
<1>2. DecodesToItself(x, FALSE) /\ DecodesToItself(y, FALSE)
  <2>1. DecodedOk(x) /\ DecodedOk(y) /\ NoSpace(y)
    BY DEF Canonical, Printable, NoSpace
  <2>2. NoSpace(x)
    <3>1. Slash \notin WhiteSpace /\ Question \notin WhiteSpace /\ pchar \cap WhiteSpace = {}
      BY SegmentsClassFacts DEF Slash, Question, WhiteSpace
    <3> QED
      BY <1>1, <3>1 DEF NoSpace, QueryClass
  <2> QED
    BY <2>1, <2>2, Zenon DEF DecodedOk
<1>3. /\ IsParse(hier) /\ hier.ok /\ hier.at \in Nat \ {0} /\ Rest(text, hier.at, q \o f)
      /\ \A g \in Fields \ {"port", "query", "fragment"} : hier.uri[g] = u[g]
      /\ hier.uri.port = PortAgain(u, flag) /\ hier.uri.query = e /\ hier.uri.fragment = e
  BY Zenon DEF HierAgainIs
<1>4. q \in Seq(Chars) /\ f \in Seq(Chars) /\ (f # e => f[1] = Hash)
  BY <1>1, MarksAfter
<1> HIDE DEF x, y, f
<1>5. /\ IsParse(queried) /\ queried.ok /\ queried.at \in Nat \ {0} /\ Rest(text, queried.at, f)
      /\ Sets(hier.uri, queried.uri, "query", x)
  <2> DEFINE at == hier.at
  <2>1. at \in Nat \ {0} /\ hier.at = at /\ Rest(text, at, Before(Question, x) \o f)
    BY <1>3
  <2> HIDE DEF at
  <2> QED
    BY <1>1, <1>2, <1>3, <1>4, <2>1, QueryAgain
<1> HIDE DEF queried
<1>6. queried.uri.fragment = e
  BY <1>3, <1>5 DEF Sets, Fields
<1>7. whole.ok /\ Sets(queried.uri, whole.uri, "fragment", y)
  <2> DEFINE at == queried.at
  <2>1. at \in Nat \ {0} /\ queried.at = at /\ Rest(text, at, Before(Hash, y))
    BY <1>5 DEF f
  <2> HIDE DEF at
  <2> QED
    BY <1>1, <1>2, <1>5, <1>6, <2>1, FragmentAgain
<1>8. IsParse(whole)
  <2> DEFINE r == [queried EXCEPT !.at = queried.at + 1]
             s == ParseFragment(r, text)
  <2>1. whole = s \/ whole = queried
    BY Zenon DEF If
  <2>2. IsParse(r)
    BY <1>5, NextIs
  <2> HIDE DEF r
  <2>3. IsParse(s)
    BY <2>2, QueryIsParse
  <2> HIDE DEF s, whole
  <2> QED
    BY <1>5, <2>1, <2>3
<1> HIDE DEF whole
<1>9. \A g \in Fields \ {"port"} : whole.uri[g] = u[g]
  BY <1>3, <1>5, <1>7 DEF Sets, Fields, x, y
<1>10. whole.uri.port = PortAgain(u, flag)
  BY <1>3, <1>5, <1>7 DEF Sets, Fields
<1> QED
  BY <1>7, <1>8, <1>9, <1>10 DEF Reread, whole, queried

\* What is printed is read again.
LEMMA ParseAgain ==
    ASSUME NEW u, NEW flag \in BOOLEAN, Canonical(u, flag), ~UndefinedFlag(u), Printable(u)
    PROVE  Reread(ParseUri(str(u, flag)), u, flag)
<1> DEFINE text == str(u, flag)
           scheme == u.scheme
           h == HierText(u, flag)
           y == Before(Question, u.query) \o Before(Hash, u.fragment)
           z == h \o y
           p == ParseScheme(StartOfParse, text)
           begin == [p EXCEPT !.at = p.at + 1]
           hier == ParseHierPart(begin, text)
           queried == If(hier, text, Question, ParseQuery)
           whole == If(queried, text, Hash, ParseFragment)
<1>1. text = scheme \o (<<Colon>> \o z)
  BY StrIs
<1>2. SchemeOk(scheme) /\ scheme \in Seq(Chars) /\ scheme # <<>>
  BY DEF Canonical, SchemeOk
<1>3. h \in Seq(Chars)
  BY HierTextIsSeq
<1>4. y \in Seq(Chars) /\ (y # <<>> => y[1] \in {Question, Hash})
  <2>1. u.query \in Seq(Chars) /\ u.fragment \in Seq(Chars)
    BY DEF Canonical, DecodedOk
  <2> QED
    BY <2>1, MarksAfter
<1> HIDE DEF text, scheme, h, y
<1>5. z \in Seq(Chars)
  BY <1>3, <1>4, ConcatProperties
<1>6. text \in Seq(Chars) /\ text # <<>> /\ Rest(text, 1, scheme \o (<<Colon>> \o z))
  <2> DEFINE w == <<Colon>> \o z
             v == scheme \o w
  <2>1. Colon \in Chars
    BY DEF Colon, Chars
  <2>2. w \in Seq(Chars)
    BY <1>5, <2>1, MarkFirst
  <2>3. text = v
    BY <1>1
  <2> HIDE DEF w
  <2>4. v \in Seq(Chars) /\ Len(v) = Len(scheme) + Len(w) /\ Len(scheme) \in Nat \ {0} /\ Len(w) \in Nat
    BY <1>2, <2>2, ConcatProperties, EmptySeq
  <2> HIDE DEF v
  <2>5. v # <<>>
    BY <2>4, EmptySeq
  <2>6. Rest(v, 1, v)
    BY <2>4 DEF Rest
  <2> QED
    BY <2>3, <2>4, <2>5, <2>6 DEF v, w
<1>7. /\ IsParse(p) /\ p.ok /\ p.at \in Nat \ {0}
      /\ SchemeOnly(p.uri) /\ p.uri.scheme = scheme
      /\ p.at <= Len(text) /\ text[p.at] = Colon /\ Rest(text, p.at + 1, z)
  BY <1>2, <1>5, <1>6, SchemeAgain
<1> HIDE DEF p
<1>8. ParseUri(text) = AfterScheme(p, text)
  BY <1>6, Zenon DEF ParseUri, p
<1>9. AfterScheme(p, text) = whole
  <2>1. p.at \in Nat
    BY <1>7
  <2> QED
    BY <1>6, <1>7, <2>1, AfterSchemeIs
<1>10. HierAgainIs(hier, u, flag, text, y)
  <2>1. IsParse(begin) /\ begin.ok = p.ok /\ begin.at = p.at + 1 /\ begin.uri = p.uri
    BY <1>7, NextIs
  <2> HIDE DEF begin
  <2>2. IsParse(begin) /\ begin.ok /\ SchemeOnly(begin.uri) /\ begin.uri.scheme = u.scheme
        /\ begin.at \in Nat \ {0} /\ Rest(text, begin.at, HierText(u, flag) \o y)
    BY <1>7, <2>1 DEF scheme, h
  <2> QED
    BY <1>4, <1>6, <2>2, HierAgain
<1> HIDE DEF hier
<1>11. Reread(whole, u, flag)
  BY <1>6, <1>10, PartsAfterHier DEF y
<1> QED
  BY <1>8, <1>9, <1>11 DEF text

\* What is printed leads to the same parts.
LEMMA PrintedMakes ==
    ASSUME OnlyPermanent, NEW u, NEW flag \in BOOLEAN, Canonical(u, flag), ~UndefinedFlag(u), Printable(u)
    PROVE  Makes(ParseUri(str(u, flag)), u)
<1> DEFINE p == ParseUri(str(u, flag))
<1>1. Reread(p, u, flag)
  BY ParseAgain
<1> HIDE DEF p
<1> DEFINE v == p.uri
<1>2. /\ IsParts(v) /\ p.ok
      /\ \A g \in Fields \ {"port"} : v[g] = u[g]
      /\ v.port = IF flag THEN -1 ELSE u.port
  BY <1>1 DEF Reread, IsParse, PortAgain
<1>3. ASSUME NEW outcome \in PostParse(v) PROVE outcome[1] = u
  <2> HIDE DEF v
  <2> QED
    BY <1>2, <1>3, PostParseAgain
<1>4. Makes(p, u)
  BY <1>2, <1>3 DEF Makes
<1> QED
  BY <1>4 DEF p

------------------------------------------------------------------------------
(* The invariant *)

\* The value of one object, by what made it: the parts of a text, with the flag
\* that fits them or with the other one.
Kept(how, parts, flag) ==
    /\ flag \in BOOLEAN
    /\ how = "parsed" => FlagFits(parts, flag) /\ Canonical(parts, flag)
    /\ how = "stale" => FlagFits(parts, ~flag) /\ Canonical(parts, ~flag)

IInv ==
    /\ OnlyPermanent
    /\ DOMAIN uri = Objects /\ DOMAIN has_default = Objects /\ DOMAIN origin = Objects
    /\ \A o \in Objects : Kept(origin[o], uri[o], has_default[o])

LEMMA InitIInv == Init => IInv
  BY DEF Init, IInv, OnlyPermanent, Kept

\* An object that is given an outcome.
LEMMA BecomesIInv ==
    ASSUME IInv, UNCHANGED usr, NEW o \in Objects, NEW outcome, NEW how,
           Kept(how, outcome[1], outcome[2]), Becomes(o, outcome, how)
    PROVE  IInv'
<1>1. /\ uri' = [uri EXCEPT ![o] = outcome[1]]
      /\ has_default' = [has_default EXCEPT ![o] = outcome[2]]
      /\ origin' = [origin EXCEPT ![o] = how]
  BY DEF Becomes
<1>2. /\ DOMAIN uri' = Objects /\ DOMAIN has_default' = Objects /\ DOMAIN origin' = Objects
      /\ OnlyPermanent'
  BY <1>1 DEF IInv, OnlyPermanent
<1>3. ASSUME NEW other \in Objects
      PROVE  Kept(origin'[other], uri'[other], has_default'[other])
  <2>1. CASE other = o
    <3>1. uri'[o] = outcome[1] /\ has_default'[o] = outcome[2] /\ origin'[o] = how
      BY <1>1 DEF IInv
    <3> QED
      BY <2>1, <3>1
  <2>2. CASE other # o
    <3>1. /\ uri'[other] = uri[other] /\ has_default'[other] = has_default[other]
          /\ origin'[other] = origin[other]
      BY <1>1, <2>2 DEF IInv
    <3> QED
      BY <3>1 DEF IInv
  <2> QED
    BY <2>1, <2>2
<1> QED
  BY <1>2, <1>3 DEF IInv

LEMMA ParseIInv ==
    ASSUME IInv, NEW o \in Objects, NEW text \in Seq(Chars), NEW p, p = ParseUri(text),
           construct_from(o, text, p) \/ parse(o, text, p)
    PROVE  IInv'
<1>1. IsParts(p.uri)
  BY ParseUriIsParse DEF IsParse
<1>2. UNCHANGED usr
  BY DEF construct_from, parse
<1>3. \/ UNCHANGED objects
      \/ \E flag \in BOOLEAN : \E outcome \in Outcomes(p, text, flag) :
            Becomes(o, outcome, How(p, text))
  <2>1. has_default[o] \in BOOLEAN
    BY DEF IInv, Kept
  <2> QED
    BY <2>1, Zenon DEF construct_from, parse
<1>4. CASE UNCHANGED objects
  BY <1>2, <1>4 DEF IInv, objects, OnlyPermanent
<1>5. ASSUME NEW flag \in BOOLEAN, NEW outcome \in Outcomes(p, text, flag), Becomes(o, outcome, How(p, text))
      PROVE  IInv'
  <2> DEFINE how == How(p, text)
  <2>1. /\ text = <<>> => how = "cleared"
        /\ text # <<>> /\ p.ok => how = "parsed"
        /\ text # <<>> /\ ~p.ok => how = "refused"
    BY Zenon DEF How
  <2> SUFFICES Kept(how, outcome[1], outcome[2])
    BY <1>2, <1>5, BecomesIInv
  <2> HIDE DEF how
  <2>2. CASE text # <<>> /\ p.ok
    <3>1. outcome \in PostParse(p.uri)
      BY <1>5, <2>2, Zenon DEF Outcomes
    <3>2. FlagFits(outcome[1], outcome[2]) /\ outcome[2] \in BOOLEAN
      BY <1>1, <3>1, PostParseFlagFits DEF IInv
    <3>3. WellParsed(p.uri)
      BY <2>2, ParseUriMakes
    <3>4. Canonical(outcome[1], outcome[2])
      BY <1>1, <3>1, <3>3, PostParseCanonical DEF IInv
    <3>5. how # "stale"
      BY <2>1, <2>2
    <3> QED
      BY <3>2, <3>4, <3>5, Zenon DEF Kept
  <2>3. CASE text = <<>> \/ ~p.ok
    <3>1. how # "parsed" /\ how # "stale"
      BY <2>1, <2>3
    <3>2. outcome = <<p.uri, flag>>
      BY <1>5, <2>3, Zenon DEF Outcomes
    <3>3. outcome[2] \in BOOLEAN
      BY <3>2
    <3> QED
      BY <3>1, <3>3, Zenon DEF Kept
  <2> QED
    BY <2>2, <2>3
<1> QED
  BY <1>3, <1>4, <1>5

LEMMA MoveIInv ==
    ASSUME IInv, NEW o \in Objects, NEW from \in Objects,
           move_construct(o, from) \/ move_assign(o, from)
    PROVE  IInv'
<1>1. Kept(origin[from], uri[from], has_default[from])
  BY DEF IInv
<1>2. PICK flag, how : Moved(o, from, flag, how) /\ o # from /\ Kept(how, uri[from], flag)
  <2>1. CASE move_construct(o, from)
    <3>1. Moved(o, from, has_default[from], origin[from]) /\ o # from
      BY <2>1 DEF move_construct
    <3> QED
      BY <1>1, <3>1, Zenon
  <2>2. CASE move_assign(o, from)
    <3>1. Moved(o, from, has_default[o], Assigned(o, from)) /\ o # from
      BY <2>2 DEF move_assign
    <3>2. has_default[o] \in BOOLEAN /\ has_default[from] \in BOOLEAN
      BY DEF IInv, Kept
    <3>3. CASE has_default[o] = has_default[from]
      <4>1. Assigned(o, from) = origin[from]
        BY <3>3, Zenon DEF Assigned
      <4> QED
        BY <1>1, <3>1, <3>3, <4>1, Zenon
    <3>4. CASE has_default[o] # has_default[from]
      <4>1. has_default[o] = ~has_default[from] /\ has_default[from] = ~has_default[o]
        BY <3>2, <3>4
      <4>2. Kept(Assigned(o, from), uri[from], has_default[o])
        <5>1. CASE origin[from] = "parsed"
          <6>1. Assigned(o, from) = "stale" /\ "stale" # "parsed"
            BY <3>4, <5>1 DEF Assigned
          <6>2. FlagFits(uri[from], has_default[from]) /\ Canonical(uri[from], has_default[from])
            BY <1>1, <5>1, Zenon DEF Kept
          <6> QED
            BY <3>2, <4>1, <6>1, <6>2, Zenon DEF Kept
        <5>2. CASE origin[from] = "stale"
          <6>1. Assigned(o, from) = "parsed" /\ "stale" # "parsed"
            BY <3>4, <5>2 DEF Assigned
          <6>2. FlagFits(uri[from], ~has_default[from]) /\ Canonical(uri[from], ~has_default[from])
            BY <1>1, <5>2, Zenon DEF Kept
          <6> QED
            BY <3>2, <4>1, <6>1, <6>2, Zenon DEF Kept
        <5>3. CASE origin[from] \notin {"parsed", "stale"}
          <6>1. Assigned(o, from) = origin[from]
            BY <5>3, Zenon DEF Assigned
          <6> QED
            BY <3>2, <5>3, <6>1 DEF Kept
        <5> QED
          BY <5>1, <5>2, <5>3
      <4> QED
        BY <3>1, <4>2, Zenon
    <3> QED
      BY <3>3, <3>4
  <2> QED
    BY <2>1, <2>2
<1>3. /\ uri' = [uri EXCEPT ![o] = uri[from], ![from] = MovedFrom(uri[from])]
      /\ has_default' = [has_default EXCEPT ![o] = flag]
      /\ origin' = [origin EXCEPT ![o] = how, ![from] = "moved"]
      /\ UNCHANGED usr
  BY <1>2 DEF Moved
<1>4. /\ DOMAIN uri' = Objects /\ DOMAIN has_default' = Objects /\ DOMAIN origin' = Objects
      /\ OnlyPermanent'
  BY <1>3 DEF IInv, OnlyPermanent
<1>5. ASSUME NEW other \in Objects
      PROVE  Kept(origin'[other], uri'[other], has_default'[other])
  <2>1. CASE other = from
    <3>1. origin'[from] = "moved" /\ has_default'[from] = has_default[from]
      BY <1>2, <1>3 DEF IInv
    <3> QED
      BY <1>1, <2>1, <3>1 DEF Kept
  <2>2. CASE other = o
    <3>1. uri'[o] = uri[from] /\ has_default'[o] = flag /\ origin'[o] = how
      BY <1>2, <1>3 DEF IInv
    <3> QED
      BY <1>2, <2>2, <3>1
  <2>3. CASE other # o /\ other # from
    <3>1. /\ uri'[other] = uri[other] /\ has_default'[other] = has_default[other]
          /\ origin'[other] = origin[other]
      BY <1>3, <2>3 DEF IInv
    <3> QED
      BY <3>1 DEF IInv
  <2> QED
    BY <2>1, <2>2, <2>3
<1> QED
  BY <1>4, <1>5 DEF IInv

LEMMA RegistryIInv ==
    ASSUME IInv, NEW scheme, NEW port,
           register_scheme_port(scheme, port) \/ deregister_scheme_port(scheme)
    PROVE  IInv'
<1>1. UNCHANGED objects
  BY DEF register_scheme_port, deregister_scheme_port
<1>2. OnlyPermanent'
  <2>1. CASE register_scheme_port(scheme, port)
    <3>1. \/ UNCHANGED usr
          \/ scheme \in DOMAIN Permanent /\ usr' = With(usr, scheme, port)
      BY <2>1 DEF register_scheme_port, MayRegister
    <3> QED
      BY <3>1 DEF With, IInv, OnlyPermanent
  <2>2. CASE deregister_scheme_port(scheme)
    <3>1. \/ UNCHANGED usr
          \/ usr' = [s \in DOMAIN usr \ {scheme} |-> usr[s]]
      BY <2>2 DEF deregister_scheme_port
    <3> QED
      BY <3>1 DEF IInv, OnlyPermanent
  <2> QED
    BY <2>1, <2>2
<1> QED
  BY <1>1, <1>2 DEF IInv, objects

LEMMA StepIInv == IInv /\ [Next]_vars => IInv'
<1> SUFFICES ASSUME IInv, [Next]_vars PROVE IInv'
  OBVIOUS
<1>1. ASSUME NEW o \in Objects, construct(o) \/ destroy(o) PROVE IInv'
  <2>1. PICK how : /\ how # "parsed" /\ how # "stale"
                   /\ Becomes(o, <<EmptyUri, FALSE>>, how) /\ UNCHANGED usr
    <3>1. CASE construct(o)
      <4>1. /\ Becomes(o, <<EmptyUri, FALSE>>, "cleared") /\ UNCHANGED usr
            /\ "cleared" # "parsed" /\ "cleared" # "stale"
        BY <3>1 DEF construct
      <4> QED
        BY <4>1, Zenon
    <3>2. CASE destroy(o)
      <4>1. /\ Becomes(o, <<EmptyUri, FALSE>>, "none") /\ UNCHANGED usr
            /\ "none" # "parsed" /\ "none" # "stale"
        BY <3>2 DEF destroy
      <4> QED
        BY <4>1, Zenon
    <3> QED
      BY <1>1, <3>1, <3>2
  <2> DEFINE outcome == <<EmptyUri, FALSE>>
  <2>2. Kept(how, outcome[1], outcome[2])
    BY <2>1 DEF Kept
  <2>3. Becomes(o, outcome, how) /\ UNCHANGED usr
    BY <2>1
  <2> HIDE DEF outcome
  <2> QED
    BY <2>2, <2>3, BecomesIInv
<1>2. CASE UNCHANGED vars
  BY <1>2 DEF vars, objects, IInv, OnlyPermanent
<1>3. CASE \E o \in Objects : \E text \in Texts : \E p \in {ParseUri(text)} :
              construct_from(o, text, p) \/ parse(o, text, p)
  <2>1. PICK o \in Objects, text \in Texts :
          construct_from(o, text, ParseUri(text)) \/ parse(o, text, ParseUri(text))
    BY <1>3, Zenon
  <2>2. text \in Seq(Chars)
    BY TextsAssumption
  <2> QED
    BY <2>1, <2>2, ParseIInv, Zenon
<1>4. CASE \E o \in Objects : \E from \in Objects : move_construct(o, from) \/ move_assign(o, from)
  BY <1>4, MoveIInv, Zenon
<1>5. CASE \E scheme \in Schemes :
              \/ \E port \in Ports : register_scheme_port(scheme, port)
              \/ deregister_scheme_port(scheme)
  BY <1>5, RegistryIInv, Zenon
<1>6. CASE \E o \in Objects : construct(o) \/ destroy(o)
  BY <1>1, <1>6
<1> QED
  BY <1>2, <1>3, <1>4, <1>5, <1>6, Zenon DEF Next

\* str() leaves out the port of an object that a text was parsed into if and
\* only if it is the permanent default of the scheme, and of one that an
\* assignment has left with a stale flag if and only if it is not; but for an
\* explicit port of a scheme that is not registered.
THEOREM OmitsExactlyCorrect == Spec => []OmitsExactlyPermanent
<1>1. IInv => OmitsExactlyPermanent
  BY Zenon DEF IInv, Kept, OmitsExactlyPermanent
<1> QED
  BY InitIInv, StepIInv, <1>1, PTL DEF Spec

\* What str() prints of an object that a text was parsed into is accepted, and
\* makes the same parts, whatever was parsed, moved, assigned and registered
\* before (with a stale flag, what the other flag would print is); but for the
\* parts that Printable and UndefinedFlag name.
THEOREM RoundTripCorrect == Spec => []RoundTrip
<1>1. IInv => RoundTrip
  <2> SUFFICES ASSUME IInv, NEW o \in Objects
               PROVE  /\ origin[o] = "parsed" => PrintsBack(o, has_default[o])
                      /\ origin[o] = "stale" => PrintsBack(o, ~has_default[o])
    BY DEF RoundTrip
  <2>1. Kept(origin[o], uri[o], has_default[o]) /\ OnlyPermanent
    BY DEF IInv
  <2>2. ASSUME NEW flag \in BOOLEAN, Canonical(uri[o], flag) PROVE PrintsBack(o, flag)
    <3> DEFINE u == uri[o]
    <3>1. Canonical(u, flag)
      BY <2>2
    <3> HIDE DEF u
    <3>2. ASSUME ~UndefinedFlag(u), Printable(u) PROVE Makes(ParseUri(str(u, flag)), u)
      BY <2>1, <3>1, <3>2, PrintedMakes
    <3> QED
      BY <3>2, Zenon DEF PrintsBack, u
  <2>3. (~has_default[o]) \in BOOLEAN
    <3> DEFINE own == has_default[o]
    <3>1. own \in BOOLEAN
      BY <2>1 DEF Kept
    <3> HIDE DEF own
    <3>2. (~own) \in BOOLEAN
      BY <3>1
    <3> QED
      BY <3>2 DEF own
  <2>4. ASSUME origin[o] = "parsed" PROVE PrintsBack(o, has_default[o])
    <3> DEFINE own == has_default[o]
    <3>1. own \in BOOLEAN /\ Canonical(uri[o], own)
      BY <2>1, <2>4 DEF Kept
    <3> HIDE DEF own
    <3>2. PrintsBack(o, own)
      BY <2>2, <3>1
    <3> QED
      BY <3>2 DEF own
  <2>5. ASSUME origin[o] = "stale" PROVE PrintsBack(o, ~has_default[o])
    <3>1. Canonical(uri[o], ~has_default[o])
      BY <2>1, <2>5 DEF Kept
    <3> DEFINE other == ~has_default[o]
    <3>2. other \in BOOLEAN /\ Canonical(uri[o], other)
      BY <2>3, <3>1
    <3> HIDE DEF other
    <3>3. PrintsBack(o, other)
      BY <2>2, <3>2
    <3> QED
      BY <3>3 DEF other
  <2> QED
    BY <2>4, <2>5
<1> QED
  BY InitIInv, StepIInv, <1>1, PTL DEF Spec

------------------------------------------------------------------------------
(* What the calls report *)

LEMMA StepErrnoTells == ErrnoTells /\ [Next]_vars => ErrnoTells'
<1> SUFFICES ASSUME ErrnoTells, [Next]_vars PROVE ErrnoTells'
  OBVIOUS
<1>1. CASE UNCHANGED <<imp_errno, calls>>
  BY <1>1 DEF calls, ErrnoTells
<1>2. ASSUME NEW text \in Texts, Reports(ParseUri(text), text) PROVE ErrnoTells'
  <2>1. text \in Seq(Chars)
    BY TextsAssumption
  <2>2. Tells(ParseUri(text), text)
    BY <2>1, ParseUriTells
  <2>3. /\ imp_errno' = ParseUri(text).errno /\ returned' = ParseUri(text).ok
        /\ hides' = BadUserinfo(text)
    BY <1>2 DEF Reports
  <2> QED
    BY <2>2, <2>3 DEF Tells, Told, ErrnoTells
<1>3. ASSUME NEW o \in Objects, construct(o) \/ destroy(o) PROVE ErrnoTells'
  BY <1>1, <1>3 DEF construct, destroy
<1>4. CASE \E o \in Objects : \E text \in Texts : \E p \in {ParseUri(text)} :
              construct_from(o, text, p) \/ parse(o, text, p)
  <2>1. PICK o \in Objects, text \in Texts :
          construct_from(o, text, ParseUri(text)) \/ parse(o, text, ParseUri(text))
    BY <1>4, Zenon
  <2>2. Reports(ParseUri(text), text)
    BY <2>1, Zenon DEF construct_from, parse
  <2> QED
    BY <1>2, <2>2
<1>5. ASSUME NEW o \in Objects, NEW from \in Objects, move_construct(o, from) \/ move_assign(o, from)
      PROVE  ErrnoTells'
  BY <1>1, <1>5, Zenon DEF move_construct, move_assign, Moved
<1>6. ASSUME NEW scheme, NEW port, register_scheme_port(scheme, port) \/ deregister_scheme_port(scheme)
      PROVE  ErrnoTells'
  BY <1>6 DEF register_scheme_port, deregister_scheme_port, ErrnoTells
<1>7. CASE UNCHANGED vars
  BY <1>1, <1>7 DEF vars
<1> QED
  BY <1>3, <1>4, <1>5, <1>6, <1>7, Zenon DEF Next

\* A call that returns false has set an error code and one that returns true
\* SUCCESS, but where the parse of a host overwrites the code of a user info
\* that is refused (uri.cpp:839).
THEOREM ErrorsAreTold == Spec => []ErrnoTells
<1>1. Init => ErrnoTells
  BY DEF Init, ErrnoTells
<1> QED
  BY StepErrnoTells, <1>1, PTL DEF Spec
=============================================================================
