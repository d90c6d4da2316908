------------------------------ MODULE UriGrammar ------------------------------
(***************************************************************************)
(* What a URI is, as the grammar that test_uri.cpp quotes from RFC 3986    *)
(* (from its line 275 on) says it, and what of it the code of uri.cpp is   *)
(* known to treat otherwise.  The grammar is written as predicates on      *)
(* texts, and says nothing of how a text is read.                          *)
(***************************************************************************)
EXTENDS UriParser

Of(str, class) == ToSet(str) \subseteq class
FirstOf(str, class) == EndOf(str, 1, Chars \ class)

(* The pieces of a text between the occurrences of a character.            *)
PiecesNext(pieces, x, c) ==
    IF x = c THEN Append(pieces, <<>>) ELSE [pieces EXCEPT ![Len(pieces)] = Append(@, x)]
Pieces(str, c) ==
    LET pieces[i \in 0..Len(str)] ==
          IF i = 0 THEN << <<>> >> ELSE PiecesNext(pieces[i - 1], str[i], c)
    IN  pieces[Len(str)]

(* pct-encoded: each "%" has two digits after it.                          *)
WellEncoded(str) ==
    \A i \in 1..Len(str) :
        str[i] = Percent => i + 2 <= Len(str) /\ {str[i + 1], str[i + 2]} \subseteq HEXDIG

------------------------------------------------------------------------------
(* IPv6address and IPv4address *)

H16(str) == Len(str) \in 1..4 /\ Of(str, HEXDIG)

DecOctet(str) ==
    /\ Len(str) \in 1..3 /\ Of(str, DIGIT)
    /\ Len(str) > 1 => str[1] # 48
    /\ Number(str) <= 255

Octets4(ps) == Len(ps) = 4 /\ \A i \in 1..4 : DecOctet(ps[i])
Ipv4(str) == Octets4(Pieces(str, Dot))

(* How many groups a text without "::" has: those of an h16, two for an    *)
(* IPv4 address at its end.  None if it is malformed, as if too many.      *)
GroupsOf(ps) ==
    CASE ps = << <<>> >> -> 0
      [] \A i \in DOMAIN ps : H16(ps[i]) -> Len(ps)
      [] (\A i \in 1..Len(ps) - 1 : H16(ps[i])) /\ Ipv4(Last(ps)) -> Len(ps) + 1
      [] OTHER -> 99
Groups(str) == GroupsOf(Pieces(str, Colon))

(* What stands on the two sides of each "::".                              *)
Sides(str) ==
    {<<SubSeq(str, 1, k - 1), From(str, k + 2)>> :
        k \in {k \in 1..Len(str) - 1 : str[k] = Colon /\ str[k + 1] = Colon}}
EndsIn4(str) == Ipv4(Last(Pieces(str, Colon)))

Ipv6Grammar(str) ==
    \/ Groups(str) = 8
    \/ \E side \in Sides(str) : ~EndsIn4(side[1]) /\ Groups(side[1]) + Groups(side[2]) <= 7

(* Where the code differs: it refuses an octet from 150 to 155, and eight  *)
(* groups of which an IPv4 address is two; it takes one leading zero of an *)
(* octet of two digits, and one group too many where groups stand on both  *)
(* sides of "::".                                                          *)
LastOctets(str) == ToSet(Pieces(Last(Pieces(str, Colon)), Dot))
OctetRefused(str) == \E octet \in LastOctets(str) : Number(octet) \in 150..155
LeadingZero(str) == \E octet \in LastOctets(str) : Len(octet) = 2 /\ octet[1] = 48
GroupTooMany(str) ==
    \E side \in Sides(str) :
        /\ side[1] # <<>> /\ side[2] # <<>> /\ ~Ipv4(side[2])
        /\ Groups(side[1]) + Groups(side[2]) = 8

Ipv6Refused(str) == EndsIn4(str) /\ (OctetRefused(str) \/ Groups(str) = 8)
Ipv6Extra(str) == GroupTooMany(str) \/ LeadingZero(str)

------------------------------------------------------------------------------
(* The rest of the grammar *)

RegName(str) == Of(str, unreserved \cup sub_delims \cup {Percent}) /\ WellEncoded(str)
UserInfo(str) == Of(str, unreserved \cup sub_delims \cup {Percent, Colon}) /\ WellEncoded(str)
Literal(str) == Len(str) > 2 /\ str[1] = 91 /\ Last(str) = 93 /\ Ipv6Grammar(SubSeq(str, 2, Len(str) - 1))

Host(str) == RegName(str) \/ Literal(str)

(* The ways to cut an authority: [ userinfo "@" ] host [ ":" port ].       *)
Cuts(str, u, h) ==
    /\ u <= h
    /\ u > 0 => str[u] = At /\ UserInfo(SubSeq(str, 1, u - 1))
    /\ h < Len(str) => str[h + 1] = Colon /\ Of(From(str, h + 2), DIGIT)
    /\ Host(SubSeq(str, u + 1, h))
Authorities(str) == {cut \in (0..Len(str)) \X (0..Len(str)) : Cuts(str, cut[1], cut[2])}

Scheme(str) == str # <<>> /\ str[1] \in ALPHA /\ Of(str, ALPHA \cup DIGIT \cup {43, 45, Dot})
Segments(str) == Of(str, pchar \cup {Slash}) /\ WellEncoded(str)
QueryOrFragment(str) == Of(str, pchar \cup {Slash, Question}) /\ WellEncoded(str)

(* The parts that a text is cut into: the fragment begins at the first     *)
(* "#", the query at the first "?" before it, the path after the scheme    *)
(* or the authority.                                                       *)
Divided(str, colon, question, hash, slash) ==
    LET has_auth == IsPrefix(<<Colon, Slash, Slash>>, From(str, colon))
    IN  [scheme |-> SubSeq(str, 1, colon - 1), has_colon |-> colon <= Len(str), has_auth |-> has_auth,
         auth |-> IF has_auth THEN SubSeq(str, colon + 3, slash - 1) ELSE <<>>,
         path |-> SubSeq(str, IF has_auth THEN slash ELSE colon + 1, question - 1),
         query |-> SubSeq(str, question + 1, hash - 1), fragment |-> From(str, hash + 1)]

Parts(str) ==
    LET colon == FirstOf(str, {Colon})
    IN  Divided(str, colon, FirstOf(str, {Question, Hash}), FirstOf(str, {Hash}),
                EndOf(str, colon + 3, Chars \ {Slash, Question, Hash}))

Syntax(p) ==
    /\ p.has_colon /\ Scheme(p.scheme)
    /\ p.has_auth => Authorities(p.auth) # {}
    /\ Segments(p.path) /\ QueryOrFragment(p.query) /\ QueryOrFragment(p.fragment)

(* Where the code differs: it refuses an empty segment that is not the     *)
(* last, also where the one before is a leading ":", which it does not     *)
(* count, and a port of more than nine digits; it takes                    *)
(* any fragment that is well encoded when its white space is left out, and *)
(* what stands between "@" and an address literal or after one.            *)
RefusedPath(p) ==
    LET rooted == p.path # <<>> /\ p.path[1] = Slash
        rest == IF rooted THEN Tail(p.path) ELSE p.path
    IN  \/ rest # <<>> /\ rest[1] = Slash
        \/ Len(rest) > 1 /\ rest[1] = Colon /\ rest[2] = Slash
        \/ \E i \in 1..Len(rest) - 1 : rest[i] = Slash /\ rest[i + 1] = Slash
RefusedPort(auth) == \E cut \in Authorities(auth) : Len(auth) - cut[2] > 10
AroundLiteral(auth) ==
    LET open == FirstOf(auth, {91})
        close == FirstOf(auth, {93})
    IN  /\ open < close /\ close <= Len(auth)
        /\ \/ open > 1 /\ auth[open - 1] # At
           \/ close < Len(auth) /\ auth[close + 1] # Colon
=============================================================================
