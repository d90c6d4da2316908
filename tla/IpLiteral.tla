------------------------------ MODULE IpLiteral ------------------------------
(***************************************************************************)
(* The address literals of uri.cpp, "[" ... "]": what _S_parse_ip_literal  *)
(* accepts.  The error codes it sets are not modelled: each of its         *)
(* failures is URI_INVL_IP_LIT, and after a success the caller's percent   *)
(* decoding overwrites the code.                                           *)
(*                                                                         *)
(* An IPv6 address is read from its end to its start.                      *)
(***************************************************************************)
EXTENDS UriText, Integers, FiniteSetsExt

From(str, i) == SubSeq(str, i, Len(str))

(* _S_parse_ipv_future                                                     *)
IpvFuture(str) ==
    LET symbols == unreserved \cup sub_delims \cup {Colon}
        dot == Min({i \in 3..Len(str) : str[i] \notin HEXDIG} \cup {Len(str)})
    IN  /\ Len(str) >= 4
        /\ str[1] = 118 /\ str[2] \in HEXDIG
        /\ str[dot] = Dot /\ dot < Len(str)
        /\ \A i \in dot + 1..Len(str) : str[i] \in symbols

(***************************************************************************)
(* An octet is read from its last digit by an automaton.  Its states are   *)
(* those of the code's "state" and "dcnt": what digit may stand before the *)
(* digits read so far, and how many those are.  The result is NoOctet      *)
(* where the code returns false.                                           *)
(***************************************************************************)
NoOctet == <<0, 0>>

DigitBefore(octet, d) ==
    CASE octet = <<5, 0>> /\ d \in 0..5 -> <<5, 1>>
      [] octet = <<5, 0>> /\ d \in 6..9 -> <<4, 1>>
      [] octet = <<5, 1>> /\ d = 5      -> <<5, 2>>
      [] octet = <<5, 1>> /\ d \in 0..4 -> <<4, 2>>
      [] octet = <<5, 1>> /\ d \in 6..9 -> <<3, 2>>
      [] octet = <<5, 2>> /\ d = 2      -> <<5, 3>>
      [] octet = <<4, 1>> /\ d \in 0..4 -> <<4, 2>>
      [] octet = <<4, 1>> /\ d \in 5..9 -> <<3, 2>>
      [] octet = <<4, 2>> /\ d \in 1..2 -> <<4, 3>>
      [] octet = <<3, 2>> /\ d = 1      -> <<3, 3>>
      [] OTHER -> NoOctet

(* The part "dec" of _S_parse_ipv6_address, over the octets and dots that  *)
(* end the address.  An octet needs a digit before it may end.             *)
OctetsNext(s, c) ==
    CASE s.octet = NoOctet -> s
      [] s.octet # NoOctet /\ c \in DIGIT -> [s EXCEPT !.octet = DigitBefore(@, c - 48)]
      [] s.octet # NoOctet /\ c = Dot /\ s.octet # <<5, 0>> ->
           [octet |-> <<5, 0>>, groups |-> s.groups + 1]
      [] OTHER -> [s EXCEPT !.octet = NoOctet]

ReadOctets(str) ==
    LET read[n \in 0..Len(str)] ==
          IF n = 0 THEN [octet |-> <<5, 0>>, groups |-> 1]
          ELSE OctetsNext(read[n - 1], str[Len(str) - n + 1])
    IN  read[Len(str)]

(***************************************************************************)
(* The part "hex", from position "at" down to 1.  hgrp counts the colons   *)
(* that end a group; the placeholder's second colon takes one back, also   *)
(* when groups stand on both of its sides.                                 *)
(***************************************************************************)
Whole(end, str, ipv4) ==
    /\ end.ok
    /\ end.leads \/ str[1] # Colon
    /\ IF end.placeholder THEN end.hgrp + 1 <= IF ipv4 THEN 5 ELSE 7
                          ELSE end.hgrp + 1 = 8 /\ ~ipv4

HexNext(s, c, at) ==
    CASE ~s.ok -> s
      [] s.ok /\ c \in HEXDIG -> [s EXCEPT !.hcnt = @ + 1, !.ok = s.hcnt < 4]
      [] s.ok /\ c = Colon /\ s.hcnt > 0 ->
           [s EXCEPT !.hcnt = 0, !.hgrp = @ + 1, !.ok = s.hgrp # 8]
      [] s.ok /\ c = Colon /\ s.hcnt = 0 ->
           [s EXCEPT !.placeholder = TRUE, !.hgrp = @ - 1,
                     !.leads = at = 1, !.ok = ~s.placeholder]
      [] OTHER -> [s EXCEPT !.ok = FALSE]

EndOfHex(str, placeholder) ==
    LET read[n \in 0..Len(str)] ==
          IF n = 0 THEN [ok |-> TRUE, hcnt |-> 0, hgrp |-> 0,
                         placeholder |-> placeholder, leads |-> FALSE]
          ELSE LET at == Len(str) - n + 1 IN HexNext(read[n - 1], str[at], at)
    IN  read[Len(str)]

HexGroups(str, placeholder, ipv4) == Whole(EndOfHex(str, placeholder), str, ipv4)

\* Faulty variant: the colon before the octets is read as the first of two.
NoPlaceholderBefore(str, colon) == str[colon] = Colon /\ HexGroups(SubSeq(str, 1, colon - 1), FALSE, TRUE)

(* The colon before the octets, and a placeholder that may stand there.    *)
BeforeOctets(str, colon) ==
    /\ str[colon] = Colon
    /\ \/ colon = 2 /\ str[1] = Colon
       \/ /\ colon > 2 /\ str[colon - 1] = Colon
          /\ HexGroups(SubSeq(str, 1, colon - 2), TRUE, TRUE)
       \/ /\ str[colon - 1] # Colon
          /\ HexGroups(SubSeq(str, 1, colon - 1), FALSE, TRUE)

(* _S_parse_ipv6_address: how the address ends decides what it is read as. *)
EndsWithOctets(str) ==
    Len(str) >= 9 /\ \E i \in Len(str) - 3..Len(str) - 1 : str[i] = Dot

Ipv6(str) ==
    LET n == Len(str)
        colon == Max({i \in 3..n : str[i] = Colon} \cup {2})
        octets == ReadOctets(From(str, colon + 1))
    IN  /\ n >= 2
        /\ \/ /\ str[n] = Colon /\ str[n - 1] = Colon
              /\ n = 2 \/ HexGroups(SubSeq(str, 1, n - 2), TRUE, FALSE)
           \/ /\ str[n] \in HEXDIG /\ ~EndsWithOctets(str)
              /\ n >= 3 /\ HexGroups(str, FALSE, FALSE)
           \/ /\ str[n] \in HEXDIG /\ EndsWithOctets(str)
              /\ octets.octet # NoOctet /\ octets.groups = 4
              /\ colon = 2 \/ octets.octet # <<5, 0>>
              /\ BeforeOctets(str, colon)

(* _S_parse_ip_literal                                                     *)
AcceptsIpLiteral(str) ==
    LET inside == SubSeq(str, 2, Len(str) - 1)
    IN  /\ Len(str) >= 4
        /\ str[1] = 91 /\ str[Len(str)] = 93
        /\ IF inside[1] = 118 THEN IpvFuture(inside) ELSE Ipv6(inside)
=============================================================================
