------------------------------ MODULE UriParser ------------------------------
(***************************************************************************)
(* The parser of uri.cpp: what _S_parse_uri makes of a text.               *)
(*                                                                         *)
(* A parse is a record: whether it has succeeded so far, the position of   *)
(* the next character ("at", counted from 1), imp_errno, and the fields of *)
(* the result it has stored.  A step that fails leaves what was stored,    *)
(* as the code does.  A result that is NULL stores nothing, and changes    *)
(* nothing else of the parse.                                              *)
(***************************************************************************)
EXTENDS IpLiteral

EmptyUri ==
    [scheme |-> <<>>, userinfo |-> <<>>, host |-> <<>>, path |-> <<>>,
     query |-> <<>>, fragment |-> <<>>, port |-> -1, has_auth |-> FALSE]

(* _S_clear, and the start of _S_parse_uri                                 *)
StartOfParse == [ok |-> TRUE, at |-> 1, errno |-> "SUCCESS", uri |-> EmptyUri]

Fail(p, errno) == [p EXCEPT !.ok = FALSE, !.errno = errno]

EndOf(str, at, class) == Min({i \in at..Len(str) : str[i] \notin class} \cup {Len(str) + 1})

(***************************************************************************)
(* Percent decoding of a piece into a field, and what it leaves in         *)
(* imp_errno: nothing new for an empty piece.  (URI_PERCENTENC is          *)
(* overwritten in every case.)                                             *)
(***************************************************************************)
Stores(p, field, piece, decoded) ==
    [p EXCEPT !.ok = @ /\ decoded.ok,
              !.errno = CASE piece = <<>> -> @
                          [] piece # <<>> /\ decoded.ok -> "SUCCESS"
                          [] OTHER -> "URI_PORT_SYM",
              !.uri[field] = @ \o decoded.str]

\* Faulty variant: a decoding that fails leaves the error code alone.
DecodeQuietly(p, field, piece, tolower) ==
    [Stores(p, field, piece, PercentDecode(piece, tolower)) EXCEPT !.errno = p.errno]

Decode(p, field, piece, tolower) == Stores(p, field, piece, PercentDecode(piece, tolower))

(* _S_parse_scheme                                                         *)
ParseScheme(p, data) ==
    LET end == EndOf(data, 1, ALPHA \cup DIGIT \cup {43, 45, Dot})
    IN  IF data[1] \notin ALPHA THEN Fail(p, "URI_SCHEME")
        ELSE [p EXCEPT !.at = end, !.uri.scheme = SubSeq(data, 1, end - 1)]

(***************************************************************************)
(* _S_parse_path, with a root expected after an authority.  A colon that   *)
(* leads the path is skipped without being counted as one of a segment.    *)
(***************************************************************************)
ParseSegments(p, data, from) ==
    LET start == IF data[from] = Colon THEN from + 1 ELSE from
        end == EndOf(data, start, pchar \cup {Slash})
    IN  CASE data[from] = Slash -> Fail(p, "URI_PATHDELIM")
          [] data[from] # Slash /\ \E i \in start..end - 1 :
                data[i] = Slash /\ (i = start \/ data[i - 1] = Slash) ->
               Fail(p, "URI_AUTHINPATH")
          [] OTHER -> [Decode(p, "path", SubSeq(data, p.at, end - 1), FALSE) EXCEPT !.at = end]

ParsePath(p, data, expect_root) ==
    LET ends == p.at > Len(data) \/ (expect_root /\ data[p.at] \in {Question, Hash})
    IN  CASE ends -> p
          [] ~ends /\ expect_root /\ data[p.at] # Slash -> Fail(p, "URI_PATHABEMPTY")
          [] ~ends /\ expect_root /\ data[p.at] = Slash /\ p.at = Len(data) ->
               [p EXCEPT !.at = @ + 1, !.uri.path = <<Slash>>]
          [] OTHER -> ParseSegments(p, data, IF expect_root THEN p.at + 1 ELSE p.at)

(* _S_parse_userinfo, _S_parse_host, _S_parse_port: each on its own piece, *)
(* and each is called even when one before it has failed.                  *)
ParseUserinfo(p, piece) ==
    IF ToSet(piece) \subseteq unreserved \cup sub_delims \cup {Percent, Colon}
    THEN Decode(p, "userinfo", piece, FALSE)
    ELSE Fail(p, "URI_USERINFO_SYM")

ParseHost(p, piece) ==
    LET literal == piece # <<>> /\ Head(piece) = 91
    IN  CASE literal /\ ~AcceptsIpLiteral(piece) -> Fail(p, "URI_INVL_IP_LIT")
          [] ~literal /\ ~(ToSet(piece) \subseteq unreserved \cup sub_delims \cup {Percent}) ->
               Fail(p, "URI_HOST_SYM")
          [] OTHER -> Decode(p, "host", piece, TRUE)

Number(digits) ==
    LET value[i \in 0..Len(digits)] ==
          IF i = 0 THEN 0 ELSE 10 * value[i - 1] + digits[i] - 48
    IN  value[Len(digits)]

ParsePort(p, piece) ==
    CASE ~(ToSet(piece) \subseteq DIGIT) -> Fail(p, "URI_PORT_SYM")
      [] ToSet(piece) \subseteq DIGIT /\ Len(piece) > 9 -> Fail(p, "URI_PORT_LIMIT")
      [] piece = <<>> -> p
      [] OTHER -> [p EXCEPT !.uri.port = Number(piece)]

(***************************************************************************)
(* _S_parse_authority.  The text up to the first character that cannot be  *)
(* in an authority is cut at its "@", its last ":" and its brackets; the   *)
(* second "@" or bracket of a kind ends the parse at once.  Positions are  *)
(* 0 where there is none, as the code's are one before the start.          *)
(***************************************************************************)
Places(auth, c) == {i \in 1..Len(auth) : auth[i] = c}
First(places) == IF places = {} THEN 0 ELSE Min(places)
Second(places) == IF Cardinality(places) < 2 THEN 0 ELSE Min(places \ {Min(places)})

CutAt(auth, at, open, close, colon) ==
    LET has_port == (open > 0 /\ colon > close) \/ (open = 0 /\ colon > at)
        repeated == {Second(Places(auth, c)) : c \in {At, 91, 93}} \ {0}
    IN  [userinfo |-> SubSeq(auth, 1, at - 1),
         host |-> CASE open > 0 -> SubSeq(auth, open, close)
                    [] open = 0 /\ has_port -> SubSeq(auth, at + 1, colon - 1)
                    [] OTHER -> From(auth, at + 1),
         port |-> IF has_port THEN From(auth, colon + 1) ELSE <<>>,
         errno |->
           CASE repeated # {} ->
                  IF auth[Min(repeated)] = At THEN "URI_MULTI_AT" ELSE "URI_MULTI_IP_LIT"
             [] repeated = {} /\ ((open = 0) # (close = 0) \/ open > close) ->
                  "URI_IP_LIT_MISMATCH"
             [] repeated = {} /\ open = 0 /\ close = 0 /\ at > 0
                /\ Cardinality({i \in Places(auth, Colon) : i > at}) > 1 -> "URI_COLON"
             [] repeated = {} /\ open > 0 /\ close > open /\ colon > close + 1 -> "URI_COLON"
             [] OTHER -> "SUCCESS"]

Cut(auth) == CutAt(auth, First(Places(auth, At)), First(Places(auth, 91)),
                   First(Places(auth, 93)), Max(Places(auth, Colon) \cup {0}))

ParsePieces(p, cut, end) ==
    IF cut.errno # "SUCCESS" THEN Fail(p, cut.errno)
    ELSE [ParsePort(ParseHost(ParseUserinfo(p, cut.userinfo), cut.host), cut.port)
            EXCEPT !.at = end, !.uri.has_auth = TRUE]

ParseAuthority(p, data) ==
    LET end == EndOf(data, p.at, unreserved \cup sub_delims \cup {Percent, At, Colon, 91, 93})
    IN  ParsePieces(p, Cut(SubSeq(data, p.at, end - 1)), end)

(* _S_parse_hier_part                                                      *)
AfterAuthority(p, data) == IF p.ok THEN ParsePath(p, data, TRUE) ELSE p

ParseHierPart(p, data) ==
    LET Is(i, c) == i <= Len(data) /\ data[i] = c
        rooted == [p EXCEPT !.at = @ + 1, !.uri.path = <<Slash>>]
    IN  CASE Is(p.at, Slash) /\ Is(p.at + 1, Slash) ->
               AfterAuthority(ParseAuthority([p EXCEPT !.at = @ + 2], data), data)
          [] Is(p.at, Slash) /\ ~Is(p.at + 1, Slash) -> ParsePath(rooted, data, FALSE)
          [] p.at <= Len(data) /\ data[p.at] \in pchar -> ParsePath(p, data, FALSE)
          [] OTHER -> p

\* Faulty variant: a query ends at a second "?".
QueryOfPchar(p, data) ==
    LET end == EndOf(data, p.at, pchar \cup {Slash})
    IN  [Decode(p, "query", SubSeq(data, p.at, end - 1), FALSE) EXCEPT !.at = end]

(* _S_parse_query, and _S_parse_fragment, which takes all that is left     *)
ParseQuery(p, data) ==
    LET end == EndOf(data, p.at, pchar \cup {Slash, Question})
    IN  [Decode(p, "query", SubSeq(data, p.at, end - 1), FALSE) EXCEPT !.at = end]

ParseFragment(p, data) ==
    [Decode(p, "fragment", From(data, p.at), FALSE) EXCEPT !.at = Len(data) + 1]

(***************************************************************************)
(* _S_parse_uri, up to _S_post_parse.  "" is accepted before anything of   *)
(* it is read; what follows the last part is left unread.                  *)
(***************************************************************************)
If(p, data, mark, Parse(_, _)) ==
    IF p.ok /\ p.at <= Len(data) /\ data[p.at] = mark
    THEN Parse([p EXCEPT !.at = @ + 1], data) ELSE p

AfterScheme(p, data) ==
    CASE ~p.ok -> p
      [] p.ok /\ (p.at > Len(data) \/ data[p.at] # Colon) -> Fail(p, "URI_NOCOLON")
      [] OTHER -> If(If(ParseHierPart([p EXCEPT !.at = @ + 1], data), data, Question, ParseQuery),
                     data, Hash, ParseFragment)

ParseUri(data) ==
    IF data = <<>> THEN StartOfParse
    ELSE AfterScheme(ParseScheme(StartOfParse, data), data)
=============================================================================
