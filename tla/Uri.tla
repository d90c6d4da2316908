--------------------------------- MODULE Uri ---------------------------------
(***************************************************************************)
(* uri: objects that hold the parts of a text, the registry of default     *)
(* ports that they share, and the thread's imp_errno.                      *)
(*                                                                         *)
(* m_has_default_port_ outlives what it was computed for: a parse does not *)
(* clear it, a parse that fails or of "" does not compute it, and the move *)
(* assignment keeps the target's.  It decides what str() prints.           *)
(*                                                                         *)
(* A moved-from string is empty, as the C++ library leaves it.  Left out:  *)
(* an object moved into itself, and paths whose normalization is undefined *)
(* (PathNormalize's "defined").                                            *)
(***************************************************************************)
EXTENDS UriParser

CONSTANTS
    Objects,
    Texts,          \* what a program parses
    Schemes, Ports, \* what it registers
    Permanent       \* s_scheme_port_dictionary_: from schemes to ports

ASSUME TextsAssumption ==
    \A t \in Texts : t \in Seq(Chars) /\ PathNormalize(ParseUri(t).uri.path).defined

VARIABLES
    uri,            \* the parts that each object holds
    has_default,    \* its m_has_default_port_
    origin,         \* history: "none" without an object, else what made its value;
                    \* "stale": a parse, with the flag of another one
    usr,            \* s_scheme_port_dictionary_usr_
    imp_errno,
    returned,       \* history: what the last call that may fail returned
    hides           \* history: the last text's user info hides its error

objects == <<uri, has_default, origin>>
calls == <<returned, hides>>
vars == <<objects, usr, imp_errno, calls>>

Init ==
    /\ uri = [o \in Objects |-> EmptyUri]
    /\ has_default = [o \in Objects |-> FALSE]
    /\ origin = [o \in Objects |-> "none"]
    /\ usr = [s \in {} |-> -1]
    /\ imp_errno = "SUCCESS"
    /\ returned = TRUE
    /\ hides = FALSE

------------------------------------------------------------------------------
(***************************************************************************)
(* _S_post_parse: the parts it makes, and what m_has_default_port_ may be. *)
(* A port of an unregistered scheme is compared with the value at the end  *)
(* of a map, which may be anything.                                        *)
(***************************************************************************)
Registered(scheme) == scheme \in DOMAIN Permanent \cup DOMAIN usr
\* Faulty variant: what a program registers is looked up first.
DefaultOfUser(scheme) == IF scheme \in DOMAIN usr THEN usr[scheme] ELSE Permanent[scheme]
DefaultPort(scheme) == IF scheme \in DOMAIN Permanent THEN Permanent[scheme] ELSE usr[scheme]

PostParse(parts) ==
    LET scheme == [i \in DOMAIN parts.scheme |-> ToLower(parts.scheme[i])]
        result == [parts EXCEPT !.scheme = scheme, !.path = PathNormalize(@).str]
        default == DefaultPort(scheme)
    IN  CASE parts.port >= 0 /\ Registered(scheme) -> {<<result, parts.port = default>>}
          [] parts.port >= 0 /\ ~Registered(scheme) -> {result} \X BOOLEAN
          [] parts.port < 0 /\ Registered(scheme) /\ default >= 0 ->
               {<<[result EXCEPT !.port = default], TRUE>>}
          [] OTHER -> {<<result, FALSE>>}

(* What _S_parse_uri makes of an object whose flag is "flag".              *)
Outcomes(p, text, flag) ==
    IF p.ok /\ text # <<>> THEN PostParse(p.uri) ELSE {<<p.uri, flag>>}

(* A user info that is badly encoded, or has a bracket: what stands from   *)
(* "start" to the first "@" of an authority, after the first ":" and "//". *)
BadUserinfo(text) ==
    \E start, end \in 4..Len(text) :
        /\ \A i \in 1..start - 3 : text[i] = Colon <=> i = start - 3
        /\ text[start - 2] = Slash /\ text[start - 1] = Slash /\ text[end] = At
        /\ \A i \in start..end - 1 : text[i] \notin {Slash, Question, Hash, At}
        /\ \E i \in start..end - 1 :
              \/ text[i] \in {91, 93}
              \/ text[i] = Percent /\ \E k \in {i + 1, i + 2} : text[k] \notin HEXDIG

Reports(p, text) ==
    /\ imp_errno' = p.errno
    /\ returned' = p.ok
    /\ hides' = BadUserinfo(text)

Becomes(o, outcome, how) ==
    /\ uri' = [uri EXCEPT ![o] = outcome[1]]
    /\ has_default' = [has_default EXCEPT ![o] = outcome[2]]
    /\ origin' = [origin EXCEPT ![o] = how]

How(p, text) == CASE text = <<>> -> "cleared"
                  [] text # <<>> /\ p.ok -> "parsed"
                  [] OTHER -> "refused"

(* uri::uri()                                                              *)
construct(o) ==
    /\ origin[o] = "none"
    /\ Becomes(o, <<EmptyUri, FALSE>>, "cleared")
    /\ UNCHANGED <<usr, imp_errno, calls>>

(* uri::uri(std::string): the flag has no value before the parse; a text   *)
(* that is refused leaves no object (it throws).                           *)
construct_from(o, text, p) ==
    /\ origin[o] = "none"
    /\ Reports(p, text)
    /\ UNCHANGED usr
    /\ \/ /\ p.ok
          /\ \E flag \in BOOLEAN : \E outcome \in Outcomes(p, text, flag) :
                Becomes(o, outcome, How(p, text))
       \/ ~p.ok /\ UNCHANGED objects

parse(o, text, p) ==
    /\ origin[o] # "none"
    /\ Reports(p, text)
    /\ \E outcome \in Outcomes(p, text, has_default[o]) : Becomes(o, outcome, How(p, text))
    /\ UNCHANGED usr

MovedFrom(parts) == [EmptyUri EXCEPT !.port = parts.port, !.has_auth = parts.has_auth]

Moved(o, from, flag, how) ==
    /\ uri' = [uri EXCEPT ![o] = uri[from], ![from] = MovedFrom(@)]
    /\ has_default' = [has_default EXCEPT ![o] = flag]
    /\ origin' = [origin EXCEPT ![o] = how, ![from] = "moved"]
    /\ UNCHANGED <<usr, imp_errno, calls>>

move_construct(o, from) ==
    /\ origin[o] = "none" /\ origin[from] # "none"
    /\ Moved(o, from, has_default[from], origin[from])

\* The parts of "from" with the flag of o: where the two flags differ, one that
\* fits them becomes stale, and a stale one fits again.
Assigned(o, from) ==
    IF origin[from] \notin {"parsed", "stale"} \/ has_default[o] = has_default[from]
    THEN origin[from]
    ELSE IF origin[from] = "parsed" THEN "stale" ELSE "parsed"

move_assign(o, from) ==
    /\ o # from /\ "none" \notin {origin[o], origin[from]}
    /\ Moved(o, from, has_default[o], Assigned(o, from))

destroy(o) ==
    /\ origin[o] # "none"
    /\ Becomes(o, <<EmptyUri, FALSE>>, "none")
    /\ UNCHANGED <<usr, imp_errno, calls>>

------------------------------------------------------------------------------
(* register_scheme_port, deregister_scheme_port                            *)
MayRegister(scheme) == scheme \in DOMAIN Permanent

With(f, x, y) == [z \in DOMAIN f \cup {x} |-> IF z = x THEN y ELSE f[z]]

register_scheme_port(scheme, port) ==
    /\ \/ /\ MayRegister(scheme)
          /\ usr' = With(usr, scheme, port)
          /\ imp_errno' = "SUCCESS" /\ returned' = TRUE
       \/ /\ ~MayRegister(scheme)
          /\ imp_errno' = "URI_SCHEME_RSV" /\ returned' = FALSE
          /\ UNCHANGED usr
    /\ hides' = FALSE /\ UNCHANGED objects

deregister_scheme_port(scheme) ==
    /\ \/ /\ scheme \in DOMAIN usr
          /\ usr' = [s \in DOMAIN usr \ {scheme} |-> usr[s]]
          /\ imp_errno' = "SUCCESS" /\ returned' = TRUE
       \/ /\ scheme \notin DOMAIN usr
          /\ imp_errno' = "URI_SCHEME_NOTFOUND" /\ returned' = FALSE
          /\ UNCHANGED usr
    /\ hides' = FALSE /\ UNCHANGED objects

Next ==
    \/ \E o \in Objects :
          \/ construct(o)
          \/ \E text \in Texts : \E p \in {ParseUri(text)} :
                construct_from(o, text, p) \/ parse(o, text, p)
          \/ \E from \in Objects : move_construct(o, from) \/ move_assign(o, from)
          \/ destroy(o)
    \/ \E scheme \in Schemes :
          \/ \E port \in Ports : register_scheme_port(scheme, port)
          \/ deregister_scheme_port(scheme)

Spec == Init /\ [][Next]_vars

------------------------------------------------------------------------------
(* What the observers print. *)

Decimal[n \in Nat] == IF n < 10 THEN <<48 + n>>
                      ELSE Append(Decimal[n \div 10], 48 + (n % 10))

Before(mark, part) == IF part = <<>> THEN <<>> ELSE <<mark>> \o part

\* Faulty variant: the host is printed without what may stand before it.
AuthorityOfHost(parts, flag) ==
    parts.host \o (IF parts.port >= 0 /\ ~flag THEN <<Colon>> \o Decimal[parts.port] ELSE <<>>)

authority(parts, flag) ==
    (IF parts.userinfo = <<>> THEN <<>> ELSE Append(parts.userinfo, At))
    \o parts.host
    \o (IF parts.port >= 0 /\ ~flag THEN <<Colon>> \o Decimal[parts.port] ELSE <<>>)

HasAuthority(parts, flag) == parts.has_auth \/ authority(parts, flag) # <<>>

abs_str(parts, flag) ==
    (IF parts.scheme = <<>> THEN <<>> ELSE Append(parts.scheme, Colon))
    \o (IF ~HasAuthority(parts, flag) THEN <<>>
        ELSE <<Slash, Slash>> \o authority(parts, flag)
             \o (IF parts.path # <<>> /\ parts.path[1] # Slash THEN <<Slash>> ELSE <<>>))
    \o parts.path
    \o Before(Question, parts.query)

str(parts, flag) == abs_str(parts, flag) \o Before(Hash, parts.fragment)

------------------------------------------------------------------------------
(* Properties. *)

UriType == [scheme : Seq(Nat), userinfo : Seq(Nat), host : Seq(Nat), path : Seq(Nat),
            query : Seq(Nat), fragment : Seq(Nat), port : Int, has_auth : BOOLEAN]

(* An explicit port of an unregistered scheme: its flag is undefined.      *)
UndefinedFlag(parts) == parts.port >= 0 /\ parts.scheme \notin DOMAIN Permanent

HoldsPermanent(parts) ==
    /\ parts.port >= 0 /\ parts.scheme \in DOMAIN Permanent
    /\ parts.port = Permanent[parts.scheme]

FlagFits(parts, flag) == UndefinedFlag(parts) \/ (flag <=> HoldsPermanent(parts))

(***************************************************************************)
(* Of an object that a text was parsed into, str() leaves out the port if  *)
(* and only if it is the permanent default of the scheme, which any later  *)
(* parse supplies, whatever was registered, moved and assigned in between. *)
(* An assignment between objects whose flags differ makes it the opposite: *)
(* a default port is printed, and another one is left out (uri.cpp:65-77). *)
(* Excepted are an explicit port of a scheme that is not registered, and   *)
(* an object that no parse has completed: one that a refused text or a     *)
(* move left, where the flag is of an earlier text.                        *)
(***************************************************************************)
OmitsExactlyPermanent ==
    \A o \in Objects :
        /\ origin[o] = "parsed" => FlagFits(uri[o], has_default[o])
        /\ origin[o] = "stale" => FlagFits(uri[o], ~has_default[o])

(***************************************************************************)
(* What str() prints of a parsed object parses to the same parts, at any   *)
(* later time; with a stale flag, what the other flag would print does.    *)
(* Excepted are an explicit port of a scheme that is not registered; parts *)
(* with an escaped character that is decoded and cannot stand in a URI; a  *)
(* host with an escaped capital, which is decoded but not lowered; a path  *)
(* whose first segment is ":" after its normalization, which the parser    *)
(* refuses; and one that the normalization cut inside of an escape, where  *)
(* dir was older than the output.                                          *)
(***************************************************************************)
DecodesToItself(part, tolower) == PercentDecode(part, tolower) = [ok |-> TRUE, str |-> part]

Printable(parts) ==
    /\ ToSet(parts.userinfo) \subseteq pchar
    /\ parts.host = <<>> \/ Head(parts.host) = 91 \/ ToSet(parts.host) \subseteq pchar
    /\ ToSet(parts.path) \subseteq pchar \cup {Slash}
    /\ ToSet(parts.query) \subseteq pchar \cup {Slash, Question}
    /\ ToSet(parts.fragment) \cap WhiteSpace = {}
    /\ ~IsPrefix(<<Colon, Slash>>, parts.path) /\ ~IsPrefix(<<Slash, Colon, Slash>>, parts.path)
    /\ DecodesToItself(parts.host, TRUE) /\ DecodesToItself(parts.path, FALSE)

Makes(p, parts) == p.ok /\ \A outcome \in PostParse(p.uri) : outcome[1] = parts

PrintsBack(o, flag) ==
    ~UndefinedFlag(uri[o]) /\ Printable(uri[o]) => Makes(ParseUri(str(uri[o], flag)), uri[o])

RoundTrip ==
    \A o \in Objects :
        /\ origin[o] = "parsed" => PrintsBack(o, has_default[o])
        /\ origin[o] = "stale" => PrintsBack(o, ~has_default[o])

(***************************************************************************)
(* imp_errno tells what a call returned.  Excepted is a text whose user    *)
(* info is badly encoded or has a bracket: the decoding of its host, or of *)
(* the address in the brackets, reports success last.                      *)
(***************************************************************************)
ErrnoTells == (returned <=> imp_errno = "SUCCESS") \/ (~returned /\ hides)

(***************************************************************************)
(* "Scheme already reserved (permanent scheme)" (errno.h:40): a permanent  *)
(* scheme is not registered.                                               *)
(***************************************************************************)
PermanentStaysReserved == DOMAIN usr \cap DOMAIN Permanent = {}
=============================================================================
