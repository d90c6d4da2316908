-------------------------------- MODULE MCUri --------------------------------
(* Uri on a small instance: schemes "ws" (port 80), "im" (permanent, with   *)
(* no port) and "x" (not registered).                                       *)
EXTENDS Uri, TLC

CONSTANTS o1, o2

ws == <<119, 115>>
im == <<105, 109>>
x == <<120>>
MCSchemes == {ws, x}
MCPermanent == (ws :> 80) @@ (im :> -1)

h == 104
Up == <<Slash, 97, Slash, Dot, Dot, Slash, 98>>                    \* /a/../b
Escapes == <<Slash, Percent, 50, 70, Percent, 50, 48>>             \* /%2F%20
Host80 == <<Slash, Slash, h, Colon, 56, 48>>                       \* //h:80
Host81 == <<Slash, Slash, h, Colon, 56, 49>>                       \* //h:81
User == <<Slash, Slash, Percent, 52, 49, Percent, 52, 48, 64, h>>  \* //%41%40@h
BadUser == <<Slash, Slash, Percent, 122, 122, 64, h>>              \* //%zz@h
Literal == <<Slash, Slash, 91, Colon, Colon, 93, 64, h>>           \* //[::]@h

(* "" and ":"; "Ws:a/../:/b" and "ws:/a?b#c"; the others by their parts.   *)
MCTexts ==
    {<<>>, <<Colon>>, <<87, 115, Colon, 97, Slash, Dot, Dot, Slash, Colon, Slash, 98>>,
     ws \o <<Colon, Slash, 97, Question, 98, Hash, 99>>}
    \cup {ws \o <<Colon>> \o rest : rest \in {Host80 \o Up, Host81, User, BadUser, Literal, Host81 \o <<Slash, Percent>>}}
    \cup {im \o <<Colon>> \o rest : rest \in {Host81, Up}}
    \cup {x \o <<Colon>> \o rest : rest \in {Host81 \o Escapes, <<Slash, Slash, h>>, User}}

Symmetry == Permutations({o1, o2})
=============================================================================
