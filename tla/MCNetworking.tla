---------------------------- MODULE MCNetworking ----------------------------
(* Networking on a small instance: a link with two addresses, one with     *)
(* none that has a family, and dumps of up to three routes in up to three  *)
(* datagrams, with their end in a datagram of its own or behind the last   *)
(* messages.                                                               *)
EXTENDS Networking

MCEntries ==
    << [name |-> "eth", family |-> "PACKET"], [name |-> "tun", family |-> "NULL"],
       [name |-> "eth", family |-> "INET"], [name |-> "eth", family |-> "INET6"] >>

Message(type, table, dst, len, oif, gateway) ==
    [type |-> type, multi |-> TRUE, seq |-> Sent, family |-> IF type = "NEWROUTE" THEN "INET" ELSE "UNSPEC",
     table |-> table, dst |-> dst, dst_len |-> len, oif |-> oif, gateway |-> gateway]

Done == Message("DONE", "NONE", 0, 0, 0, 0)
Error == [Message("ERROR", "NONE", 0, 0, 0, 0) EXCEPT !.multi = FALSE]

KernelRoutes ==
    { Message("NEWROUTE", "MAIN", 0, 0, 1, 9), Message("NEWROUTE", "MAIN", 0, 0, 2, 0),
      Message("NEWROUTE", "MAIN", 0, 1, 4, 0), Message("NEWROUTE", "MAIN", 10, 8, 1, 0),
      Message("NEWROUTE", "LOCAL", 127, 8, 3, 0) }

(* The routes of a dump, in datagrams that begin at the first and at the   *)
(* positions of "cuts"; its end is hidden behind the last, or alone.       *)
Cut(routes, cuts) ==
    LET Put(parts, i) == IF i = 1 \/ i \in cuts THEN Append(parts, <<routes[i]>>)
                         ELSE [parts EXCEPT ![Len(parts)] = Append(@, routes[i])]
    IN  FoldLeft(Put, <<>>, [i \in DOMAIN routes |-> i])

WithEnd(parts, hidden) ==
    IF hidden /\ parts # <<>> THEN Append(Front(parts), Append(Last(parts), Done))
                              ELSE Append(parts, <<Done>>)

Routings == {SubSeq(routes, 1, n) : routes \in [1..3 -> KernelRoutes], n \in 0..3}

MCMessages == KernelRoutes \cup {Done, Error}

MCDumps ==
    {WithEnd(Cut(routes, cuts), hidden) :
        routes \in Routings, cuts \in SUBSET {2, 3}, hidden \in BOOLEAN}
    \cup { << <<Error>> >> }
=============================================================================
