----------------------------- MODULE Networking -----------------------------
(***************************************************************************)
(* networking.cpp, as built for Linux: find_network_interfaces and         *)
(* find_default_route, called by one thread, with the kernel around them.  *)
(*                                                                         *)
(* The kernel's links come and go, and change their hardware address,      *)
(* while a list that getifaddrs made of them is walked.  A route dump is a *)
(* sequence of datagrams, each a sequence of messages; a message is a      *)
(* record of its header, its rtmsg and its attributes, and takes one unit  *)
(* of the buffer.  Any system call may fail.                               *)
(***************************************************************************)
EXTENDS Naturals, Sequences, SequencesExt

CONSTANTS
    Names, Macs,
    Absent,         \* the hardware address of a link that does not exist
    Entries,        \* the addresses that links have while they exist
    Messages,       \* the messages of netlink
    Dumps,          \* the answers to a route request
    BufferSize      \* message_buffer, in messages

ASSUME AbsentAssumption == Absent \notin Macs
ASSUME EntriesAssumption == Entries \in Seq([name : Names, family : STRING])
ASSUME BufferAssumption == BufferSize \in Nat

VARIABLES
    links,          \* external: the hardware address of each link
    pc,             \* where the thread is
    listed,         \* history: what getifaddrs listed
    rest,           \* of it, from the target of the loop on
    mac,            \* request.ifr_hwaddr, Absent if the ioctl failed
    found,          \* *__list
    seen,           \* history: the links' addresses since the call began
    allocated,      \* the list of getifaddrs is not freed yet
    descriptors,    \* how many sockets the call has open
    dump,           \* external: the kernel's answer to the request
    datagrams,      \* of it, what was not received yet
    buffer,         \* the messages received
    outcome         \* of the last call

listing == <<listed, rest, mac, found, seen, allocated>>
reading == <<dump, datagrams, buffer>>
vars == <<links, pc, listing, descriptors, reading, outcome>>

NoRoute == [oif |-> 0, gateway |-> 0]
Nothing == [kind |-> "nothing"]
Throws == [kind |-> "throws"]
Lists(tokens) == [kind |-> "list", tokens |-> tokens]
Routes(route) == [kind |-> "route", route |-> route]

Held == {<<name, links[name]>> : name \in Names}

(* The sequences of n positions that are those of "set", in order.         *)
InOrder(n, set) ==
    {at \in [1..n -> set] : /\ \A i, j \in 1..n : i < j => at[i] < at[j]
                            /\ set = {at[i] : i \in 1..n}}

Init ==
    /\ links \in [Names -> Macs \cup {Absent}]
    /\ pc = "idle"
    /\ listed = <<>> /\ rest = <<>> /\ mac = Absent /\ found = <<>> /\ seen = {}
    /\ allocated = FALSE
    /\ descriptors = 0
    /\ dump = <<>> /\ datagrams = <<>> /\ buffer = <<>>
    /\ outcome = Nothing

Ends(result) == pc' = "returned" /\ outcome' = result

(* External: the program has the outcome, and the calls share no state.    *)
Take ==
    /\ pc = "returned"
    /\ pc' = "idle" /\ outcome' = Nothing
    /\ listed' = <<>> /\ rest' = <<>> /\ mac' = Absent /\ found' = <<>> /\ seen' = {}
    /\ dump' = <<>> /\ datagrams' = <<>> /\ buffer' = <<>>
    /\ UNCHANGED <<links, allocated, descriptors>>

------------------------------------------------------------------------------
(* find_network_interfaces, traverse_links, set_interface_type_mac *)

find_network_interfaces ==
    /\ pc = "idle"
    /\ \/ /\ \E n \in 0..Len(Entries) :
               \E at \in InOrder(n, {i \in DOMAIN Entries : links[Entries[i].name] # Absent}) :
                  listed' = [i \in 1..n |-> Entries[at[i]]]
          /\ rest' = listed' /\ seen' = Held
          /\ allocated' = TRUE
          /\ pc' = "walk"
          /\ UNCHANGED <<mac, found, outcome>>
       \/ Ends(Throws) /\ UNCHANGED listing
    /\ UNCHANGED <<links, descriptors, reading>>

MakeHandle ==
    /\ pc = "walk" /\ rest # <<>>
    /\ \/ pc' = "opened" /\ descriptors' = descriptors + 1
       \/ pc' = "failing" /\ UNCHANGED descriptors
    /\ UNCHANGED <<links, listing, reading, outcome>>

\* Faulty variant: where the ioctl fails, its last answer is taken.
AskMacUnchecked ==
    /\ pc = "opened"
    /\ mac' = IF links[Head(rest).name] = Absent THEN mac ELSE links[Head(rest).name]
    /\ pc' = "asked"
    /\ UNCHANGED <<links, listed, rest, found, seen, allocated, descriptors, reading, outcome>>

AskMac ==
    /\ pc = "opened"
    /\ mac' = links[Head(rest).name]
    /\ pc' = "asked"
    /\ UNCHANGED <<links, listed, rest, found, seen, allocated, descriptors, reading, outcome>>

(* The handle is closed before the ioctl's status is looked at; a close    *)
(* that fails has closed it all the same.  PACKET entries are not listed.  *)
Token(entry) == [name |-> entry.name, family |-> entry.family, mac |-> mac]

CloseHandle ==
    /\ pc = "asked"
    /\ descriptors' = descriptors - 1
    /\ \/ /\ mac # Absent
          /\ found' = IF Head(rest).family = "PACKET" THEN found
                                                      ELSE Append(found, Token(Head(rest)))
          /\ rest' = Tail(rest)
          /\ pc' = "walk"
       \/ pc' = "failing" /\ UNCHANGED <<found, rest>>
    /\ UNCHANGED <<links, listed, mac, seen, allocated, reading, outcome>>

ReturnList ==
    /\ pc = "walk" /\ rest = <<>>
    /\ allocated' = FALSE
    /\ Ends(Lists(found))
    /\ UNCHANGED <<links, listed, rest, mac, found, seen, descriptors, reading>>

(* catch (impact_error&) { freeifaddrs(addresses); throw; }                *)
\* Faulty variant: the exception passes find_network_interfaces by.
PassesBy ==
    /\ pc = "failing"
    /\ Ends(Throws)
    /\ UNCHANGED <<links, listing, descriptors, reading>>

Rethrow ==
    /\ pc = "failing"
    /\ allocated' = FALSE
    /\ Ends(Throws)
    /\ UNCHANGED <<links, listed, rest, mac, found, seen, descriptors, reading>>

------------------------------------------------------------------------------
(* find_default_route, read_netlink_socket *)

find_default_route ==
    /\ pc = "idle"
    /\ \/ /\ pc' = "ask" /\ descriptors' = descriptors + 1
          /\ dump' \in Dumps
          /\ UNCHANGED outcome
       \/ Ends(Throws) /\ UNCHANGED <<dump, descriptors>>
    /\ UNCHANGED <<links, listing, datagrams, buffer>>

SendRequest ==
    /\ pc = "ask"
    /\ \/ datagrams' = dump /\ pc' = "read"
       \/ pc' = "unwind" /\ UNCHANGED datagrams
    /\ UNCHANGED <<links, listing, descriptors, dump, buffer, outcome>>

(***************************************************************************)
(* The answer has the number of the request, and the reader is told to     *)
(* wait for the one after it (message_sequence++): it never sees the       *)
(* message it waits for, whatever nlmsg_pid is, and reads on until         *)
(* something else ends the dump.  Only the first message of a datagram is  *)
(* looked at.                                                              *)
(***************************************************************************)
Sent == 0
\* Faulty variant: the reader waits for the number that was sent.
SameNumber == Sent
Expected == Sent + 1

\* Faulty variant: the end of a dump is not told from its parts.
EndsUnlessMulti(first) == ~first.multi \/ first.seq = Expected
EndsReading(first) == first.type = "DONE" \/ ~first.multi \/ first.seq = Expected

(***************************************************************************)
(* External: the kernel's answer is a multi-part one, with the request's   *)
(* number and, at its end, a DONE; only a NEWROUTE is a route of a table.  *)
(***************************************************************************)
OfMainTable(message) == message.family = "INET" /\ message.table = "MAIN"

ASSUME MessagesAssumption ==
    \A message \in Messages :
        /\ message.type # "ERROR" => message.multi /\ message.seq = Sent
        /\ message.type # "NEWROUTE" => ~OfMainTable(message)

ASSUME DumpsAssumption ==
    /\ Dumps \subseteq Seq(Seq(Messages))
    /\ \A answer \in Dumps : \A i \in DOMAIN answer :
          /\ answer[i] # <<>>
          /\ answer[i][1].type = "DONE" => i = Len(answer) /\ Len(answer[i]) = 1

(* What fits into the rest of the buffer; the rest of a datagram is lost.   *)
Received(datagram) ==
    LET room == BufferSize - Len(buffer)
    IN  IF Len(datagram) <= room THEN datagram ELSE SubSeq(datagram, 1, room)

Corrupt == [type |-> "ERROR"]

Receive ==
    /\ pc = "read" /\ datagrams # <<>>
    /\ datagrams' = Tail(datagrams)
    /\ LET received == Received(Head(datagrams))
           first == IF received = <<>> THEN Corrupt ELSE Head(received)
       IN  \/ first.type = "ERROR" /\ pc' = "unwind" /\ UNCHANGED buffer
           \/ /\ first.type # "ERROR"
              /\ buffer' = IF first.type = "DONE" THEN buffer ELSE buffer \o received
              /\ pc' = IF EndsReading(first) THEN "close" ELSE "read"
    /\ UNCHANGED <<links, listing, descriptors, dump, outcome>>

ReceiveFails ==
    /\ pc = "read"
    /\ pc' = "unwind"
    /\ UNCHANGED <<links, listing, descriptors, reading, outcome>>

(* The walk over the messages ends at the first that is not of the main    *)
(* table; it does not look at rtm_dst_len.  (Without an RTA_OIF, oif is 0  *)
(* and the name is read from an array without a value.)                    *)
RouteOf(message) == [oif |-> message.oif, gateway |-> message.gateway]

DefaultRoute(messages) ==
    LET others == {i \in DOMAIN messages : ~OfMainTable(messages[i])}
        defaults == {i \in DOMAIN messages : messages[i].dst = 0 /\ \A j \in others : i < j}
        first == CHOOSE i \in defaults : \A j \in defaults : i <= j
    IN  IF defaults = {} THEN NoRoute ELSE RouteOf(messages[first])

CloseKernelSocket ==
    /\ pc = "close"
    /\ descriptors' = descriptors - 1
    /\ Ends(Routes(DefaultRoute(buffer))) \/ Ends(Throws)
    /\ UNCHANGED <<links, listing, reading>>

(* An exception destroys kernel_socket.                                    *)
Unwind ==
    /\ pc = "unwind"
    /\ descriptors' = descriptors - 1
    /\ Ends(Throws)
    /\ UNCHANGED <<links, listing, reading>>

------------------------------------------------------------------------------
(* External: a link comes, goes or is given another hardware address.      *)
Change ==
    /\ pc \in {"walk", "opened", "asked"}
    /\ \E name \in Names, to \in Macs \cup {Absent} : links' = [links EXCEPT ![name] = to]
    /\ seen' = seen \cup {<<name, links'[name]>> : name \in Names}
    /\ UNCHANGED <<pc, listed, rest, mac, found, allocated, descriptors, reading, outcome>>

Step ==
    \/ MakeHandle \/ AskMac \/ CloseHandle \/ ReturnList \/ Rethrow
    \/ SendRequest \/ Receive \/ CloseKernelSocket \/ Unwind

Next == find_network_interfaces \/ find_default_route \/ Take \/ Step \/ ReceiveFails \/ Change

Spec == Init /\ [][Next]_vars

(* The thread runs, and the kernel delivers what it has to deliver.        *)
FairSpec == Spec /\ WF_vars(Step)

------------------------------------------------------------------------------
(***************************************************************************)
(* However a call ends, it has freed the list and closed its sockets.      *)
(***************************************************************************)
NothingHeld == pc \in {"idle", "returned"} => ~allocated /\ descriptors = 0

(***************************************************************************)
(* A list that is returned has the listed addresses, each once and in      *)
(* order, without the PACKET entries, and for each a hardware address that *)
(* the link of its name had since the call began.                          *)
(***************************************************************************)
ListIsExact ==
    outcome.kind = "list" =>
        LET tokens == outcome.tokens
            wanted == {i \in DOMAIN listed : listed[i].family # "PACKET"}
        IN  \E at \in InOrder(Len(tokens), wanted) : \A i \in DOMAIN tokens :
                /\ tokens[i].name = listed[at[i]].name
                /\ tokens[i].family = listed[at[i]].family
                /\ <<tokens[i].name, tokens[i].mac>> \in seen
                /\ tokens[i].mac # Absent

ToZero(messages) == {i \in DOMAIN messages : OfMainTable(messages[i]) /\ messages[i].dst = 0}

(***************************************************************************)
(* A route that is returned is the first route to 0.0.0.0 of the main      *)
(* table in the whole dump, in however many datagrams it came, and "no     *)
(* route" is returned only if in the whole dump each such route is behind  *)
(* one of another table.  (A longer prefix of 0.0.0.0 counts as a default. *)
(* That a default behind another table's route may be missed is what the   *)
(* code does, and so is what is said here.)                                *)
(***************************************************************************)
RouteIsDefault ==
    outcome.kind = "route" =>
        LET messages == FlattenSeq(dump)
            defaults == ToZero(messages)
        IN  \/ /\ outcome.route = NoRoute
               /\ \A i \in defaults : \E j \in DOMAIN messages : j < i /\ ~OfMainTable(messages[j])
            \/ \E i \in defaults :
                  /\ \A j \in defaults : i <= j
                  /\ outcome.route = RouteOf(messages[i])

(***************************************************************************)
(* Every call ends, unless the kernel puts the end of the dump behind its  *)
(* last messages, in one datagram: then the thread waits for another.      *)
(***************************************************************************)
EndIsHidden ==
    dump # <<>> /\ Len(Last(dump)) > 1 /\ Last(Last(dump)).type = "DONE"

CallsEnd == pc # "idle" ~> pc = "returned" \/ EndIsHidden
=============================================================================
