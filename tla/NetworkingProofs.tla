--------------------------- MODULE NetworkingProofs ---------------------------
(***************************************************************************)
(* Proofs about the calls of networking.cpp, for any links, any route      *)
(* dumps and any size of the buffer: they hold nothing when they end, and  *)
(* the lists and the routes they return are exact.                         *)
(***************************************************************************)
EXTENDS Networking, VectorLemmas, TLAPS

\* Where a call holds the list of getifaddrs, and where a socket.
WithList == {"walk", "opened", "asked", "failing"}
WithSocket == {"opened", "asked", "ask", "read", "close", "unwind"}

HeldInv ==
    /\ pc \in WithList \cup WithSocket \cup {"idle", "returned"}
    /\ allocated <=> pc \in WithList
    /\ allocated \in BOOLEAN
    /\ descriptors = IF pc \in WithSocket THEN 1 ELSE 0

LEMMA InitHeld == Init => HeldInv
  BY DEF Init, HeldInv, WithList, WithSocket

\* The calls on the links, which hold the list and, for one entry at a time, a socket.
LEMMA LinksHeld ==
    ASSUME HeldInv, find_network_interfaces \/ MakeHandle \/ AskMac \/ CloseHandle \/ ReturnList \/ Rethrow
    PROVE  HeldInv'
<1> USE DEF HeldInv, WithList, WithSocket, Ends
<1>1. CASE find_network_interfaces
  <2>1. pc = "idle" /\ UNCHANGED descriptors
    BY <1>1 DEF find_network_interfaces
  <2>2. (pc' = "walk" /\ allocated') \/ (pc' = "returned" /\ ~allocated')
    BY <1>1, <2>1 DEF find_network_interfaces, listing
  <2>3. allocated' \in BOOLEAN
    BY <1>1 DEF find_network_interfaces, listing
  <2> QED
    BY <2>1, <2>2, <2>3
<1>2. CASE MakeHandle
  BY <1>2 DEF MakeHandle, listing
<1>3. CASE AskMac
  BY <1>3 DEF AskMac
<1>4. CASE CloseHandle
  BY <1>4 DEF CloseHandle
<1>5. CASE ReturnList
  BY <1>5 DEF ReturnList
<1>6. CASE Rethrow
  BY <1>6 DEF Rethrow
<1> QED
  BY <1>1, <1>2, <1>3, <1>4, <1>5, <1>6

\* The call on the routes, which holds a socket.
LEMMA RoutesHeld ==
    ASSUME HeldInv,
           find_default_route \/ SendRequest \/ Receive \/ ReceiveFails \/ CloseKernelSocket \/ Unwind
    PROVE  HeldInv'
<1> USE DEF HeldInv, WithList, WithSocket, Ends, listing
<1>1. CASE find_default_route
  BY <1>1 DEF find_default_route
<1>2. CASE SendRequest
  BY <1>2 DEF SendRequest
<1>3. CASE Receive
  <2>1. pc = "read" /\ pc' \in {"unwind", "close", "read"} /\ UNCHANGED <<allocated, descriptors>>
    BY <1>3 DEF Receive
  <2> QED
    BY <2>1
<1>4. CASE ReceiveFails
  BY <1>4 DEF ReceiveFails
<1>5. CASE CloseKernelSocket
  BY <1>5 DEF CloseKernelSocket
<1>6. CASE Unwind
  BY <1>6 DEF Unwind
<1> QED
  BY <1>1, <1>2, <1>3, <1>4, <1>5, <1>6

LEMMA StepHeld == HeldInv /\ [Next]_vars => HeldInv'
<1> SUFFICES ASSUME HeldInv, [Next]_vars PROVE HeldInv'
  OBVIOUS
<1>1. CASE Take
  BY <1>1 DEF Take, HeldInv, WithList, WithSocket
<1>2. CASE Change
  BY <1>2 DEF Change, HeldInv, WithList, WithSocket
<1>3. CASE UNCHANGED vars
  BY <1>3 DEF vars, listing, HeldInv
<1> QED
  BY <1>1, <1>2, <1>3, LinksHeld, RoutesHeld DEF Next, Step

\* However find_network_interfaces or find_default_route ends, by a return or
\* an exception, the list is freed and every socket it made is closed.
THEOREM CallsHoldNothing == Spec => []NothingHeld
<1>1. HeldInv => NothingHeld
  BY DEF HeldInv, NothingHeld, WithList, WithSocket
<1> QED
  BY InitHeld, StepHeld, <1>1, PTL DEF Spec

------------------------------------------------------------------------------
(* The list *)

Record == [name : Names, family : STRING]
Tokens == [name : Names, family : STRING, mac : Macs \cup {Absent}]

Typed ==
    /\ links \in [Names -> Macs \cup {Absent}]
    /\ listed \in Seq(Record) /\ rest \in Seq(Record)
    /\ found \in Seq(Tokens)
    /\ mac \in Macs \cup {Absent}
    /\ pc = "idle" => found = <<>>
    /\ pc \in {"opened", "asked"} => rest # <<>>
    /\ pc # "returned" => outcome = Nothing

\* The first k of the listed entries that are to be returned.
Wanted(k) == {i \in 1..k : listed[i].family # "PACKET"}

\* Each token is of one of them, in order, with an address its link had.
Covers(at, k) ==
    /\ at \in InOrder(Len(found), Wanted(k))
    /\ \A i \in 1..Len(found) :
          /\ found[i].name = listed[at[i]].name
          /\ found[i].family = listed[at[i]].family
          /\ <<found[i].name, found[i].mac>> \in seen
          /\ found[i].mac # Absent

\* Where the walk is: behind k entries, with a token for each that is wanted.
Walked(k) ==
    /\ rest = SubSeq(listed, k + 1, Len(listed))
    /\ \E at : Covers(at, k)

ListInv ==
    /\ pc \in WithList => Held \subseteq seen
    /\ pc \in WithList => \E k \in 0..Len(listed) : Walked(k)
    /\ pc = "asked" => mac = Absent \/ <<Head(rest).name, mac>> \in seen
    /\ ListIsExact

LEMMA InOrderGrows ==
    ASSUME NEW n \in Nat, NEW k \in Nat, NEW S, S \subseteq 1..k, NEW at \in InOrder(n, S)
    PROVE  [i \in 1..(n + 1) |-> IF i = n + 1 THEN k + 1 ELSE at[i]]
              \in InOrder(n + 1, S \cup {k + 1})
<1> DEFINE T == S \cup {k + 1}
           next == [i \in 1..(n + 1) |-> IF i = n + 1 THEN k + 1 ELSE at[i]]
<1>1. /\ \A i \in 1..n : at[i] \in S
      /\ \A i, j \in 1..n : i < j => at[i] < at[j]
      /\ \A x \in S : \E i \in 1..n : x = at[i]
  BY DEF InOrder
<1>2. next \in [1..(n + 1) -> T]
  BY <1>1
<1>3. ASSUME NEW i \in 1..(n + 1), NEW j \in 1..(n + 1), i < j PROVE next[i] < next[j]
  <2>1. i \in 1..n /\ i # n + 1
    BY <1>3
  <2>4. next[i] = at[i] /\ at[i] \in 1..k
    BY <1>1, <2>1
  <2>2. CASE j = n + 1
    BY <2>1, <2>2, <2>4
  <2>3. CASE j # n + 1
    BY <1>1, <1>3, <2>1, <2>3, <2>4
  <2> QED
    BY <2>2, <2>3
<1>4. \A x \in T : \E i \in 1..(n + 1) : x = next[i]
  <2>1. next[n + 1] = k + 1 /\ n + 1 \in 1..(n + 1)
    OBVIOUS
  <2>2. \A i \in 1..n : i \in 1..(n + 1) /\ next[i] = at[i]
    OBVIOUS
  <2> HIDE DEF next
  <2> QED
    BY <1>1, <2>1, <2>2
<1>5. T = {next[i] : i \in 1..(n + 1)}
  <2> HIDE DEF next, T
  <2> QED
    BY <1>2, <1>4
<1> QED
  <2> HIDE DEF next, T
  <2>1. next \in InOrder(n + 1, T)
    BY <1>2, <1>3, <1>5 DEF InOrder
  <2> QED
    BY <2>1 DEF next, T

LEMMA InitTyped == Init => Typed
  BY DEF Init, Typed, Nothing

LEMMA StepTyped == Typed /\ [Next]_vars => Typed'
<1> SUFFICES ASSUME Typed, [Next]_vars PROVE Typed'
  OBVIOUS
<1> USE DEF Typed, Ends, listing
<1>1. CASE find_network_interfaces
  <2>1. listed' \in Seq(Record)
    <3>1. ASSUME NEW n \in 0..Len(Entries),
                 NEW at \in InOrder(n, {i \in DOMAIN Entries : links[Entries[i].name] # Absent}),
                 listed' = [i \in 1..n |-> Entries[at[i]]]
          PROVE  listed' \in Seq(Record)
      <4>1. \A i \in 1..n : at[i] \in 1..Len(Entries)
        BY EntriesAssumption DEF InOrder
      <4>4. Entries \in Seq(Record)
        BY EntriesAssumption DEF Record
      <4>2. \A i \in 1..n : Entries[at[i]] \in Record
        BY <4>1, <4>4, ElementOfSeq
      <4>3. n \in Nat
        BY EntriesAssumption
      <4>5. listed' \in [1..n -> Record]
        BY <3>1, <4>2
      <4> QED
        BY <4>3, <4>5, SeqDef
    <3>2. CASE UNCHANGED listed
      BY <3>2
    <3> QED
      BY <1>1, <3>1, <3>2 DEF find_network_interfaces
  <2> QED
    BY <1>1, <2>1 DEF find_network_interfaces
<1>2. CASE MakeHandle \/ ReturnList \/ Rethrow
  BY <1>2 DEF MakeHandle, ReturnList, Rethrow
<1>3. CASE AskMac
  <2>1. Head(rest) \in Record
    BY <1>3, HeadTailProperties DEF AskMac
  <2> QED
    BY <1>3, <2>1 DEF AskMac, Record
<1>4. CASE CloseHandle
  <2>1. Head(rest) \in Record /\ Tail(rest) \in Seq(Record)
    BY <1>4, HeadTailProperties DEF CloseHandle
  <2>2. Token(Head(rest)) \in Tokens
    BY <2>1 DEF Token, Record, Tokens
  <2>3. Append(found, Token(Head(rest))) \in Seq(Tokens)
    BY <2>2
  <2>4. found' \in Seq(Tokens) /\ rest' \in Seq(Record)
    BY <1>4, <2>1, <2>3 DEF CloseHandle
  <2> QED
    BY <1>4, <2>4 DEF CloseHandle
<1>5. CASE find_default_route \/ SendRequest \/ Receive \/ ReceiveFails \/ CloseKernelSocket \/ Unwind
  BY <1>5 DEF find_default_route, SendRequest, Receive, ReceiveFails, CloseKernelSocket, Unwind
<1>6. CASE Take
  BY <1>6 DEF Take
<1>7. CASE Change
  BY <1>7 DEF Change
<1>8. CASE UNCHANGED vars
  BY <1>8 DEF vars
<1> QED
  BY <1>1, <1>2, <1>3, <1>4, <1>5, <1>6, <1>7, <1>8 DEF Next, Step

LEMMA InitList == Init => ListInv
  BY DEF Init, ListInv, WithList, ListIsExact, Nothing

\* What was covered stays so, while the links' addresses are only added to.
LEMMA WalkedKeeps ==
    ASSUME NEW k \in 0..Len(listed), Walked(k),
           UNCHANGED <<listed, rest, found>>, seen \subseteq seen'
    PROVE  Walked(k)'
  BY DEF Walked, Covers, Wanted, InOrder

\* The list and the places of its walk, when the thread is in none of its loops.
LEMMA ListLeft ==
    ASSUME pc' \notin WithList, outcome'.kind # "list"
    PROVE  ListInv'
  BY DEF ListInv, WithList, ListIsExact

LEMMA NotAList == Nothing.kind # "list" /\ Throws.kind # "list" /\ \A route : Routes(route).kind # "list"
  BY DEF Nothing, Throws, Routes

LEMMA ListBegins ==
    ASSUME Typed, ListInv, find_network_interfaces, Typed'
    PROVE  ListInv'
<1> USE DEF Typed
<1>1. CASE Ends(Throws)
  BY <1>1, ListLeft, NotAList DEF Ends, WithList
<1>2. CASE ~Ends(Throws)
  <2>1. /\ pc = "idle" /\ pc' = "walk" /\ rest' = listed' /\ seen' = Held
        /\ UNCHANGED <<mac, found, outcome, links>> /\ found = <<>> /\ outcome = Nothing
    BY <1>2 DEF find_network_interfaces
  <2>2. Walked(0)'
    <3>1. rest' = SubSeq(listed', 0 + 1, Len(listed'))
      BY <2>1, SubSeqFull
    <3>2. Covers([i \in 1..0 |-> 0], 0)'
      <4>1. Len(found') = 0 /\ Wanted(0)' = {}
        BY <2>1 DEF Wanted
      <4>2. [i \in 1..0 |-> 0] \in InOrder(0, {})
        BY DEF InOrder
      <4> QED
        BY <4>1, <4>2 DEF Covers, InOrder
    <3> QED
      BY <3>1, <3>2 DEF Walked
  <2>3. Held' = Held
    BY <2>1 DEF Held
  <2>4. 0 \in 0..Len(listed')
    OBVIOUS
  <2> QED
    BY <2>1, <2>2, <2>3, <2>4, NotAList DEF ListInv, ListIsExact, WithList
<1> QED
  BY <1>1, <1>2

\* An entry is behind the walk: it has a token now, unless it is a PACKET one.
LEMMA TokenAdded ==
    ASSUME Typed, NEW k \in 0..Len(listed), Walked(k), rest # <<>>, NEW m, m = k + 1,
           mac # Absent, <<Head(rest).name, mac>> \in seen,
           found' = IF Head(rest).family = "PACKET" THEN found
                                                    ELSE Append(found, Token(Head(rest))),
           rest' = Tail(rest), UNCHANGED <<listed, seen>>
    PROVE  m \in 0..Len(listed) /\ Walked(m)'
<1> USE DEF Typed
<1> DEFINE entry == listed[k + 1]
           n == Len(found)
<1>1. /\ k + 1 \in 1..Len(listed) /\ Head(rest) = entry /\ entry \in Record
      /\ rest' = SubSeq(listed, m + 1, Len(listed))
  BY RestOf DEF Walked
<1>2. k \in Nat /\ n \in Nat
  OBVIOUS
<1>3. PICK at : Covers(at, k)
  BY DEF Walked
<1>4. Wanted(m) = IF entry.family = "PACKET" THEN Wanted(k) ELSE Wanted(k) \cup {k + 1}
  BY <1>2 DEF Wanted
<1>5. CASE entry.family = "PACKET"
  <2>1. found' = found /\ Wanted(m)' = Wanted(k)
    BY <1>1, <1>4, <1>5 DEF Wanted
  <2>2. Covers(at, m)'
    BY <1>3, <2>1 DEF Covers
  <2> QED
    BY <1>1, <2>2 DEF Walked
<1>6. CASE entry.family # "PACKET"
  <2> DEFINE token == Token(entry)
  <2> PICK next : next = [i \in 1..(n + 1) |-> IF i = n + 1 THEN k + 1 ELSE at[i]]
    OBVIOUS
  <2>1. token \in Tokens
    BY <1>1 DEF Token, Tokens, Record
  <2>2. /\ found' = Append(found, token) /\ found' \in Seq(Tokens) /\ Len(found') = n + 1
        /\ \A i \in 1..n : found'[i] = found[i]
        /\ found'[n + 1] = token
    <3> HIDE DEF token
    <3>1. found' = Append(found, token)
      BY <1>1, <1>6 DEF token
    <3> QED
      BY <2>1, <3>1, AppendProperties
  <2>3. next \in InOrder(n + 1, Wanted(k) \cup {k + 1})
    BY <1>2, <1>3, InOrderGrows DEF Covers, Wanted
  <2>4. Wanted(m)' = Wanted(k) \cup {k + 1}
    BY <1>4, <1>6 DEF Wanted
  <2>5. ASSUME NEW i \in 1..(n + 1)
        PROVE  /\ found'[i].name = listed[next[i]].name
               /\ found'[i].family = listed[next[i]].family
               /\ <<found'[i].name, found'[i].mac>> \in seen
               /\ found'[i].mac # Absent
    <3>1. CASE i = n + 1
      <4>1. next[i] = k + 1 /\ found'[i] = token
        BY <2>2, <3>1
      <4>2. token.name = entry.name /\ token.family = entry.family /\ token.mac = mac
        BY DEF Token
      <4> QED
        BY <1>1, <4>1, <4>2
    <3>2. CASE i # n + 1
      <4>1. i \in 1..n /\ next[i] = at[i] /\ found'[i] = found[i]
        BY <1>2, <2>2, <3>2
      <4> QED
        BY <1>3, <4>1 DEF Covers
    <3> QED
      BY <3>1, <3>2
  <2>6. next \in InOrder(Len(found'), Wanted(m)')
    BY <2>2, <2>3, <2>4
  <2>7. \A i \in 1..Len(found') :
           /\ found'[i].name = listed'[next[i]].name
           /\ found'[i].family = listed'[next[i]].family
           /\ <<found'[i].name, found'[i].mac>> \in seen'
           /\ found'[i].mac # Absent
    BY <2>2, <2>5
  <2>8. Covers(next, m)'
    BY <2>6, <2>7 DEF Covers
  <2> QED
    BY <1>1, <2>8 DEF Walked
<1> QED
  BY <1>1, <1>5, <1>6

LEMMA ListWalks ==
    ASSUME Typed, ListInv, Typed', CloseHandle
    PROVE  ListInv'
<1>1. PICK k \in 0..Len(listed) : Walked(k)
  BY DEF ListInv, CloseHandle, WithList
<1>2. Held' \subseteq seen' /\ outcome' = Nothing /\ UNCHANGED <<listed, seen>>
  BY DEF CloseHandle, Held, ListInv, Typed, WithList
<1>3. CASE pc' = "walk"
  <2> PICK m : m = k + 1
    OBVIOUS
  <2>1. m \in 0..Len(listed) /\ Walked(m)'
    BY <1>1, <1>2, <1>3, TokenAdded DEF CloseHandle, ListInv, Typed
  <2> QED
    BY <1>2, <1>3, <2>1, NotAList DEF ListInv, ListIsExact
<1>4. CASE pc' = "failing"
  <2>1. UNCHANGED <<rest, found>>
    BY <1>4 DEF CloseHandle
  <2>2. Walked(k)'
    BY <1>1, <1>2, <2>1, WalkedKeeps
  <2> QED
    BY <1>1, <1>2, <1>4, <2>2, NotAList DEF ListInv, ListIsExact
<1> QED
  BY <1>3, <1>4 DEF CloseHandle

LEMMA ListReturned ==
    ASSUME Typed, ListInv, ReturnList
    PROVE  ListInv'
<1>1. PICK k \in 0..Len(listed) : Walked(k)
  BY DEF ListInv, ReturnList, WithList
<1>2. k = Len(listed)
  BY <1>1, RestOf DEF Walked, ReturnList, Typed
<1>3. PICK at : Covers(at, k)
  BY <1>1 DEF Walked
<1>4. /\ outcome'.kind = "list" /\ outcome'.tokens = found /\ pc' = "returned"
      /\ UNCHANGED <<listed, seen>>
  BY DEF ReturnList, Ends, Lists
<1>5. Wanted(k) = {i \in DOMAIN listed : listed[i].family # "PACKET"} /\ DOMAIN found = 1..Len(found)
  BY <1>2 DEF Wanted, Typed
<1>6. ListIsExact'
  BY <1>3, <1>4, <1>5 DEF ListIsExact, Covers, InOrder
<1> QED
  BY <1>4, <1>6 DEF ListInv, WithList

LEMMA ListOthers ==
    ASSUME Typed, ListInv, Typed',
           MakeHandle \/ AskMac \/ Rethrow \/ Change \/ UNCHANGED vars
    PROVE  ListInv'
<1>1. UNCHANGED <<listed, rest, found>> /\ seen \subseteq seen' /\ (pc' \in WithList => pc \in WithList)
  BY DEF MakeHandle, AskMac, Rethrow, Change, vars, listing, WithList
<1>2. pc' \in WithList => \E k \in 0..Len(listed') : Walked(k)'
  BY <1>1, WalkedKeeps DEF ListInv
<1>3. pc' \in WithList => Held' \subseteq seen'
  <2>1. CASE Change
    <3>1. \A name \in Names : <<name, links'[name]>> \in seen'
      BY <2>1 DEF Change
    <3> QED
      BY <3>1 DEF Held
  <2>2. CASE ~Change
    <3>1. UNCHANGED <<links, seen>>
      BY <2>2 DEF MakeHandle, AskMac, Rethrow, vars, listing
    <3>2. UNCHANGED Held
      BY <3>1 DEF Held
    <3> QED
      BY <1>1, <3>1, <3>2 DEF ListInv
  <2> QED
    BY <2>1, <2>2
<1>4. pc' = "asked" => mac' = Absent \/ <<Head(rest').name, mac'>> \in seen'
  <2>1. CASE AskMac
    <3>3. Head(rest) \in Record
      BY <2>1, HeadTailProperties DEF Typed, AskMac
    <3>1. Head(rest).name \in Names /\ Held \subseteq seen
      BY <2>1, <3>3 DEF ListInv, AskMac, Record, WithList
    <3>2. <<Head(rest).name, links[Head(rest).name]>> \in seen
      BY <3>1 DEF Held
    <3> QED
      BY <2>1, <3>2 DEF AskMac
  <2>2. CASE ~AskMac
    <3>1. pc' = "asked" => pc = "asked" /\ UNCHANGED mac
      BY <2>2 DEF MakeHandle, Rethrow, Change, vars, listing, Ends
    <3> QED
      BY <1>1, <3>1 DEF ListInv
  <2> QED
    BY <2>1, <2>2
<1>5. ListIsExact'
  <2>1. CASE UNCHANGED vars
    <3>1. ListIsExact
      BY DEF ListInv
    <3>2. outcome' = outcome /\ listed' = listed /\ seen' = seen
      BY <2>1 DEF vars, listing
    <3> QED
      BY <3>1, <3>2, ZenonT(30) DEF ListIsExact
  <2>2. CASE ~UNCHANGED vars
    <3>1. outcome' \in {Nothing, Throws}
      BY <2>2 DEF MakeHandle, AskMac, Rethrow, Change, Typed, Ends
    <3> QED
      BY <3>1, NotAList DEF ListIsExact
  <2> QED
    BY <2>1, <2>2
<1> QED
  BY <1>2, <1>3, <1>4, <1>5 DEF ListInv

LEMMA ListApart ==
    ASSUME Typed, ListInv, Typed',
           \/ find_default_route \/ SendRequest \/ Receive \/ ReceiveFails
           \/ CloseKernelSocket \/ Unwind \/ Take
    PROVE  ListInv'
<1>1. pc' \notin WithList
  BY DEF find_default_route, SendRequest, Receive, ReceiveFails, CloseKernelSocket, Unwind, Take,
         Ends, WithList
<1>2. outcome'.kind # "list"
  <2>1. outcome' \in {Nothing, Throws} \/ \E route : outcome' = Routes(route)
    BY DEF find_default_route, SendRequest, Receive, ReceiveFails, CloseKernelSocket, Unwind, Take,
           Ends, Typed
  <2> QED
    BY <2>1, NotAList
<1> QED
  BY <1>1, <1>2, ListLeft

LEMMA StepList == Typed /\ ListInv /\ [Next]_vars => ListInv'
<1> SUFFICES ASSUME Typed, ListInv, [Next]_vars PROVE ListInv'
  OBVIOUS
<1>1. Typed'
  BY StepTyped
<1> QED
  BY <1>1, ListBegins, ListWalks, ListReturned, ListOthers, ListApart DEF Next, Step

\* A list that find_network_interfaces returns is exact: the addresses that
\* getifaddrs listed, each once and in order, without the PACKET entries, each
\* with a hardware address its link had during the call, whatever the links do
\* between the calls on them.
THEOREM ListsAreExact == Spec => []ListIsExact
<1>1. ListInv => ListIsExact
  BY DEF ListInv
<1> QED
  BY InitTyped, StepTyped, InitList, StepList, <1>1, PTL DEF Spec

------------------------------------------------------------------------------
(* The route *)

\* g[k] is the messages of the first k datagrams of the dump.
Joined(g) ==
    /\ g \in [0..Len(dump) -> Seq(Messages)]
    /\ Joins(g, dump) /\ FlattenSeq(dump) = g[Len(dump)]

\* The thread has received k datagrams, whole, unless the buffer is full.
ReadTo(g, k) ==
    /\ Joined(g)
    /\ datagrams = SubSeq(dump, k + 1, Len(dump))
    /\ buffer = g[k] \/ Len(buffer) = BufferSize

RouteInv ==
    /\ buffer \in Seq(Messages) /\ Len(buffer) <= BufferSize
    /\ pc \in {"idle", "ask"} => buffer = <<>>
    /\ pc \in {"ask", "read", "close"} => dump \in Dumps
    /\ pc = "read" => \E k \in 0..Len(dump) : \E g : ReadTo(g, k)
    /\ pc = "close" => \E done \in Messages :
          done.type = "DONE" /\ FlattenSeq(dump) = buffer \o <<done>>
    /\ RouteIsDefault

\* What the walk over the messages of a whole dump returns.
LEMMA DefaultFound ==
    ASSUME NEW received \in Seq(Messages), NEW done \in Messages, done.type = "DONE",
           NEW messages, messages = received \o <<done>>
    PROVE  \/ /\ DefaultRoute(received) = NoRoute
              /\ \A i \in ToZero(messages) :
                    \E j \in DOMAIN messages : j < i /\ ~OfMainTable(messages[j])
           \/ \E i \in ToZero(messages) : /\ \A j \in ToZero(messages) : i <= j
                                          /\ DefaultRoute(received) = RouteOf(messages[i])
<1> DEFINE n == Len(received)
           others == {i \in DOMAIN received : ~OfMainTable(received[i])}
           zeros == {i \in DOMAIN received : received[i].dst = 0 /\ \A j \in others : i < j}
           first == CHOOSE i \in zeros : \A j \in zeros : i <= j
           behind(i) == \E j \in DOMAIN messages : j < i /\ ~OfMainTable(messages[j])
<1>1. /\ n \in Nat /\ DOMAIN received = 1..n /\ DOMAIN messages = 1..(n + 1)
      /\ \A i \in 1..n : messages[i] = received[i]
      /\ messages[n + 1] = done
  <2>1. <<done>> \in Seq(Messages) /\ Len(<<done>>) = 1 /\ <<done>>[1] = done
    OBVIOUS
  <2>2. /\ messages \in Seq(Messages) /\ Len(messages) = n + 1
        /\ \A i \in 1..(n + 1) : messages[i] = IF i <= n THEN received[i] ELSE <<done>>[i - n]
    BY <2>1, ConcatProperties
  <2> QED
    BY <2>1, <2>2
<1>2. ~OfMainTable(done)
  BY MessagesAssumption
<1>3. ASSUME NEW i \in zeros PROVE i \in ToZero(messages) /\ \A j \in others : i < j
  <2>1. i \in 1..n /\ i \notin others /\ received[i].dst = 0
    BY <1>1
  <2> QED
    BY <1>1, <2>1 DEF ToZero
<1>4. ASSUME NEW i \in ToZero(messages) PROVE i \in zeros \/ behind(i)
  <2>1. i \in 1..n /\ OfMainTable(received[i]) /\ received[i].dst = 0
    BY <1>1, <1>2 DEF ToZero
  <2>2. CASE \A j \in others : i < j
    BY <1>1, <2>1, <2>2
  <2>3. CASE \E j \in others : ~(i < j)
    <3>1. PICK j \in others : ~(i < j)
      BY <2>3
    <3>2. j \in 1..n /\ ~OfMainTable(received[j])
      BY <1>1
    <3>3. j # i
      BY <2>1, <3>2
    <3>4. j < i
      BY <1>1, <2>1, <3>1, <3>2, <3>3
    <3> QED
      BY <1>1, <3>2, <3>4
  <2> QED
    BY <2>2, <2>3
<1>5. DefaultRoute(received) = IF zeros = {} THEN NoRoute ELSE RouteOf(received[first])
  BY DEF DefaultRoute
<1>6. CASE zeros = {}
  BY <1>4, <1>5, <1>6
<1>7. CASE zeros # {}
  <2>1. zeros \subseteq Nat /\ zeros \subseteq 1..n
    BY <1>1
  <2>2. \E i \in zeros : \A j \in zeros : i <= j
    <3> HIDE DEF zeros
    <3> QED
      BY <1>7, <2>1, LeastOf
  <2>3. first \in zeros /\ \A j \in zeros : first <= j
    <3> HIDE DEF zeros
    <3> QED
      BY <2>2
  <2> HIDE DEF first
  <2>4. first \in 1..n /\ messages[first] = received[first] /\ first \in ToZero(messages)
    BY <1>1, <1>3, <2>3
  <2>5. ASSUME NEW j \in ToZero(messages) PROVE first <= j
    <3>1. j \in 1..(n + 1)
      BY <1>1 DEF ToZero
    <3>2. CASE j \in zeros
      BY <2>3, <3>2
    <3>3. CASE behind(j)
      <4>1. PICK k \in DOMAIN messages : k < j /\ ~OfMainTable(messages[k])
        BY <3>3
      <4>2. k \in others
        BY <1>1, <3>1, <4>1
      <4>3. first < k /\ k \in 1..n
        BY <1>1, <1>3, <2>3, <4>2
      <4> QED
        BY <1>1, <2>4, <3>1, <4>1, <4>3
    <3> QED
      BY <1>4, <3>2, <3>3
  <2>6. DefaultRoute(received) = RouteOf(messages[first])
    BY <1>5, <1>7, <2>4
  <2> QED
    BY <2>4, <2>5, <2>6
<1> QED
  BY <1>6, <1>7

\* What a receive puts behind the buffer, of a datagram that is not empty.
LEMMA ReceivedIs ==
    ASSUME RouteInv, NEW d \in Seq(Messages), d # <<>>, NEW r, r = Received(d)
    PROVE  \/ r = <<>> /\ Len(buffer) = BufferSize
           \/ /\ Len(buffer) < BufferSize /\ r # <<>> /\ Head(r) = d[1]
              /\ r \in Seq(Messages) /\ Len(buffer \o r) <= BufferSize
              /\ r = d \/ Len(buffer \o r) = BufferSize
<1> DEFINE room == BufferSize - Len(buffer)
<1>1. room \in Nat /\ Len(buffer) \in Nat /\ Len(d) \in Nat /\ Len(d) # 0
  BY BufferAssumption, EmptySeq DEF RouteInv
<1>2. r = IF Len(d) <= room THEN d ELSE SubSeq(d, 1, room)
  BY DEF Received
<1>3. CASE room = 0
  <2>1. r = <<>>
    BY <1>1, <1>2, <1>3, SubSeqEmpty
  <2> QED
    BY <1>1, <1>3, <2>1, BufferAssumption
<1>4. CASE room # 0
  <2>1. r \in Seq(Messages) /\ Len(r) # 0 /\ Len(r) <= room /\ r[1] = d[1] /\ (r = d \/ Len(r) = room)
    <3>1. CASE Len(d) <= room
      BY <1>1, <1>2, <3>1
    <3>2. CASE ~(Len(d) <= room)
      <4>1. r = SubSeq(d, 1, room) /\ room \in 1..Len(d)
        BY <1>1, <1>2, <1>4, <3>2
      <4> HIDE DEF room
      <4> QED
        BY <4>1, SubSeqProperties
    <3> QED
      BY <3>1, <3>2
  <2>2. r # <<>> /\ Head(r) = r[1]
    BY <2>1
  <2>3. Len(buffer \o r) = Len(buffer) + Len(r)
    BY <2>1, ConcatProperties DEF RouteInv
  <2>4. Len(r) \in Nat
    BY <2>1
  <2> QED
    BY <1>1, <1>4, <2>1, <2>2, <2>3, <2>4, BufferAssumption
<1> QED
  BY <1>3, <1>4

\* When a datagram ends the dump.
LEMMA EndsAtDone ==
    ASSUME NEW message \in Messages, message.type # "ERROR"
    PROVE  EndsReading(message) <=> message.type = "DONE"
  BY MessagesAssumption DEF EndsReading, Expected, Sent

LEMMA NotARoute == Nothing.kind # "route" /\ Throws.kind # "route" /\ \A list : Lists(list).kind # "route"
  BY DEF Nothing, Throws, Lists

LEMMA InitRoute == Init => RouteInv
  BY NotARoute, BufferAssumption DEF Init, RouteInv, RouteIsDefault

LEMMA RouteReceives ==
    ASSUME Typed, RouteInv, Typed', Receive
    PROVE  RouteInv'
<1>1. PICK k \in 0..Len(dump) : \E g : ReadTo(g, k)
  BY DEF RouteInv, Receive
<1>2. PICK g : ReadTo(g, k)
  BY <1>1
<1>3. dump \in Dumps /\ dump \in Seq(Seq(Messages)) /\ UNCHANGED <<dump, outcome>> /\ outcome' = Nothing
  BY DumpsAssumption DEF RouteInv, Receive, Typed
<1>4. RouteIsDefault'
  BY <1>3, NotARoute DEF RouteIsDefault
<1> PICK m : m = k + 1
  OBVIOUS
<1>5. /\ m \in 1..Len(dump) /\ Head(datagrams) = dump[m] /\ dump[m] \in Seq(Messages)
      /\ datagrams' = SubSeq(dump, m + 1, Len(dump))
  <2>1. datagrams = SubSeq(dump, k + 1, Len(dump)) /\ datagrams # <<>> /\ datagrams' = Tail(datagrams)
    BY <1>2 DEF ReadTo, Receive
  <2>2. /\ k + 1 \in 1..Len(dump) /\ Head(datagrams) = dump[k + 1] /\ dump[k + 1] \in Seq(Messages)
        /\ Tail(datagrams) = SubSeq(dump, (k + 1) + 1, Len(dump))
    BY <1>3, <2>1, RestOf, SMTT(30)
  <2> QED
    BY <2>1, <2>2
<1>6. /\ dump[m] # <<>>
      /\ dump[m][1].type = "DONE" => m = Len(dump) /\ Len(dump[m]) = 1
  BY <1>3, <1>5, DumpsAssumption
<1>7. /\ g \in [0..Len(dump) -> Seq(Messages)] /\ FlattenSeq(dump) = g[Len(dump)]
      /\ k \in 0..Len(dump) /\ g[k] \in Seq(Messages) /\ g[m] = g[k] \o dump[m]
  <2>1. m - 1 = k
    BY <1>5
  <2> QED
    BY <1>2, <1>5, <2>1 DEF ReadTo, Joined, Joins
<1> DEFINE r == Received(dump[m])
           head == IF r = <<>> THEN Corrupt ELSE Head(r)
<1>8. \/ head.type = "ERROR" /\ pc' = "unwind" /\ UNCHANGED buffer
      \/ /\ head.type # "ERROR"
         /\ buffer' = IF head.type = "DONE" THEN buffer ELSE buffer \o r
         /\ pc' = IF EndsReading(head) THEN "close" ELSE "read"
  BY <1>5 DEF Receive
<1>9. CASE pc' = "unwind"
  <2>1. UNCHANGED buffer
    BY <1>8, <1>9
  <2> QED
    BY <1>4, <1>9, <2>1 DEF RouteInv
<1>10. CASE pc' # "unwind"
  <2>1. /\ Len(buffer) < BufferSize /\ r # <<>> /\ head = dump[m][1] /\ head.type # "ERROR"
        /\ r \in Seq(Messages) /\ Len(buffer \o r) <= BufferSize
        /\ r = dump[m] \/ Len(buffer \o r) = BufferSize
    <3>1. head.type # "ERROR"
      BY <1>8, <1>10
    <3>2. r # <<>>
      BY <3>1 DEF Corrupt
    <3> QED
      BY <1>5, <1>6, <3>1, <3>2, ReceivedIs
  <2> HIDE DEF r, head
  <2>2. buffer = g[k] /\ buffer \in Seq(Messages)
    BY <1>2, <2>1, BufferAssumption DEF ReadTo, RouteInv
  <2>3. head \in Messages /\ dump[m] = <<head>> \o Tail(dump[m])
    BY <1>5, <1>6, <2>1
  <2>4. EndsReading(head) <=> head.type = "DONE"
    BY <2>1, <2>3, EndsAtDone
  <2>5. CASE head.type = "DONE"
    <3>1. dump[m] = <<head>> /\ m = Len(dump)
      BY <1>5, <1>6, <2>1, <2>5
    <3>2. pc' = "close" /\ buffer' = buffer
      BY <1>8, <2>1, <2>4, <2>5
    <3>3. FlattenSeq(dump') = buffer' \o <<head>>
      BY <1>3, <1>7, <2>2, <3>1, <3>2
    <3> QED
      BY <1>3, <1>4, <2>3, <2>5, <3>2, <3>3 DEF RouteInv
  <2>6. CASE head.type # "DONE"
    <3>1. pc' = "read" /\ buffer' = buffer \o r
      BY <1>8, <2>1, <2>4, <2>6
    <3>2. buffer' = g[m] \/ Len(buffer') = BufferSize
      BY <1>7, <2>1, <2>2, <3>1
    <3>3. buffer' \in Seq(Messages) /\ Len(buffer') <= BufferSize
      BY <2>1, <2>2, <3>1, ConcatProperties
    <3>4. ReadTo(g, m)'
      BY <1>2, <1>3, <1>5, <3>2 DEF ReadTo, Joined, Joins
    <3>5. m \in 0..Len(dump')
      BY <1>3, <1>5
    <3> QED
      BY <1>3, <1>4, <3>1, <3>3, <3>4, <3>5 DEF RouteInv
  <2> QED
    BY <2>5, <2>6
<1> QED
  BY <1>9, <1>10

LEMMA RouteReturned ==
    ASSUME Typed, RouteInv, CloseKernelSocket
    PROVE  RouteInv'
<1>1. PICK done \in Messages : done.type = "DONE" /\ FlattenSeq(dump) = buffer \o <<done>>
  BY DEF RouteInv, CloseKernelSocket
<1>2. pc' = "returned" /\ UNCHANGED <<dump, buffer>>
  BY DEF CloseKernelSocket, Ends, reading
<1>3. RouteIsDefault'
  <2>1. CASE Ends(Throws)
    BY <2>1, NotARoute DEF Ends, RouteIsDefault
  <2>2. CASE Ends(Routes(DefaultRoute(buffer)))
    <3>1. outcome'.route = DefaultRoute(buffer)
      BY <2>2 DEF Ends, Routes
    <3> DEFINE messages == FlattenSeq(dump)
               defaults == ToZero(messages)
    <3>2. \/ /\ DefaultRoute(buffer) = NoRoute
             /\ \A i \in defaults : \E j \in DOMAIN messages : j < i /\ ~OfMainTable(messages[j])
          \/ \E i \in defaults : /\ \A j \in defaults : i <= j
                                 /\ DefaultRoute(buffer) = RouteOf(messages[i])
      BY <1>1, DefaultFound DEF RouteInv
    <3> QED
      BY <1>2, <3>1, <3>2 DEF RouteIsDefault
  <2> QED
    BY <2>1, <2>2 DEF CloseKernelSocket
<1> QED
  BY <1>2, <1>3 DEF RouteInv

LEMMA RouteAsked ==
    ASSUME Typed, RouteInv, Typed', find_default_route \/ SendRequest
    PROVE  RouteInv'
<1>1. RouteIsDefault'
  <2>1. outcome' \in {Nothing, Throws}
    BY DEF find_default_route, SendRequest, Typed, Ends
  <2> QED
    BY <2>1, NotARoute DEF RouteIsDefault
<1>2. CASE find_default_route
  <2>1. pc' \in {"ask", "returned"} /\ (pc' = "ask" => dump' \in Dumps)
    BY <1>2 DEF find_default_route, Ends
  <2>2. buffer = <<>> /\ UNCHANGED buffer
    BY <1>2 DEF find_default_route, RouteInv
  <2> QED
    BY <1>1, <2>1, <2>2 DEF RouteInv
<1>3. CASE SendRequest
  <2>1. dump \in Dumps /\ buffer = <<>> /\ UNCHANGED <<dump, buffer>>
    BY <1>3 DEF SendRequest, RouteInv
  <2>2. CASE pc' = "read"
    <3>1. dump \in Seq(Seq(Messages)) /\ Len(dump) \in Nat
      BY <2>1, DumpsAssumption
    <3>2. PICK g \in [0..Len(dump) -> Seq(Messages)] : Joins(g, dump) /\ FlattenSeq(dump) = g[Len(dump)]
      BY <3>1, FlattenJoins
    <3>3. datagrams' = SubSeq(dump, 0 + 1, Len(dump))
      BY <1>3, <2>2, <3>1, SubSeqFull DEF SendRequest
    <3>4. ReadTo(g, 0)'
      BY <2>1, <3>2, <3>3 DEF ReadTo, Joined, Joins
    <3>5. 0 \in 0..Len(dump')
      BY <2>1, <3>1
    <3> QED
      BY <1>1, <2>1, <2>2, <3>4, <3>5 DEF RouteInv
  <2>3. CASE pc' # "read"
    BY <1>1, <1>3, <2>1, <2>3 DEF SendRequest, RouteInv
  <2> QED
    BY <2>2, <2>3
<1> QED
  BY <1>2, <1>3

LEMMA RouteOthers ==
    ASSUME Typed, RouteInv, Typed',
           \/ find_network_interfaces \/ MakeHandle \/ AskMac \/ CloseHandle \/ ReturnList \/ Rethrow
           \/ ReceiveFails \/ Unwind \/ Take \/ Change \/ UNCHANGED vars
    PROVE  RouteInv'
<1>1. \/ pc' \notin {"idle", "ask", "read", "close"} /\ UNCHANGED buffer
      \/ UNCHANGED <<pc, reading>>
      \/ pc' = "idle" /\ buffer' = <<>>
  BY DEF find_network_interfaces, MakeHandle, AskMac, CloseHandle, ReturnList, Rethrow,
         ReceiveFails, Unwind, Take, Change, vars, reading, Ends
<1>2. RouteIsDefault'
  <2>1. CASE UNCHANGED vars
    BY <2>1 DEF RouteInv, RouteIsDefault, vars, reading
  <2>2. CASE ~UNCHANGED vars
    <3>1. outcome' \in {Nothing, Throws} \/ \E list : outcome' = Lists(list)
      BY <2>2 DEF find_network_interfaces, MakeHandle, AskMac, CloseHandle, ReturnList, Rethrow,
                  ReceiveFails, Unwind, Take, Change, Ends, Typed
    <3> QED
      BY <3>1, NotARoute DEF RouteIsDefault
  <2> QED
    BY <2>1, <2>2
<1>3. CASE pc' \notin {"idle", "ask", "read", "close"} /\ UNCHANGED buffer
  BY <1>2, <1>3 DEF RouteInv
<1>4. CASE UNCHANGED <<pc, reading>>
  BY <1>2, <1>4 DEF RouteInv, reading, ReadTo, Joined, Joins
<1>5. CASE pc' = "idle" /\ buffer' = <<>>
  BY <1>2, <1>5, BufferAssumption DEF RouteInv
<1> QED
  BY <1>1, <1>3, <1>4, <1>5

LEMMA StepRoute == Typed /\ RouteInv /\ [Next]_vars => RouteInv'
<1> SUFFICES ASSUME Typed, RouteInv, [Next]_vars PROVE RouteInv'
  OBVIOUS
<1>1. Typed'
  BY StepTyped
<1> QED
  BY <1>1, RouteReceives, RouteReturned, RouteAsked, RouteOthers DEF Next, Step

\* A route that find_default_route returns is the first route to 0.0.0.0 of the
\* main table in the kernel's whole answer, and "no route" is returned only if
\* every such route is behind one of another table: no datagram is dropped, read
\* twice or cut off by the buffer unseen.
THEOREM RoutesAreDefault == Spec => []RouteIsDefault
<1>1. RouteInv => RouteIsDefault
  BY DEF RouteInv
<1> QED
  BY InitTyped, StepTyped, InitRoute, StepRoute, <1>1, PTL DEF Spec
=============================================================================
