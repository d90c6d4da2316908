-------------------------- MODULE BasicSocketProofs --------------------------
(***************************************************************************)
(* Proofs about BasicSocket, for any objects, threads and descriptors: a   *)
(* handle that goes closes a descriptor only if it is the last one, a      *)
(* handle only names a descriptor that was opened for it, until a close()  *)
(* has crossed another's, and none leaks unless two threads give up the    *)
(* last two copies at once.                                                *)
(***************************************************************************)
EXTENDS BasicSocket, TLAPS, FiniteSetTheorems

\* A thread in an operation works on objects of its own.
OwnerInv ==
    \A t \in Threads : pc[t] # "idle" => Owner[on[t]] = t /\ Owner[from[t]] = t

TypeInv == TypeOK /\ OwnerInv

\* Between the test of use_count and the end of the close, nobody has copied.
LastInv ==
    \A t \in Threads : pc[t] \in {"close", "closed"} /\ doing[t] # "close" =>
        \A r \in Sockets : info[r] = info[on[t]] => r = on[t]

-----------------------------------------------------------------------------
\* No step of a thread touches another thread's operation or its object.
LEMMA Frame ==
    ASSUME TypeInv, NEW t \in Threads, Create(t) \/ Operate(t) \/ Step(t),
           NEW u \in Threads, u # t
    PROVE  /\ pc'[u] = pc[u] /\ doing'[u] = doing[u]
           /\ on'[u] = on[u] /\ from'[u] = from[u]
           /\ pc[u] # "idle" => info'[on[u]] = info[on[u]]
<1> USE DEF TypeInv, TypeOK, OwnerInv
<1>1. CASE Create(t)
  BY <1>1, OwnerAssumption DEF Create, construct, make_socket, copy_construct,
     move_construct, CanCreate, CanUse, call
<1>2. CASE Operate(t)
  BY <1>2 DEF Operate, destroy, close, copy_assign, move_assign, Begin, handles
<1>3. CASE Dtor(t)
  BY <1>3 DEF Dtor, Goto, call
<1>4. CASE SysClose(t)
  BY <1>4 DEF SysClose, Goto
<1>5. CASE Closed(t)
  BY <1>5 DEF Closed, Goto, Done, call
<1>6. CASE Finish(t)
  BY <1>6 DEF Finish, Goto, Done
<1> QED
  BY <1>1, <1>2, <1>3, <1>4, <1>5, <1>6 DEF Step

-----------------------------------------------------------------------------
(* Types *)

LEMMA TypeInit == Init => TypeInv
<1> SUFFICES ASSUME Init PROVE TypeInv
  OBVIOUS
<1>1. SomeSocket \in Sockets
  BY SocketsAssumption DEF SomeSocket
<1>2. /\ info \in [Sockets -> Infos \union {"moved", "none"}]
      /\ descriptor \in [Infos -> Descriptors \union {"INVALID"}]
      /\ open \in [Descriptors -> Infos \union {"free"}]
  BY DEF Init
<1>3. /\ pc \in [Threads -> {"idle", "dtor", "close", "closed", "finish"}]
      /\ doing \in [Threads -> {"none", "copy", "move", "destroy", "close"}]
      /\ failed \in [Threads -> BOOLEAN]
  BY DEF Init
<1>4. on \in [Threads -> Sockets] /\ from \in [Threads -> Sockets]
  BY <1>1 DEF Init
<1>5. (\A t \in Threads : pc[t] = "idle") /\ raced \subseteq Infos /\ crossed \in BOOLEAN
  BY DEF Init
<1> QED
  BY <1>2, <1>3, <1>4, <1>5 DEF TypeInv, TypeOK, OwnerInv

\* The types, but for the history and what TypeOK says of each thread's object.
SimpleTypes ==
    /\ info \in [Sockets -> Infos \union {"moved", "none"}]
    /\ descriptor \in [Infos -> Descriptors \union {"INVALID"}]
    /\ open \in [Descriptors -> Infos \union {"free"}]
    /\ pc \in [Threads -> {"idle", "dtor", "close", "closed", "finish"}]
    /\ doing \in [Threads -> {"none", "copy", "move", "destroy", "close"}]
    /\ on \in [Threads -> Sockets]
    /\ from \in [Threads -> Sockets]
    /\ failed \in [Threads -> BOOLEAN]

\* What TypeInv says of one thread's object.
ObjectOf(t) ==
    /\ pc[t] # "idle" => info[on[t]] # "none"
    /\ pc[t] # "idle" => Owner[on[t]] = t /\ Owner[from[t]] = t
    /\ pc[t] \in {"close", "closed"} => info[on[t]] \in Infos

LEMMA TypeInvParts ==
    TypeInv <=> /\ SimpleTypes /\ raced \subseteq Infos
                /\ crossed \in BOOLEAN
                /\ \A t \in Threads : ObjectOf(t)
  BY DEF TypeInv, TypeOK, OwnerInv, SimpleTypes, ObjectOf

LEMMA TypeStep ==
    ASSUME TypeInv, NEW t \in Threads, Create(t) \/ Operate(t) \/ Step(t)
    PROVE  SimpleTypes' /\ ObjectOf(t)'
<1>1. SomeSocket \in Sockets
  BY SocketsAssumption DEF SomeSocket
<1> USE DEF TypeInv, TypeOK, OwnerInv, SimpleTypes, ObjectOf
<1>2. CASE Create(t)
  <2>1. ASSUME NEW s \in Sockets, construct(t, s) PROVE SimpleTypes' /\ ObjectOf(t)'
    BY <2>1 DEF construct, CanCreate, call
  <2>2. ASSUME NEW s \in Sockets, make_socket(t, s) PROVE SimpleTypes' /\ ObjectOf(t)'
    BY <2>2 DEF make_socket, CanCreate, call
  <2>3. ASSUME NEW s \in Sockets, NEW r \in Sockets,
               copy_construct(t, s, r) \/ move_construct(t, s, r)
        PROVE SimpleTypes' /\ ObjectOf(t)'
    BY <2>3 DEF copy_construct, move_construct, CanCreate, call
  <2> QED
    BY <1>2, <2>1, <2>2, <2>3 DEF Create
<1>3. CASE Operate(t)
  <2>1. ASSUME NEW s \in Sockets, NEW r \in Sockets,
               NEW operation \in {"copy", "move", "destroy", "close"},
               NEW step \in {"dtor", "close"},
               Begin(t, operation, s, r, step), step = "close" => NotMoved(s)
        PROVE  SimpleTypes' /\ ObjectOf(t)'
    <3>1. SimpleTypes'
      BY <2>1 DEF Begin, handles
    <3>2. /\ pc'[t] = step /\ on'[t] = s /\ from'[t] = r /\ UNCHANGED info
          /\ Owner[s] = t /\ Owner[r] = t /\ info[s] # "none"
      BY <2>1 DEF Begin, handles, CanUse
    <3>3. ObjectOf(t)'
      BY <2>1, <3>2 DEF NotMoved
    <3> QED
      BY <3>1, <3>3
  <2>2. PICK s \in Sockets : \/ destroy(t, s) \/ close(t, s)
                            \/ \E r \in Sockets : \/ copy_assign(t, s, r)
                                                  \/ move_assign(t, s, r)
    BY <1>3 DEF Operate
  <2>3. CASE destroy(t, s)
    BY <2>1, <2>3 DEF destroy
  <2>4. CASE close(t, s)
    BY <2>1, <2>4 DEF close
  <2>5. ASSUME NEW r \in Sockets, copy_assign(t, s, r) \/ move_assign(t, s, r)
        PROVE  SimpleTypes' /\ ObjectOf(t)'
    BY <2>1, <2>5 DEF copy_assign, move_assign, AssignFirst
  <2> QED
    BY <2>2, <2>3, <2>4, <2>5
<1>4. CASE Dtor(t)
  BY <1>4 DEF Dtor, Goto, call
<1>5. CASE SysClose(t)
  <2>1. /\ pc[t] = "close" /\ pc' = [pc EXCEPT ![t] = "closed"]
        /\ UNCHANGED <<info, descriptor, doing, on, from>>
    BY <1>5 DEF SysClose, Goto
  <2>2. open' \in [Descriptors -> Infos \union {"free"}]
    BY <1>5 DEF SysClose
  <2>3. failed' \in [Threads -> BOOLEAN]
    BY <1>5 DEF SysClose
  <2> QED
    BY <2>1, <2>2, <2>3
<1>6. CASE Closed(t)
  <2>1. /\ info[on[t]] \in Infos /\ UNCHANGED open
        /\ descriptor' \in [Infos -> Descriptors \union {"INVALID"}]
    BY <1>6 DEF Closed, ForgetDescriptor
  <2>2. CASE Done(t) /\ UNCHANGED info
    <3>1. /\ pc' = [pc EXCEPT ![t] = "idle"]
          /\ doing' = [doing EXCEPT ![t] = "none"]
          /\ on' = [on EXCEPT ![t] = SomeSocket]
          /\ from' = [from EXCEPT ![t] = SomeSocket]
          /\ failed' = [failed EXCEPT ![t] = FALSE]
      BY <2>2 DEF Done, Goto
    <3>2. SimpleTypes'
      BY <1>1, <2>1, <2>2, <3>1
    <3>3. ObjectOf(t)'
      BY <3>1
    <3> QED
      BY <3>2, <3>3
  <2>3. CASE /\ Goto(t, "finish") /\ UNCHANGED call
             /\ info' = [info EXCEPT ![on[t]] = "moved"]
    <3>1. SimpleTypes'
      BY <2>1, <2>3 DEF Goto, call
    <3>2. ObjectOf(t)'
      BY <1>6, <2>1, <2>3 DEF Goto, call, Closed
    <3> QED
      BY <3>1, <3>2
  <2> QED
    BY <1>6, <2>2, <2>3 DEF Closed
<1>7. CASE Finish(t)
  <2>1. on[t] \in Sockets /\ from[t] \in Sockets
    OBVIOUS
  <2>2. info' \in [Sockets -> Infos \union {"moved", "none"}]
    BY <1>7, <2>1 DEF Finish
  <2>3. /\ pc' = [pc EXCEPT ![t] = "idle"]
        /\ doing' = [doing EXCEPT ![t] = "none"]
        /\ on' = [on EXCEPT ![t] = SomeSocket]
        /\ from' = [from EXCEPT ![t] = SomeSocket]
        /\ failed' = [failed EXCEPT ![t] = FALSE]
        /\ UNCHANGED <<descriptor, open>>
    BY <1>7 DEF Finish, Goto, Done
  <2> QED
    BY <1>1, <2>2, <2>3
<1> QED
  BY <1>2, <1>3, <1>4, <1>5, <1>6, <1>7 DEF Step

LEMMA RacedStep ==
    ASSUME TypeInv, NEW t \in Threads, Create(t) \/ Operate(t) \/ Step(t)
    PROVE  raced' \subseteq Infos /\ crossed' \in BOOLEAN
<1>1. raced \subseteq Infos /\ crossed \in BOOLEAN
  BY DEF TypeInv, TypeOK
<1>2. CASE Create(t)
  BY <1>1, <1>2 DEF Create, construct, make_socket, copy_construct, move_construct, past
<1>3. CASE Operate(t)
  BY <1>1, <1>3 DEF Operate, destroy, close, copy_assign, move_assign, Begin, past
<1>4. CASE Dtor(t)
  BY <1>1, <1>4 DEF Dtor, LeftByTwo
<1>5. CASE SysClose(t)
  BY <1>1, <1>5 DEF SysClose
<1>6. CASE Closed(t) \/ Finish(t)
  BY <1>1, <1>6 DEF Closed, Finish, past
<1> QED
  BY <1>2, <1>3, <1>4, <1>5, <1>6 DEF Step

LEMMA TypeNext == TypeInv /\ [Next]_vars => TypeInv'
<1> SUFFICES ASSUME TypeInv, [Next]_vars PROVE TypeInv'
  OBVIOUS
<1>1. CASE UNCHANGED vars
  BY <1>1 DEF vars, TypeInv, TypeOK, OwnerInv
<1>2. ASSUME NEW t \in Threads, Create(t) \/ Operate(t) \/ Step(t)
      PROVE  TypeInv'
  <2>1. SimpleTypes' /\ ObjectOf(t)'
    BY <1>2, TypeStep
  <2>2. ASSUME NEW u \in Threads, u # t PROVE ObjectOf(u)'
    BY <1>2, <2>2, Frame, TypeInvParts DEF ObjectOf
  <2>3. (\A u \in Threads : ObjectOf(u)') /\ raced' \subseteq Infos /\ crossed' \in BOOLEAN
    BY <1>2, <2>1, <2>2, RacedStep
  <2> QED
    BY <2>1, <2>3 DEF TypeInv, TypeOK, OwnerInv, SimpleTypes, ObjectOf
<1> QED
  BY <1>1, <1>2 DEF Next

\* Every variable keeps its type; a thread that closes has an info to close.
THEOREM TypeCorrect == Spec => []TypeOK
<1>1. TypeInv => TypeOK
  BY DEF TypeInv
<1> QED
  BY TypeInit, TypeNext, <1>1, PTL DEF Spec

-----------------------------------------------------------------------------
(* The last handle *)

\* use_count is 1 exactly if no other object refers to the info.
LEMMA LastMeans ==
    ASSUME NEW s \in Sockets
    PROVE  use_count(s) = 1 <=> \A r \in Sockets : info[r] = info[s] => r = s
<1> DEFINE S == {r \in Sockets : info[r] = info[s]}
<1>1. s \in S /\ IsFiniteSet(S)
  BY SocketsAssumption, FS_Subset
<1>2. Cardinality(S) = 1 <=> \E x : S = {x}
  BY <1>1, FS_Singleton
<1>3. (\E x : S = {x}) <=> \A r \in S : r = s
  BY <1>1
<1> QED
  BY <1>2, <1>3 DEF use_count

\* A step of thread t gives an object nothing, a new info, or one that an
\* object of t had.
LEMMA NewHandle ==
    ASSUME TypeInv, NEW t \in Threads, Create(t) \/ Operate(t) \/ Step(t),
           NEW r \in Sockets, info'[r] # info[r]
    PROVE  \/ info'[r] \in {"moved", "none"}
           \/ info'[r] \in Infos /\ Fresh(info'[r]) /\ Create(t)
           \/ \E q \in Sockets : Owner[q] = t /\ info'[r] = info[q]
<1> USE DEF TypeInv, TypeOK, OwnerInv
<1>1. CASE Create(t)
  <2>1. ASSUME NEW s \in Sockets, construct(t, s) \/ make_socket(t, s)
        PROVE  info'[r] \in Infos /\ Fresh(info'[r])
    BY <2>1 DEF construct, make_socket
  <2>2. ASSUME NEW s \in Sockets, NEW q \in Sockets,
               copy_construct(t, s, q) \/ move_construct(t, s, q)
        PROVE  info'[r] = "moved" \/ (Owner[q] = t /\ info'[r] = info[q])
    BY <2>2 DEF copy_construct, move_construct, CanUse
  <2> QED
    BY <1>1, <2>1, <2>2 DEF Create
<1>2. CASE Operate(t)
  BY <1>2 DEF Operate, destroy, close, copy_assign, move_assign, Begin, handles
<1>3. CASE Dtor(t)
  BY <1>3 DEF Dtor
<1>4. CASE SysClose(t)
  BY <1>4 DEF SysClose
<1>5. CASE Closed(t)
  BY <1>5 DEF Closed
<1>6. CASE Finish(t)
  <2>1. Owner[from[t]] = t /\ from[t] \in Sockets /\ on[t] \in Sockets
    BY <1>6 DEF Finish
  <2> QED
    BY <1>6, <2>1 DEF Finish
<1> QED
  BY <1>1, <1>2, <1>3, <1>4, <1>5, <1>6 DEF Step

Releasing == {"close", "closed"}

LEMMA LastNext == TypeInv /\ LastInv /\ [Next]_vars => LastInv'
<1> SUFFICES ASSUME TypeInv, LastInv, [Next]_vars PROVE LastInv'
  OBVIOUS
<1>1. CASE UNCHANGED vars
  BY <1>1 DEF vars, LastInv
<1>2. ASSUME NEW t \in Threads, Create(t) \/ Operate(t) \/ Step(t)
      PROVE  LastInv'
  <2> SUFFICES ASSUME NEW u \in Threads, pc'[u] \in Releasing, doing'[u] # "close",
                      NEW r \in Sockets, info'[r] = info'[on'[u]]
               PROVE  r = on'[u]
    BY DEF LastInv, Releasing
  <2> USE DEF TypeInv, TypeOK, OwnerInv
  <2>1. CASE u # t
    <3>1. /\ pc[u] \in Releasing /\ doing[u] # "close" /\ on'[u] = on[u]
          /\ info'[on[u]] = info[on[u]]
      BY <1>2, <2>1, Frame DEF Releasing
    <3>2. info[on[u]] \in Infos /\ Owner[on[u]] = u /\ on[u] \in Sockets
      BY <3>1 DEF Releasing
    <3>3. \A q \in Sockets : info[q] = info[on[u]] => q = on[u]
      BY <3>1 DEF LastInv, Releasing
    <3>4. CASE info'[r] = info[r]
      BY <3>1, <3>3, <3>4
    <3>5. CASE info'[r] # info[r]
      <4>1. info'[r] \notin {"moved", "none"}
        BY <3>1, <3>2, NamesAssumption
      <4>2. ~Fresh(info'[r])
        BY <3>1, <3>2 DEF Fresh
      <4>3. ASSUME NEW q \in Sockets, Owner[q] = t, info'[r] = info[q] PROVE FALSE
        BY <2>1, <3>1, <3>2, <3>3, <4>3
      <4> QED
        BY <1>2, <3>5, <4>1, <4>2, <4>3, NewHandle
    <3> QED
      BY <3>4, <3>5
  <2>2. CASE u = t
    <3>1. CASE Create(t)
      BY <2>2, <3>1 DEF Create, construct, make_socket, copy_construct,
         move_construct, CanCreate, CanUse, call, Releasing
    <3>2. CASE Operate(t)
      BY <2>2, <3>2 DEF Operate, destroy, close, copy_assign, move_assign, Begin,
         AssignFirst, Releasing
    <3>3. CASE Dtor(t)
      <4>1. IsLast(on[t]) /\ UNCHANGED <<info, on>>
        BY <2>2, <3>3 DEF Dtor, Goto, call, Releasing
      <4> QED
        BY <2>2, <4>1, LastMeans DEF IsLast
    <3>4. CASE SysClose(t)
      <4>1. pc[t] = "close" /\ UNCHANGED <<info, doing, on>>
        BY <3>4 DEF SysClose
      <4> QED
        BY <2>2, <4>1 DEF LastInv
    <3>5. CASE Closed(t) \/ Finish(t)
      BY <2>2, <3>5 DEF Closed, Finish, Goto, Done, Releasing
    <3> QED
      BY <1>2, <3>1, <3>2, <3>3, <3>4, <3>5 DEF Step
  <2> QED
    BY <2>1, <2>2
<1> QED
  BY <1>1, <1>2 DEF Next

LEMMA LastInit == Init => LastInv
  BY DEF Init, LastInv

\* A handle that goes or is assigned to closes only what no copy names.
THEOREM LastCloses == Spec => ClosedByTheLast
<1>1. TypeInv /\ LastInv =>
        \A t \in Threads :
            (pc[t] = "close" /\ pc'[t] = "closed" /\ doing[t] # "close")
                => use_count(on[t]) = 1
  BY LastMeans DEF TypeInv, TypeOK, LastInv
<1> QED
  BY <1>1, TypeInit, TypeNext, LastInit, LastNext, PTL DEF Spec, ClosedByTheLast

-----------------------------------------------------------------------------
(* Descriptors and their owners *)

NamesInv == TypeInv /\ NamesOwnDescriptor

\* Crossing close() calls are remembered.
LEMMA CrossedStays ==
    ASSUME TypeInv, [Next]_vars, ~crossed'
    PROVE  ~crossed
<1>1. CASE UNCHANGED vars
  BY <1>1 DEF vars
<1>2. ASSUME NEW t \in Threads, Create(t) \/ Operate(t) \/ Step(t) PROVE ~crossed
  <2>1. CASE Create(t)
    BY <2>1 DEF Create, construct, make_socket, copy_construct, move_construct, past
  <2>2. CASE Operate(t)
    BY <2>2 DEF Operate, destroy, close, copy_assign, move_assign, Begin, past
  <2>3. CASE SysClose(t)
    BY <2>3 DEF SysClose
  <2>4. CASE Dtor(t) \/ Closed(t) \/ Finish(t)
    BY <2>4 DEF Dtor, Closed, Finish, past
  <2> QED
    BY <1>2, <2>1, <2>2, <2>3, <2>4 DEF Step
<1> QED
  BY <1>1, <1>2 DEF Next

\* What keeps the property for an info i whose descriptor does not change.
LEMMA NamesKept ==
    ASSUME NamesInv, ~crossed, NEW t \in Threads, Create(t) \/ Operate(t) \/ Step(t),
           NEW i \in Live, descriptor[i] # "INVALID",
           ~(pc[t] = "closed" /\ info[on[t]] = i)
    PROVE  open[descriptor[i]] = i \/ Closing(i)'
<1>1. CASE open[descriptor[i]] = i
  BY <1>1
<1>2. CASE Closing(i)
  <2>1. PICK u \in Threads : pc[u] = "closed" /\ info[on[u]] = i
    BY <1>2 DEF Closing
  <2>2. u # t
    BY <2>1
  <2>3. pc'[u] = "closed" /\ info'[on'[u]] = i
    BY <2>1, <2>2, Frame DEF NamesInv
  <2> QED
    BY <2>3 DEF Closing
<1> QED
  BY <1>1, <1>2 DEF NamesInv, NamesOwnDescriptor

\* An info that is live after a step was live before it, or is new.
LEMMA LiveAfter ==
    ASSUME TypeInv, NEW t \in Threads, Create(t) \/ Operate(t) \/ Step(t),
           NEW i \in Live'
    PROVE  i \in Infos /\ (i \in Live \/ (Fresh(i) /\ Create(t)))
<1>1. PICK r \in Sockets : info'[r] = i /\ i \in Infos
  BY DEF Live
<1>2. CASE info'[r] = info[r]
  BY <1>1, <1>2 DEF Live
<1>3. CASE info'[r] # info[r]
  <2>1. i \notin {"moved", "none"}
    BY <1>1, NamesAssumption
  <2> QED
    BY <1>1, <1>3, <2>1, NewHandle DEF Live
<1> QED
  BY <1>2, <1>3

LEMMA NamesNext ==
    NamesInv /\ [Next]_vars => NamesOwnDescriptor'
<1> SUFFICES ASSUME NamesInv, [Next]_vars,
                    ~crossed', NEW i \in Live', descriptor'[i] # "INVALID"
             PROVE  open'[descriptor'[i]] = i \/ Closing(i)'
  BY DEF NamesOwnDescriptor
<1>c. ~crossed
  BY CrossedStays DEF NamesInv
<1>1. CASE UNCHANGED vars
  BY <1>1, <1>c DEF vars, NamesInv, NamesOwnDescriptor, Live, Closing
<1>2. ASSUME NEW t \in Threads, Create(t) \/ Operate(t) \/ Step(t)
      PROVE  open'[descriptor'[i]] = i \/ Closing(i)'
  <2>1. i \in Infos /\ (i \in Live \/ (Fresh(i) /\ Create(t)))
    BY <1>2, LiveAfter DEF NamesInv
  <2>2. TypeInv
    BY DEF NamesInv
  <2>3. CASE Create(t)
    <3>1. pc[t] = "idle"
      BY <2>3 DEF Create, construct, make_socket, copy_construct,
         move_construct, CanCreate
    <3>2. ASSUME NEW s \in Sockets, construct(t, s)
          PROVE  open'[descriptor'[i]] = i \/ Closing(i)'
      <4>1. PICK j \in Infos : /\ Fresh(j) /\ info' = [info EXCEPT ![s] = j]
                              /\ descriptor' = [descriptor EXCEPT ![j] = "INVALID"]
                              /\ UNCHANGED open
        BY <3>2 DEF construct
      <4>2. i # j /\ descriptor'[i] = descriptor[i]
        BY <2>1, <2>2, <4>1 DEF TypeInv, TypeOK
      <4>3. i \in Live
        BY <4>1, <4>2, <2>2 DEF Live, TypeInv, TypeOK
      <4> QED
        BY <1>c, <1>2, <3>1, <4>1, <4>2, <4>3, NamesKept
    <3>3. ASSUME NEW s \in Sockets, make_socket(t, s)
          PROVE  open'[descriptor'[i]] = i \/ Closing(i)'
      <4>1. PICK j \in Infos, d \in Descriptors :
                /\ Fresh(j) /\ open[d] = "free"
                /\ info' = [info EXCEPT ![s] = j]
                /\ descriptor' = [descriptor EXCEPT ![j] = d]
                /\ open' = [open EXCEPT ![d] = j]
        BY <3>3 DEF make_socket
      <4>2. CASE i = j
        BY <2>2, <4>1, <4>2 DEF TypeInv, TypeOK
      <4>3. CASE i # j
        <5>1. descriptor'[i] = descriptor[i] /\ descriptor[i] \in Descriptors
          BY <2>1, <2>2, <4>1, <4>3 DEF TypeInv, TypeOK
        <5>2. i \in Live
          BY <4>1, <4>3, <2>2 DEF Live, TypeInv, TypeOK
        <5>3. open[descriptor[i]] = i \/ Closing(i)'
          BY <1>c, <1>2, <3>1, <5>1, <5>2, NamesKept
        <5>4. open[descriptor[i]] = i => descriptor[i] # d
          BY <2>1, <4>1, NamesAssumption
        <5> QED
          BY <2>2, <4>1, <5>1, <5>3, <5>4 DEF TypeInv, TypeOK
      <4> QED
        BY <4>2, <4>3
    <3>4. ASSUME NEW s \in Sockets, NEW r \in Sockets,
                 copy_construct(t, s, r) \/ move_construct(t, s, r)
          PROVE  open'[descriptor'[i]] = i \/ Closing(i)'
      <4>1. /\ UNCHANGED <<descriptor, open>>
            /\ \A q \in Sockets : info'[q] \in {info[q], info[r], "moved"}
        BY <2>2, <3>4 DEF copy_construct, move_construct, TypeInv, TypeOK
      <4>2. i \in Live
        BY <2>1, <4>1, NamesAssumption DEF Live
      <4> QED
        BY <1>c, <1>2, <3>1, <4>1, <4>2, NamesKept
    <3> QED
      BY <2>3, <3>2, <3>3, <3>4 DEF Create
  <2>4. CASE Operate(t)
    <3>1. pc[t] = "idle" /\ UNCHANGED handles
      BY <2>4 DEF Operate, destroy, close, copy_assign, move_assign, Begin, CanUse
    <3>2. i \in Live /\ UNCHANGED <<descriptor, open>>
      BY <3>1 DEF handles, Live
    <3> QED
      BY <1>c, <1>2, <3>1, <3>2, NamesKept
  <2>5. CASE Step(t)
    <3>1. pc[t] # "idle"
      BY <2>5 DEF Step, Dtor, SysClose, Closed, Finish
    <3>2. i \in Live
      BY <2>1, <2>5, <3>1 DEF Create, construct, make_socket, copy_construct,
         move_construct, CanCreate
    <3>3. CASE Dtor(t) \/ Finish(t)
      BY <1>c, <1>2, <3>2, <3>3, NamesKept DEF Dtor, Finish
    <3>4. CASE SysClose(t)
      <4> DEFINE j == info[on[t]]
                 d == descriptor[j]
      <4>1. /\ pc[t] = "close" /\ j \in Infos /\ UNCHANGED <<descriptor, info>>
            /\ on[t] \in Sockets /\ pc'[t] = "closed" /\ on'[t] = on[t]
        BY <2>2, <3>4 DEF SysClose, Goto, TypeInv, TypeOK
      <4>2. j \in Live
        BY <4>1 DEF Live
      <4>3. CASE i = j
        BY <4>1, <4>3 DEF Closing
      <4>4. CASE i # j
        <5>1. open[descriptor[i]] = i \/ Closing(i)'
          BY <1>c, <1>2, <3>2, <4>1, NamesKept
        <5>2. open' = open \/ (d # "INVALID" /\ open' = [open EXCEPT ![d] = "free"])
          BY <3>4 DEF SysClose, IsOpen
        <5>3. CASE d # "INVALID" /\ descriptor[i] = d /\ open[d] = i
          <6>1. Closing(j)
            BY <1>c, <4>2, <4>4, <5>3 DEF NamesInv, NamesOwnDescriptor
          <6>2. PICK u \in Threads : pc[u] = "closed" /\ info[on[u]] = j
            BY <6>1 DEF Closing
          <6>3. u # t
            BY <4>1, <6>2
          <6>4. IsOpen(d)
            BY <2>1, <5>3, NamesAssumption DEF IsOpen
          <6>5. Crosses(t)
            BY <6>2, <6>3, <6>4 DEF Crosses
          <6> QED
            BY <3>4, <6>5 DEF SysClose
        <5>4. CASE ~(d # "INVALID" /\ descriptor[i] = d /\ open[d] = i)
          <6>1. descriptor[i] \in Descriptors
            BY <2>1, <2>2, <4>1 DEF TypeInv, TypeOK
          <6>2. open[descriptor[i]] = i => open'[descriptor[i]] = i
            BY <2>2, <5>2, <5>4, <6>1 DEF TypeInv, TypeOK
          <6> QED
            BY <4>1, <5>1, <6>2
        <5> QED
          BY <5>3, <5>4
      <4> QED
        BY <4>3, <4>4
    <3>5. CASE Closed(t)
      <4>1. /\ info[on[t]] \in Infos /\ UNCHANGED open
            /\ descriptor' = [descriptor EXCEPT ![info[on[t]]] = "INVALID"]
        BY <2>2, <3>5 DEF Closed, ForgetDescriptor, TypeInv, TypeOK
      <4>2. info[on[t]] # i /\ descriptor'[i] = descriptor[i]
        BY <2>1, <2>2, <4>1 DEF TypeInv, TypeOK
      <4> QED
        BY <1>c, <1>2, <3>2, <4>1, <4>2, NamesKept
    <3> QED
      BY <2>5, <3>3, <3>4, <3>5 DEF Step
  <2> QED
    BY <1>2, <2>3, <2>4, <2>5
<1> QED
  BY <1>1, <1>2 DEF Next

LEMMA NamesInit == Init => NamesOwnDescriptor
  BY NamesAssumption DEF Init, NamesOwnDescriptor, Live

LEMMA NamesInvCorrect == Spec => []NamesInv
<1>1. Init => NamesInv
  BY TypeInit, NamesInit DEF NamesInv
<1>2. NamesInv /\ [Next]_vars => NamesInv'
  BY TypeNext, NamesNext DEF NamesInv
<1> QED
  BY <1>1, <1>2, PTL DEF Spec

\* A handle never names a descriptor that was opened for another socket, until
\* one thread's close() has closed what another's had closed before.
THEOREM NamesCorrect == Spec => []NamesOwnDescriptor
<1>1. NamesInv => NamesOwnDescriptor
  BY DEF NamesInv
<1> QED
  BY <1>1, NamesInvCorrect, PTL

-----------------------------------------------------------------------------
(* Leaks *)

\* The object refers to i, and no thread is about to give it up.
Keeper(i, r) == info[r] = i /\ \A u \in Threads : pc[u] = "finish" => on[u] # r

\* A handle that is given up without a close leaves the info to another.
FinishInv ==
    \A t \in Threads : pc[t] = "finish" /\ info[on[t]] \in Infos =>
        info[on[t]] \in raced \/ \E r \in Sockets : Keeper(info[on[t]], r)

\* After its ::close, a socket has no open descriptor.
ClosedInv ==
    \A t \in Threads, d \in Descriptors :
        pc[t] = "closed" /\ open[d] = info[on[t]] => open[d] \in raced

LeakInv == TypeInv /\ LastInv /\ FinishInv /\ ClosedInv /\ NothingLeaks

LEMMA LeakInit == Init => FinishInv /\ ClosedInv /\ NothingLeaks
  BY DEF Init, FinishInv, ClosedInv, NothingLeaks

\* What is on record as raced stays so while anything refers to it.
LEMMA RacedKept ==
    ASSUME TypeInv, NEW t \in Threads, Create(t) \/ Operate(t) \/ Step(t),
           NEW i \in raced, ~Fresh(i)
    PROVE  i \in raced'
<1>1. CASE Create(t)
  BY <1>1 DEF Create, construct, make_socket, copy_construct, move_construct, past
<1>2. CASE Operate(t)
  BY <1>2 DEF Operate, destroy, close, copy_assign, move_assign, Begin, past
<1>3. CASE Dtor(t)
  BY <1>3 DEF Dtor
<1>4. CASE SysClose(t) \/ Closed(t) \/ Finish(t)
  BY <1>4 DEF SysClose, Closed, Finish, past
<1> QED
  BY <1>1, <1>2, <1>3, <1>4 DEF Step

\* While one thread is giving up a handle on i, a keeper stays, is followed by
\* another, or the two threads are on record.
LEMMA KeeperStep ==
    ASSUME TypeInv, LastInv,
           NEW t \in Threads, Create(t) \/ Operate(t) \/ Step(t),
           NEW u \in Threads, u # t, pc[u] = "finish", info[on[u]] \in Infos,
           NEW r \in Sockets, Keeper(info[on[u]], r)
    PROVE  info[on[u]] \in raced' \/ \E q \in Sockets : Keeper(info[on[u]], q)'
<1> DEFINE i == info[on[u]]
<1> USE DEF TypeInv, TypeOK, OwnerInv
<1>1. /\ info[r] = i /\ on[u] # r /\ on[u] \in Sockets
      /\ \A w \in Threads : pc[w] = "finish" => on[w] # r
  BY DEF Keeper
<1>2. \A w \in Threads : w # t => pc'[w] = pc[w] /\ on'[w] = on[w]
  BY Frame
<1>i. info'[on'[u]] = i
  BY Frame
<1>3. ASSUME info'[r] = i, pc'[t] = "finish" => on'[t] # r PROVE Keeper(i, r)'
  BY <1>1, <1>2, <1>3, <1>i DEF Keeper
<1>4. i # "moved" /\ i # "none"
  BY NamesAssumption
<1>5. CASE Create(t)
  <2>1. pc' = pc /\ on' = on /\ pc[t] = "idle"
    BY <1>5 DEF Create, construct, make_socket, copy_construct, move_construct,
       CanCreate, call
  <2>2. PICK s \in Sockets : \/ construct(t, s) \/ make_socket(t, s)
                            \/ \E q \in Sockets : \/ copy_construct(t, s, q)
                                                  \/ move_construct(t, s, q)
    BY <1>5 DEF Create
  <2>3. info[s] = "none" /\ s # r
    BY <1>1, <1>4, <2>2 DEF construct, make_socket, copy_construct, move_construct,
       CanCreate
  <2>4. CASE info'[r] = info[r]
    BY <1>1, <1>3, <2>1, <2>4
  <2>5. CASE info'[r] # info[r]
    <3>1. info'[s] = i
      BY <1>1, <2>2, <2>3, <2>5 DEF construct, make_socket, copy_construct,
         move_construct
    <3>2. \A w \in Threads : pc'[w] = "finish" => on'[w] # s
      BY <2>1, <2>3
    <3> QED
      BY <1>i, <3>1, <3>2 DEF Keeper
  <2> QED
    BY <2>4, <2>5
<1>6. CASE Operate(t)
  <2>1. info' = info /\ pc'[t] # "finish"
    BY <1>6 DEF Operate, destroy, close, copy_assign, move_assign, Begin, handles,
       AssignFirst
  <2> QED
    BY <1>1, <1>3, <2>1
<1>7. CASE Dtor(t)
  <2>1. on' = on /\ on[t] \in Sockets
    BY <1>7 DEF Dtor, call
  <2>2. CASE on[t] # r
    <3>1. info'[r] = info[r]
      BY <1>7, <2>2 DEF Dtor
    <3> QED
      BY <1>1, <1>3, <2>1, <2>2, <3>1
  <2>3. CASE on[t] = r
    <3>1. ~IsLast(on[t])
      BY <1>1, <2>3, LastMeans DEF IsLast
    <3>2. i \in LeftByTwo(t)
      BY <1>1, <2>3, <3>1 DEF LeftByTwo
    <3> QED
      BY <1>7, <3>2 DEF Dtor
  <2> QED
    BY <2>2, <2>3
<1>8. CASE SysClose(t)
  <2>1. info' = info /\ pc'[t] # "finish"
    BY <1>8 DEF SysClose, Goto
  <2> QED
    BY <1>1, <1>3, <2>1
<1>9. CASE Closed(t)
  <2>1. pc[t] = "closed" /\ on[t] \in Sockets
    BY <1>9 DEF Closed
  <2>2. CASE Done(t) /\ UNCHANGED info
    <3>1. pc'[t] = "idle" /\ info' = info
      BY <2>2 DEF Done, Goto
    <3> QED
      BY <1>1, <1>3, <3>1
  <2>3. CASE /\ doing[t] # "close" /\ Goto(t, "finish") /\ UNCHANGED call
             /\ info' = [info EXCEPT ![on[t]] = "moved"]
    <3>1. on[t] # r
      BY <1>1, <2>1, <2>3 DEF LastInv
    <3>2. info'[r] = info[r] /\ on' = on
      BY <2>3, <3>1 DEF call
    <3> QED
      BY <1>1, <1>3, <3>1, <3>2
  <2> QED
    BY <1>9, <2>2, <2>3 DEF Closed
<1>10. CASE Finish(t)
  <2>1. /\ pc[t] = "finish" /\ pc'[t] = "idle"
        /\ on[t] \in Sockets /\ from[t] \in Sockets
    BY <1>10 DEF Finish, Done, Goto
  <2>2. on[t] # r
    BY <1>1, <2>1
  <2>3. CASE info'[r] = info[r]
    BY <1>1, <1>3, <2>1, <2>3
  <2>4. CASE info'[r] # info[r]
    <3>1. info'[on[t]] = i
      BY <1>1, <1>10, <2>1, <2>2, <2>4 DEF Finish
    <3>2. \A w \in Threads : pc'[w] = "finish" => on'[w] # on[t]
      BY <1>2, <2>1
    <3> QED
      BY <1>i, <2>1, <3>1, <3>2 DEF Keeper
  <2> QED
    BY <2>3, <2>4
<1> QED
  BY <1>5, <1>6, <1>7, <1>8, <1>9, <1>10 DEF Step

LEMMA FinishNext == LeakInv /\ [Next]_vars => FinishInv'
<1> SUFFICES ASSUME LeakInv, [Next]_vars,
                    NEW u \in Threads, pc'[u] = "finish", info'[on'[u]] \in Infos
             PROVE  \/ info'[on'[u]] \in raced'
                    \/ \E r \in Sockets : Keeper(info[on[u]], r)'
  BY DEF FinishInv
<1> DEFINE i == info'[on'[u]]
<1>1. TypeInv /\ LastInv /\ FinishInv
  BY DEF LeakInv
<1>2. CASE UNCHANGED vars
  <2>1. i = info[on[u]] /\ pc[u] = "finish" /\ raced' = raced
    BY <1>2 DEF vars
  <2>2. \A r \in Sockets : Keeper(i, r) => Keeper(info[on[u]], r)'
    BY <1>2, <2>1 DEF vars, Keeper
  <2> QED
    BY <1>1, <2>1, <2>2 DEF FinishInv
<1>3. ASSUME NEW t \in Threads, Create(t) \/ Operate(t) \/ Step(t)
      PROVE  i \in raced' \/ \E r \in Sockets : Keeper(info[on[u]], r)'
  <2>1. CASE u # t
    <3>1. pc[u] = "finish" /\ i = info[on[u]]
      BY <1>1, <1>3, <2>1, Frame
    <3>2. ~Fresh(i)
      BY <1>1, <3>1 DEF Fresh, TypeInv, TypeOK
    <3>3. CASE i \in raced
      BY <1>1, <1>3, <3>2, <3>3, RacedKept
    <3>4. CASE i \notin raced
      <4>1. PICK r \in Sockets : Keeper(i, r)
        BY <1>1, <3>1, <3>4 DEF FinishInv
      <4>2. i \in raced' \/ \E q \in Sockets : Keeper(info[on[u]], q)'
        <5>1. info[on[u]] \in raced' \/ \E q \in Sockets : info'[q] = info[on[u]] /\ \A w \in Threads : pc'[w] = "finish" => on'[w] # q
          BY <1>1, <1>3, <2>1, <3>1, <4>1, KeeperStep DEF Keeper
        <5> QED
          BY <3>1, <5>1 DEF Keeper
      <4> QED
        BY <4>2
    <3> QED
      BY <3>3, <3>4
  <2>2. CASE u = t
    <3> USE <2>2
    <3>1. Dtor(t) \/ Closed(t)
      BY <1>1, <1>3 DEF Create, construct, make_socket, copy_construct, move_construct,
         CanCreate, Operate, destroy, close, copy_assign, move_assign, Begin,
         AssignFirst, Step, SysClose, Finish, Done, Goto, TypeInv, TypeOK
    <3>2. i # "moved"
      BY NamesAssumption
    <3>3. ~Closed(t)
      BY <1>1, <3>2 DEF Closed, Done, Goto, call, TypeInv, TypeOK
    <3>4. Dtor(t)
      BY <3>1, <3>3
    <3>5. on' = on /\ on[t] \in Sockets /\ pc' = [pc EXCEPT ![t] = "finish"]
      BY <1>1, <3>4 DEF Dtor, call, Goto, TypeInv, TypeOK
    <3>6. ~IsLast(on[t]) /\ info' = info
      BY <1>1, <3>2, <3>4, <3>5 DEF Dtor, Goto, TypeInv, TypeOK
    <3>7. PICK r \in Sockets : info[r] = info[on[t]] /\ r # on[t]
      BY <3>5, <3>6, LastMeans DEF IsLast
    <3>8. CASE \E w \in Threads \ {t} : pc[w] = "finish" /\ info[on[w]] = i
      <4>1. i \in LeftByTwo(t)
        BY <3>5, <3>6, <3>8 DEF LeftByTwo
      <4> QED
        BY <3>4, <4>1 DEF Dtor
    <3>9. CASE ~\E w \in Threads \ {t} : pc[w] = "finish" /\ info[on[w]] = i
      <4>1. \A w \in Threads : pc'[w] = "finish" => on'[w] # r
        BY <1>1, <3>5, <3>6, <3>7, <3>9 DEF TypeInv, TypeOK
      <4>2. Keeper(info[on[u]], r)'
        BY <3>5, <3>6, <3>7, <4>1 DEF Keeper
      <4> QED
        BY <4>2
    <3> QED
      BY <3>8, <3>9
  <2> QED
    BY <2>1, <2>2
<1> QED
  BY <1>2, <1>3 DEF Next

LEMMA ClosedNext == LeakInv /\ [Next]_vars => ClosedInv'
<1> SUFFICES ASSUME LeakInv, [Next]_vars, NEW u \in Threads, NEW d \in Descriptors,
                    pc'[u] = "closed", open'[d] = info'[on'[u]]
             PROVE  open'[d] \in raced'
  BY DEF ClosedInv
<1>1. TypeInv /\ ClosedInv /\ NothingLeaks
  BY DEF LeakInv
<1>2. CASE UNCHANGED vars
  BY <1>1, <1>2 DEF vars, ClosedInv
<1>3. ASSUME NEW t \in Threads, Create(t) \/ Operate(t) \/ Step(t)
      PROVE  open'[d] \in raced'
  <2>1. CASE u # t
    <3>1. pc[u] = "closed" /\ open'[d] = info[on[u]]
      BY <1>1, <1>3, <2>1, Frame
    <3>2. info[on[u]] \in Infos /\ ~Fresh(info[on[u]])
      BY <1>1, <3>1 DEF Fresh, TypeInv, TypeOK
    <3>3. open[d] = info[on[u]]
      BY <1>1, <1>3, <3>1, <3>2, NamesAssumption DEF Create, construct, make_socket,
         copy_construct, move_construct, Operate, destroy, close, copy_assign,
         move_assign, Begin, handles, Step, Dtor, SysClose, Closed, Finish,
         TypeInv, TypeOK
    <3> QED
      BY <1>1, <1>3, <3>1, <3>2, <3>3, RacedKept DEF ClosedInv
  <2>2. CASE u = t
    <3>1. SysClose(t)
      BY <1>1, <1>3, <2>2 DEF Create, construct, make_socket, copy_construct,
         move_construct, CanCreate, Operate, destroy, close, copy_assign, move_assign,
         Begin, AssignFirst, Step, Dtor, Closed, Finish, Done, Goto, TypeInv, TypeOK
    <3> DEFINE i == info[on[t]]
    <3>2. /\ i \in Infos /\ open'[d] = i /\ raced' = raced
          /\ descriptor[i] \in Descriptors \union {"INVALID"}
      BY <1>1, <2>2, <3>1 DEF SysClose, TypeInv, TypeOK
    <3>3. i # "free"
      BY <3>2, NamesAssumption
    <3>4. open[d] = i /\ ~(IsOpen(descriptor[i]) /\ descriptor[i] = d)
      BY <1>1, <3>1, <3>2, <3>3 DEF SysClose, TypeInv, TypeOK, IsOpen
    <3>5. CASE i \notin raced
      <4>1. descriptor[i] = d
        BY <1>1, <3>3, <3>4, <3>5 DEF NothingLeaks
      <4> QED
        BY <3>3, <3>4, <4>1, NamesAssumption DEF IsOpen
    <3> QED
      BY <3>2, <3>5
  <2> QED
    BY <2>1, <2>2
<1> QED
  BY <1>2, <1>3 DEF Next

LEMMA LeaksNext == LeakInv /\ [Next]_vars => NothingLeaks'
<1> SUFFICES ASSUME LeakInv, [Next]_vars, NEW d \in Descriptors,
                    open'[d] \notin raced' \union {"free"}
             PROVE  open'[d] \in Live' /\ descriptor'[open'[d]] = d
  BY DEF NothingLeaks
<1> DEFINE i == open'[d]
<1>1. TypeInv /\ FinishInv /\ ClosedInv /\ NothingLeaks
  BY DEF LeakInv
<1>2. CASE UNCHANGED vars
  BY <1>1, <1>2 DEF vars, NothingLeaks, Live
<1>3. ASSUME NEW t \in Threads, Create(t) \/ Operate(t) \/ Step(t)
      PROVE  i \in Live' /\ descriptor'[i] = d
  <2> USE DEF TypeInv, TypeOK
  <2>1. CASE \E s \in Sockets : make_socket(t, s) /\ open'[d] # open[d]
    <3>1. PICK s \in Sockets, j \in Infos : /\ info' = [info EXCEPT ![s] = j]
                                          /\ descriptor' = [descriptor EXCEPT ![j] = d]
                                          /\ i = j
      BY <1>1, <2>1, ZenonT(30) DEF make_socket
    <3> QED
      BY <1>1, <3>1 DEF Live
  <2>2. CASE ~\E s \in Sockets : make_socket(t, s) /\ open'[d] # open[d]
    <3>1. i = open[d] /\ i \in Infos /\ ~Fresh(i)
      BY <1>1, <1>3, <2>2 DEF Create, construct, copy_construct, move_construct,
         Operate, destroy, close, copy_assign, move_assign, Begin, handles, Step,
         Dtor, SysClose, Closed, Finish, Fresh
    <3>2. i \notin raced
      BY <1>1, <1>3, <3>1, RacedKept
    <3>3. i \in Live /\ descriptor[i] = d
      BY <1>1, <3>1, <3>2 DEF NothingLeaks
    <3>4. PICK r \in Sockets : info[r] = i
      BY <3>3 DEF Live
    <3>5. ASSUME NEW q \in Sockets, info'[q] = i, descriptor'[i] = descriptor[i]
          PROVE  i \in Live' /\ descriptor'[i] = d
      BY <3>1, <3>3, <3>5 DEF Live
    <3>6. i # "moved" /\ i # "none" /\ d # "INVALID"
      BY <3>1, NamesAssumption
    <3>7. CASE Create(t)
      <4>1. descriptor'[i] = descriptor[i]
        BY <1>1, <3>1, <3>7 DEF Create, construct, make_socket, copy_construct,
           move_construct
      <4>2. CASE info'[r] = info[r]
        BY <3>4, <3>5, <4>1, <4>2
      <4>3. CASE info'[r] # info[r]
        <5>1. PICK s \in Sockets : move_construct(t, s, r)
          BY <1>1, <3>4, <3>6, <3>7, <4>3 DEF Create, construct, make_socket,
             copy_construct, move_construct, CanCreate
        <5>2. info'[s] = i
          BY <1>1, <3>4, <3>6, <5>1 DEF move_construct, CanCreate
        <5> QED
          BY <3>5, <4>1, <5>2
      <4> QED
        BY <4>2, <4>3
    <3>8. CASE Operate(t)
      <4>1. info' = info /\ descriptor' = descriptor
        BY <3>8 DEF Operate, destroy, close, copy_assign, move_assign, Begin, handles
      <4> QED
        BY <3>4, <3>5, <4>1
    <3>9. CASE Dtor(t)
      <4>1. descriptor' = descriptor /\ info'[r] = info[r]
        BY <1>1, <3>3, <3>4, <3>6, <3>9 DEF Dtor
      <4> QED
        BY <3>4, <3>5, <4>1
    <3>10. CASE SysClose(t)
      BY <3>4, <3>5, <3>10 DEF SysClose
    <3>11. CASE Closed(t)
      <4>1. info[on[t]] # i /\ info[on[t]] \in Infos
        BY <1>1, <3>1, <3>2, <3>11 DEF Closed, ClosedInv
      <4>2. info'[r] = info[r] /\ descriptor'[i] = descriptor[i]
        BY <1>1, <3>1, <3>4, <3>11, <4>1 DEF Closed, ForgetDescriptor
      <4> QED
        BY <3>4, <3>5, <4>2
    <3>12. CASE Finish(t)
      <4>1. pc[t] = "finish" /\ descriptor' = descriptor /\ on[t] \in Sockets
        BY <1>1, <3>12 DEF Finish
      <4>2. \E q \in Sockets : info[q] = i /\ q # on[t]
        BY <1>1, <3>1, <3>2, <3>4, <4>1 DEF FinishInv, Keeper
      <4>3. PICK q \in Sockets : info[q] = i /\ q # on[t]
        BY <4>2
      <4>4. CASE info'[q] = info[q]
        BY <3>5, <4>1, <4>3, <4>4
      <4>5. CASE info'[q] # info[q]
        <5>1. info'[on[t]] = i
          BY <1>1, <3>12, <4>1, <4>3, <4>5 DEF Finish
        <5> QED
          BY <3>5, <4>1, <5>1
      <4> QED
        BY <4>4, <4>5
    <3> QED
      BY <1>3, <3>7, <3>8, <3>9, <3>10, <3>11, <3>12 DEF Step
  <2> QED
    BY <2>1, <2>2
<1> QED
  BY <1>2, <1>3 DEF Next

\* Every open descriptor still belongs to an object, unless two threads gave up
\* its last two handles at once.
THEOREM LeaksCorrect == Spec => []NothingLeaks
<1>1. Init => LeakInv
  BY TypeInit, LastInit, LeakInit DEF LeakInv
<1>2. LeakInv /\ [Next]_vars => LeakInv'
  BY TypeNext, LastNext, FinishNext, ClosedNext, LeaksNext DEF LeakInv
<1>3. LeakInv => NothingLeaks
  BY DEF LeakInv
<1> QED
  BY <1>1, <1>2, <1>3, PTL DEF Spec
=============================================================================
