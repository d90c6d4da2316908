----------------------------- MODULE BasicSocket -----------------------------
(***************************************************************************)
(* basic_socket: handles that share, through a shared_ptr, one info block  *)
(* with the descriptor of a socket.  The last handle to go closes it, and  *)
(* so may any handle by close().                                           *)
(*                                                                         *)
(* The kernel (external) gives a free descriptor to each new socket, so a  *)
(* closed one comes back for another socket.  A handle is used by one      *)
(* thread; its copies may belong to others, and the shared_ptr's counter   *)
(* is atomic.  The destructor, the assignments and close() take several    *)
(* steps, between which other threads run: the test of use_count, the      *)
(* system call, and what is then written to the info and to the handle.    *)
(* A copy or a move is made by the thread of its source, before the        *)
(* thread of the new handle begins to use it.                              *)
(*                                                                         *)
(* Left out: the other fields of the info, which follow its descriptor;    *)
(* the calls that only pass the descriptor on; calls that throw before     *)
(* they change anything (on a handle that was moved from, or when no       *)
(* socket can be opened).  No block of memory is modelled: an id of Infos  *)
(* is free again when no handle refers to it and nothing is open for it.   *)
(***************************************************************************)
EXTENDS Naturals, FiniteSets

CONSTANTS
    Sockets,        \* basic_socket objects of the program
    Threads,
    Owner,          \* the thread that uses each object
    Descriptors,    \* what the kernel has to give
    Infos           \* basic_socket_info blocks

ASSUME OwnerAssumption == Owner \in [Sockets -> Threads]
ASSUME SocketsAssumption == IsFiniteSet(Sockets) /\ Sockets # {}
ASSUME NamesAssumption ==
    /\ {"moved", "none"} \intersect Infos = {} /\ "free" \notin Infos
    /\ "INVALID" \notin Descriptors

VARIABLES
    info,           \* m_info_ of each object; "moved" if null, "none" if no object
    descriptor,     \* the descriptor field of each info
    open,           \* the info each descriptor was opened for, or "free"
    pc,             \* each thread's step inside an operation
    doing,          \* the operation
    on,             \* the object it is on
    from,           \* the object it copies or moves from
    failed,         \* ::close failed
    raced,          \* history: infos whose last copies two threads gave up at once
    crossed         \* history: a close() has closed what another had closed before

handles == <<info, descriptor, open>>
call == <<doing, on, from, failed>>
past == <<raced, crossed>>
vars == <<info, descriptor, open, pc, doing, on, from, failed, raced, crossed>>

SomeSocket == CHOOSE s \in Sockets : TRUE

Init ==
    /\ info = [s \in Sockets |-> "none"]
    /\ descriptor = [i \in Infos |-> "INVALID"]
    /\ open = [d \in Descriptors |-> "free"]
    /\ pc = [t \in Threads |-> "idle"]
    /\ doing = [t \in Threads |-> "none"]
    /\ on = [t \in Threads |-> SomeSocket]
    /\ from = [t \in Threads |-> SomeSocket]
    /\ failed = [t \in Threads |-> FALSE]
    /\ raced = {}
    /\ crossed = FALSE

-----------------------------------------------------------------------------
use_count(s) == Cardinality({r \in Sockets : info[r] = info[s]})

Fresh(i) == (\A s \in Sockets : info[s] # i) /\ (\A d \in Descriptors : open[d] # i)

\* An object that thread t may create, or hand to the thread of s.
CanCreate(t, s) ==
    /\ pc[t] = "idle" /\ pc[Owner[s]] = "idle"
    /\ info[s] = "none"

\* Thread t may use its object s.
CanUse(t, s) == pc[t] = "idle" /\ Owner[s] = t /\ info[s] # "none"

\* basic_socket(): an info with no descriptor.
construct(t, s) ==
    /\ Owner[s] = t /\ CanCreate(t, s)
    /\ \E i \in Infos :
        /\ Fresh(i)
        /\ info' = [info EXCEPT ![s] = i]
        /\ descriptor' = [descriptor EXCEPT ![i] = "INVALID"]
        /\ raced' = raced \ {i}
    /\ UNCHANGED <<open, pc, call, crossed>>

\* make_socket() and accept() open a descriptor for the object they return.
make_socket(t, s) ==
    /\ Owner[s] = t /\ CanCreate(t, s)
    /\ \E i \in Infos, d \in Descriptors :
        /\ Fresh(i) /\ open[d] = "free"
        /\ info' = [info EXCEPT ![s] = i]
        /\ descriptor' = [descriptor EXCEPT ![i] = d]
        /\ open' = [open EXCEPT ![d] = i]
        /\ raced' = raced \ {i}
    /\ UNCHANGED <<pc, call, crossed>>

copy_construct(t, s, r) ==
    /\ CanCreate(t, s) /\ CanUse(t, r) /\ info[r] # "moved"
    /\ info' = [info EXCEPT ![s] = info[r]]
    /\ UNCHANGED <<descriptor, open, pc, call, past>>

move_construct(t, s, r) ==
    /\ CanCreate(t, s) /\ CanUse(t, r) /\ info[r] # "moved"
    /\ info' = [info EXCEPT ![s] = info[r], ![r] = "moved"]
    /\ UNCHANGED <<descriptor, open, pc, call, past>>

-----------------------------------------------------------------------------
(* Operations of several steps. *)

Begin(t, operation, s, r, step) ==
    /\ CanUse(t, s) /\ CanUse(t, r)
    /\ doing' = [doing EXCEPT ![t] = operation]
    /\ on' = [on EXCEPT ![t] = s]
    /\ from' = [from EXCEPT ![t] = r]
    /\ failed' = [failed EXCEPT ![t] = FALSE]
    /\ pc' = [pc EXCEPT ![t] = step]
    /\ UNCHANGED <<handles, past>>

\* Faulty variant: what the target held is not given up.
AssignOver == "finish"

\* Both assignments run _M_dtor on their target first.
AssignFirst == "dtor"

\* operator=, from an object of the same thread, possibly the same object.
copy_assign(t, s, r) == Begin(t, "copy", s, r, AssignFirst)
move_assign(t, s, r) == Begin(t, "move", s, r, AssignFirst)

destroy(t, s) == Begin(t, "destroy", s, s, "dtor")

\* Faulty variant: a handle that was moved from is not told apart.
MayBeMoved(s) == TRUE

\* ASSERT_MOVED lets the call go on.
NotMoved(s) == info[s] # "moved"

close(t, s) == NotMoved(s) /\ Begin(t, "close", s, s, "close")

Goto(t, step) == pc' = [pc EXCEPT ![t] = step]

\* The operation is over; its arguments mean nothing any more.
Done(t) ==
    /\ Goto(t, "idle")
    /\ doing' = [doing EXCEPT ![t] = "none"]
    /\ on' = [on EXCEPT ![t] = SomeSocket]
    /\ from' = [from EXCEPT ![t] = SomeSocket]
    /\ failed' = [failed EXCEPT ![t] = FALSE]

\* Faulty variant: any handle closes the descriptor as it goes.
HasReferences(s) == use_count(s) >= 1

\* The object is the last to refer to its info.
IsLast(s) == use_count(s) = 1

\* The info that thread t gives up a handle on while another thread, which has
\* tested use_count too, is about to give up its own.
LeftByTwo(t) ==
    {i \in Infos : i = info[on[t]] /\ ~IsLast(on[t]) /\
        \E u \in Threads \ {t} : pc[u] = "finish" /\ info[on[u]] = i}

\* _M_dtor: only the last handle closes, and it forgets its info.
Dtor(t) ==
    /\ pc[t] = "dtor"
    /\ LET s == on[t]
       IN  IF info[s] = "moved" \/ ~IsLast(s)
           THEN Goto(t, "finish") /\ UNCHANGED info
           ELSE IF descriptor[info[s]] # "INVALID"
           THEN Goto(t, "close") /\ UNCHANGED info
           ELSE Goto(t, "finish") /\ info' = [info EXCEPT ![s] = "moved"]
    /\ raced' = raced \union LeftByTwo(t)
    /\ UNCHANGED <<descriptor, open, call, crossed>>

IsOpen(d) == d # "INVALID" /\ open[d] # "free"

\* Two threads close one socket: thread t closes what another had closed and
\* not yet forgotten, when the kernel has given it to another socket.
Crosses(t) ==
    /\ IsOpen(descriptor[info[on[t]]])
    /\ \E u \in Threads \ {t} : pc[u] = "closed" /\ info[on[u]] = info[on[t]]

\* ::close, on whatever the info's descriptor is by now.  On Linux an open
\* descriptor is free afterwards even if the call reports an error; one that
\* is not open gives EBADF.
SysClose(t) ==
    /\ pc[t] = "close"
    /\ LET d == descriptor[info[on[t]]]
       IN  \/ /\ IsOpen(d)
              /\ open' = [open EXCEPT ![d] = "free"]
              /\ \E f \in BOOLEAN : failed' = [failed EXCEPT ![t] = f]
           \/ /\ ~IsOpen(d)
              /\ failed' = [failed EXCEPT ![t] = TRUE]
              /\ UNCHANGED open
    /\ crossed' = (crossed \/ Crosses(t))
    /\ Goto(t, "closed")
    /\ UNCHANGED <<info, descriptor, doing, on, from, raced>>

\* Faulty variant: the closed descriptor is not forgotten.
KeepDescriptor(i) == UNCHANGED descriptor

ForgetDescriptor(i) == descriptor' = [descriptor EXCEPT ![i] = "INVALID"]

\* The rest of close(), and of the _M_dtor that called it.  A failure throws:
\* out of close() and of the assignments; the destructor catches it.
Closed(t) ==
    /\ pc[t] = "closed"
    /\ ForgetDescriptor(info[on[t]])
    /\ \/ /\ doing[t] = "close" \/ (doing[t] # "destroy" /\ failed[t])
          /\ Done(t)
          /\ UNCHANGED info
       \/ /\ doing[t] = "destroy" \/ (doing[t] # "close" /\ ~failed[t])
          /\ Goto(t, "finish")
          /\ info' = [info EXCEPT ![on[t]] = "moved"]
          /\ UNCHANGED call
    /\ UNCHANGED <<open, past>>

\* ~shared_ptr, _M_copy or _M_move; the last two throw if there is nothing to
\* take, which after a self-assignment is the object's own doing.
Finish(t) ==
    /\ pc[t] = "finish"
    /\ LET s == on[t]
           r == from[t]
       IN  \/ doing[t] = "destroy" /\ info' = [info EXCEPT ![s] = "none"]
           \/ /\ doing[t] = "copy"
              /\ info' = IF info[r] = "moved" THEN info
                         ELSE [info EXCEPT ![s] = info[r]]
           \/ /\ doing[t] = "move"
              /\ info' = IF info[r] = "moved" THEN info
                         ELSE [info EXCEPT ![s] = info[r], ![r] = "moved"]
    /\ Done(t)
    /\ UNCHANGED <<descriptor, open, past>>

-----------------------------------------------------------------------------
Create(t) ==
    \E s \in Sockets :
        \/ construct(t, s) \/ make_socket(t, s)
        \/ \E r \in Sockets : copy_construct(t, s, r) \/ move_construct(t, s, r)

Operate(t) ==
    \E s \in Sockets :
        \/ destroy(t, s) \/ close(t, s)
        \/ \E r \in Sockets : copy_assign(t, s, r) \/ move_assign(t, s, r)

Step(t) == Dtor(t) \/ SysClose(t) \/ Closed(t) \/ Finish(t)

Next == \E t \in Threads : Create(t) \/ Operate(t) \/ Step(t)

Spec == Init /\ [][Next]_vars

-----------------------------------------------------------------------------
(* Properties *)

TypeOK ==
    /\ info \in [Sockets -> Infos \union {"moved", "none"}]
    /\ descriptor \in [Infos -> Descriptors \union {"INVALID"}]
    /\ open \in [Descriptors -> Infos \union {"free"}]
    /\ pc \in [Threads -> {"idle", "dtor", "close", "closed", "finish"}]
    /\ doing \in [Threads -> {"none", "copy", "move", "destroy", "close"}]
    /\ on \in [Threads -> Sockets]
    /\ from \in [Threads -> Sockets]
    /\ failed \in [Threads -> BOOLEAN]
    /\ raced \subseteq Infos /\ crossed \in BOOLEAN
    /\ \A t \in Threads : pc[t] # "idle" => info[on[t]] # "none"
    /\ \A t \in Threads : pc[t] \in {"close", "closed"} => info[on[t]] \in Infos

Live == {info[s] : s \in Sockets} \intersect Infos

\* Info i is between ::close and the write that forgets the descriptor.
Closing(i) == \E t \in Threads : pc[t] = "closed" /\ info[on[t]] = i

\* A handle only ever names a descriptor that was opened for it: no copy keeps
\* a closed one, which the kernel may have given to another socket since.  It
\* holds until two threads close() one socket at once and another socket gets
\* its descriptor between their system calls: the second then closes that one.
NamesOwnDescriptor ==
    crossed \/ \A i \in Live :
        descriptor[i] # "INVALID" => open[descriptor[i]] = i \/ Closing(i)

\* Every open descriptor still belongs to some object, whatever copies, moves,
\* self-assignments and failed closes came before.  One thing leaks: two threads
\* that give up the last two copies, each having counted the other's.
NothingLeaks ==
    \A d \in Descriptors : open[d] \notin raced \union {"free"} =>
        open[d] \in Live /\ descriptor[open[d]] = d

\* A handle that goes, or is assigned to, never closes the descriptor under a
\* copy, whichever threads the copies belong to.
ClosedByTheLast ==
    [][\A t \in Threads :
        (pc[t] = "close" /\ pc'[t] = "closed" /\ doing[t] # "close")
            => use_count(on[t]) = 1]_vars
=============================================================================
