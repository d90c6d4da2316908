---------------------------- MODULE AsyncPipeline ----------------------------
(***************************************************************************)
(* async_pipeline: one worker thread polls the registered sockets and runs *)
(* their callbacks; any thread registers and removes sockets through two   *)
(* queues.                                                                 *)
(*                                                                         *)
(* Two mutexes.  m_thread_mtx_ guards only short sections without a call   *)
(* out, so each of them is one action here.  m_work_mtx_ guards the two    *)
(* queues; the worker holds it through the loops that drain them, which    *)
(* are the worker states "copy" and "remove", and a push waits meanwhile.  *)
(* A call of add_object or remove_object is three steps of its thread:     *)
(* push, count (m_thread_pending_ += 1) and signal (notify_one after the   *)
(* unlock), which interleave with the worker and with other callers.       *)
(* A callback runs on the worker with no mutex held; it may call back into *)
(* the pipeline, here at most once per callback.                           *)
(*                                                                         *)
(* Left out: which events poll reports (the callback's answer is free, so  *)
(* nothing of the pipeline depends on them), negative sockets (add_object  *)
(* and remove_object throw before they touch any state), allocation        *)
(* failure.  Bound: at most MaxQueue requests are queued at a time.        *)
(***************************************************************************)
EXTENDS Integers, FiniteSets, Sequences, SequencesExt, RequestBatch

CONSTANTS
    Sockets,        \* descriptors that may be registered
    Objects,        \* callback objects
    Clients,        \* threads that use the pipeline, the worker excepted
    Worker,         \* the pipeline's own thread
    Errors,         \* errno values a failed system call may leave
    Granularities,  \* arguments of granularity()
    MaxQueue        \* bound on the requests queued at a time

ASSUME SocketsAssumption == Sockets \subseteq Nat
ASSUME ClientsAssumption == IsFiniteSet(Clients) /\ Worker \notin Clients
ASSUME ErrorsAssumption == "SUCCESS" \notin Errors
ASSUME GranularitiesAssumption == Granularities \subseteq Int
ASSUME MaxQueueAssumption == MaxQueue \in Nat \ {0}

VARIABLES
    (* shared state of the object *)
    thread_closing,     \* m_thread_closing_
    thread_has_work,    \* m_thread_has_work_
    thread_pending,     \* m_thread_pending_, a plain int: it may go below 0
    work_handles,       \* m_work_handles_: sockets, negated when ignored
    work_info,          \* m_work_info_: socket -> object
    work_pending,       \* m_work_pending_: add requests <<socket, object>>
    work_removed,       \* m_work_removed_: remove requests
    poll_granularity,   \* m_poll_granularity_
    (* the threads *)
    worker,             \* where the worker is in _M_begin and _M_dowork
    satisfied,          \* its local pending_satisfied
    index,              \* its local i of _M_update_handles, from 1
    ignored,            \* its local ignored of _M_update_handles
    error,              \* its local error of _M_update_handles
    errno,              \* the worker thread's errno
    call,               \* step of each thread's API call in progress
    main,               \* the thread that runs the destructor
    (* history, read by properties only *)
    visited,            \* sockets whose callback ran in the current pass
    answer,             \* the last answer of each registered socket's callback
    poll_failed         \* the last poll returned -1

thread == <<thread_closing, thread_has_work, thread_pending>>
table == <<work_handles, work_info>>
requests == <<work_pending, work_removed>>
shared == <<thread, table, requests, poll_granularity>>
locals == <<satisfied, index, ignored, error, errno>>
history == <<visited, answer, poll_failed>>
vars == <<shared, worker, locals, call, main, history>>

Threads == Clients \union {Worker}

abs(x) == IF x < 0 THEN -x ELSE x

k_default_granularity == 50

\* Faulty variant: the requests counted do not wake the worker.
WakesOnFlagsOnly == thread_closing \/ thread_has_work

\* The condition the worker waits for.
WakeCondition == thread_closing \/ thread_has_work \/ thread_pending > 0

Init ==
    /\ thread_closing = FALSE
    /\ thread_has_work = FALSE
    /\ thread_pending = 0
    /\ work_handles = <<>>
    /\ work_info = <<>>
    /\ work_pending = <<>>
    /\ work_removed = <<>>
    /\ poll_granularity = k_default_granularity
    /\ worker = "check"
    /\ satisfied = 0
    /\ index = 1
    /\ ignored = 0
    /\ error = "SUCCESS"
    /\ errno = "SUCCESS"
    /\ call = [t \in Threads |-> "idle"]
    /\ main = "running"
    /\ visited = {}
    /\ answer = [s \in Sockets |-> "NONE"]
    /\ poll_failed = FALSE

-----------------------------------------------------------------------------
(* Calls into the pipeline, by a client or by the callback that is running. *)

\* The object lives until the join, and a callback makes at most one call.
CanCall(t) ==
    /\ call[t] = "idle"
    /\ main # "joined"
    /\ t \in Clients \/ worker = "callback"

\* The worker's program counter when thread t starts a call.
WorkerAfterCallBy(t) == IF t = Worker THEN "called" ELSE worker

\* m_work_mtx_ is free.
WorkFree == worker \notin {"copy", "remove"}

HasRoom == Len(work_pending) + Len(work_removed) < MaxQueue

add_object(t, s, o) ==
    /\ CanCall(t) /\ WorkFree /\ HasRoom
    /\ work_pending' = Append(work_pending, <<s, o>>)
    /\ call' = [call EXCEPT ![t] = "count"]
    /\ worker' = WorkerAfterCallBy(t)
    /\ UNCHANGED <<thread, table, work_removed, poll_granularity, locals, main,
                   history>>

remove_object(t, s) ==
    /\ CanCall(t) /\ WorkFree /\ HasRoom
    /\ work_removed' = Append(work_removed, s)
    /\ call' = [call EXCEPT ![t] = "count"]
    /\ worker' = WorkerAfterCallBy(t)
    /\ UNCHANGED <<thread, table, work_pending, poll_granularity, locals, main,
                   history>>

\* Faulty variant: a call that forgets notify_one.
ThenReturn(t) == call' = [call EXCEPT ![t] = "idle"]

\* The mutex is released: notify_one is what is left of the call.
ThenSignal(t) == call' = [call EXCEPT ![t] = "signal"]

\* The locked half of _M_notify_pending(1).
CountPending(t) ==
    /\ call[t] = "count"
    /\ thread_pending' = thread_pending + 1
    /\ ThenSignal(t)
    /\ UNCHANGED <<thread_closing, thread_has_work, table, requests,
                   poll_granularity, worker, locals, main, history>>

\* The locked half of notify().
notify(t) ==
    /\ CanCall(t)
    /\ thread_has_work' = TRUE
    /\ ThenSignal(t)
    /\ worker' = WorkerAfterCallBy(t)
    /\ UNCHANGED <<thread_closing, thread_pending, table, requests,
                   poll_granularity, locals, main, history>>

\* Faulty variant: the notification does not reach the worker.
WakeNobody == worker' = worker

\* A notification: the worker, the only one to wait, goes to test its condition.
WakeWorker == worker' = IF worker = "waiting" THEN "check" ELSE worker

\* m_thread_cv_.notify_one(), after the unlock: the last step of a call.
Signal(t) ==
    /\ call[t] = "signal"
    /\ call' = [call EXCEPT ![t] = "idle"]
    /\ WakeWorker
    /\ UNCHANGED <<shared, locals, main, history>>

\* granularity(): a negative argument selects the default.
granularity(t, milliseconds) ==
    /\ CanCall(t)
    /\ poll_granularity' =
            IF milliseconds < 0 THEN k_default_granularity ELSE milliseconds
    /\ worker' = WorkerAfterCallBy(t)
    /\ UNCHANGED <<thread, table, requests, locals, call, main, history>>

-----------------------------------------------------------------------------
(* The worker's loop in _M_begin. *)

\* A step that moves only the worker's program counter.
Goes(from, to) ==
    /\ worker = from
    /\ worker' = to
    /\ UNCHANGED <<shared, locals, call, main, history>>

\* The wait finds its condition false and blocks, releasing the mutex.
Sleep == ~WakeCondition /\ Goes("check", "waiting")

\* A condition variable may wake without a notification.
WakeSpuriously == Goes("waiting", "check")

Stop == thread_closing /\ Goes("check", "done")

StartPass == WakeCondition /\ ~thread_closing /\ Goes("check", "dowork")

-----------------------------------------------------------------------------
(* One pass, _M_dowork. *)

\* Faulty variant: the removals are not counted.
PendingOnly == Len(work_pending)

\* What this pass will have satisfied.
QueuedRequests == Len(work_pending) + Len(work_removed)

\* The worker takes m_work_mtx_ and counts what this pass will satisfy.
LockWork ==
    /\ worker = "dowork"
    /\ satisfied' = QueuedRequests
    /\ worker' = "copy"
    /\ UNCHANGED <<shared, index, ignored, error, errno, call, main, history>>

\* One turn of the loop of _M_copy_pending_to_queue.  A known socket changes
\* its object only: it keeps its place and stays ignored if it is.
CopyToken ==
    /\ worker = "copy"
    /\ work_pending # <<>>
    /\ LET socket == Head(work_pending)[1]
           object == Head(work_pending)[2]
       IN  /\ work_info' = [s \in DOMAIN work_info \union {socket} |->
                                IF s = socket THEN object ELSE work_info[s]]
           /\ IF socket \in DOMAIN work_info
              THEN UNCHANGED work_handles
              ELSE work_handles' = Append(work_handles, socket)
    /\ work_pending' = Tail(work_pending)
    /\ UNCHANGED <<thread, work_removed, poll_granularity, worker, locals,
                   call, main, history>>

CopyDone == work_pending = <<>> /\ Goes("copy", "remove")

\* Faulty variant: an ignored handle, which is negative, is not found.
IsFirstActiveHandleOf(k, socket) ==
    /\ k \in DOMAIN work_handles
    /\ work_handles[k] = socket
    /\ \A j \in 1..(k-1) : work_handles[j] # socket

\* find_if in _M_remove_pending_from_queue: the first handle of this socket.
IsFirstHandleOf(k, socket) ==
    /\ k \in DOMAIN work_handles
    /\ abs(work_handles[k]) = socket
    /\ \A j \in 1..(k-1) : abs(work_handles[j]) # socket

\* Faulty variant: the info of the erased handle stays.
EraseHandleOnly(k) ==
    /\ work_handles' = RemoveAt(work_handles, k)
    /\ answer' = [answer EXCEPT ![abs(work_handles[k])] = "NONE"]
    /\ UNCHANGED work_info

\* Erases the handle at position k and the info of its socket.
EraseHandle(k) ==
    LET socket == abs(work_handles[k])
    IN  /\ work_handles' = RemoveAt(work_handles, k)
        /\ work_info' = Restrict(work_info, DOMAIN work_info \ {socket})
        /\ answer' = [answer EXCEPT ![socket] = "NONE"]

\* One turn of the loop of _M_remove_pending_from_queue.
RemoveToken ==
    /\ worker = "remove"
    /\ work_removed # <<>>
    /\ LET socket == Head(work_removed)
       IN  \/ \E k \in DOMAIN work_handles :
                IsFirstHandleOf(k, socket) /\ EraseHandle(k)
           \/ /\ \A k \in DOMAIN work_handles : ~IsFirstHandleOf(k, socket)
              /\ UNCHANGED <<table, answer>>
    /\ work_removed' = Tail(work_removed)
    /\ UNCHANGED <<thread, work_pending, poll_granularity, worker, locals,
                   call, main, visited, poll_failed>>

\* The worker releases m_work_mtx_.
UnlockWork == work_removed = <<>> /\ Goes("remove", "poll")

\* poll() returns: its status is unused, and only a failure writes errno.
\* _M_update_handles starts by reading errno.
Poll ==
    /\ worker = "poll"
    /\ \/ poll_failed' = FALSE /\ UNCHANGED errno
       \/ poll_failed' = TRUE /\ errno' \in Errors
    /\ error' = errno'
    /\ index' = 1
    /\ ignored' = 0
    /\ worker' = "update"
    /\ UNCHANGED <<shared, satisfied, call, main, visited, answer>>

\* The socket whose callback is next or is running.
CurrentSocket == abs(work_handles[index])

InvokeCallback ==
    /\ worker = "update"
    /\ index <= Len(work_handles)
    /\ worker' = "callback"
    /\ visited' = visited \union {CurrentSocket}
    /\ UNCHANGED <<shared, locals, call, main, answer, poll_failed>>

\* The callback is done with its own calls; its system calls may set errno.
CallbackEnds ==
    /\ worker \in {"callback", "called"}
    /\ call[Worker] = "idle"
    /\ errno' \in Errors \union {errno}
    /\ worker' = "update"

\* Faulty variant: descriptor 0, which has no negation, is not counted.
CountNegative(socket) == ignored + (IF socket < 0 THEN 1 ELSE 0)

\* The count of ignored handles after one answered IGNORE and was negated.
CountIgnored(socket) ==
    ignored + (IF socket = 0 THEN 1 ELSE 0) + (IF socket < 0 THEN 1 ELSE 0)

Ignore ==
    /\ CallbackEnds
    /\ work_handles' = [work_handles EXCEPT ![index] = -CurrentSocket]
    /\ ignored' = CountIgnored(-CurrentSocket)
    /\ answer' = [answer EXCEPT ![CurrentSocket] = "IGNORE"]
    /\ index' = index + 1
    /\ UNCHANGED <<thread, work_info, requests, poll_granularity, satisfied,
                   error, call, main, visited, poll_failed>>

Continue ==
    /\ CallbackEnds
    /\ work_handles' = [work_handles EXCEPT ![index] = CurrentSocket]
    /\ answer' = [answer EXCEPT ![CurrentSocket] = "CONTINUE"]
    /\ index' = index + 1
    /\ UNCHANGED <<thread, work_info, requests, poll_granularity, satisfied,
                   ignored, error, call, main, visited, poll_failed>>

\* Faulty variant: the loop goes on as if nothing had been erased.
IndexPastErased == index + 1

\* i-- and the loop's i++: the next handle has moved to the erased one's place.
IndexAfterQuit == index

\* QUIT erases the handle under the loop's index.
Quit ==
    /\ CallbackEnds
    /\ EraseHandle(index)
    /\ index' = IndexAfterQuit
    /\ UNCHANGED <<thread, requests, poll_granularity, satisfied, ignored,
                   error, call, main, visited, poll_failed>>

\* Faulty variant: one ignored handle is enough to sleep.
NobodyIgnored == ignored = 0

\* _M_update_handles returned false: some callback did not ask to be ignored.
HasWorkLeft == ignored # Len(work_handles)

\* Faulty variant: the requests counted during the pass are forgotten.
NothingPending == 0

PendingLeft == thread_pending - satisfied

\* The end of _M_dowork: it overwrites the flag that notify() sets.  Its
\* locals go out of scope.
FinishPass ==
    /\ worker = "update"
    /\ index > Len(work_handles)
    /\ thread_has_work' = HasWorkLeft
    /\ thread_pending' = PendingLeft
    /\ worker' = "check"
    /\ satisfied' = 0 /\ index' = 1 /\ ignored' = 0 /\ error' = "SUCCESS"
    /\ visited' = {} /\ poll_failed' = FALSE
    /\ UNCHANGED <<thread_closing, table, requests, poll_granularity, errno,
                   call, main, answer>>

-----------------------------------------------------------------------------
(* The destructor, _M_end. *)

BeginEnd ==
    /\ main = "running"
    /\ thread_closing' = TRUE
    /\ main' = "notify"
    /\ UNCHANGED <<thread_has_work, thread_pending, table, requests,
                   poll_granularity, worker, locals, call, history>>

NotifyAll ==
    /\ main = "notify"
    /\ main' = "join"
    /\ WakeWorker
    /\ UNCHANGED <<shared, locals, call, history>>

\* The thread is joined; by then no client may be inside a call.
Join ==
    /\ main = "join"
    /\ worker = "done"
    /\ \A t \in Clients : call[t] = "idle"
    /\ main' = "joined"
    /\ UNCHANGED <<shared, worker, locals, call, history>>

\* The program is over: nothing runs any more.
Terminated == main = "joined" /\ UNCHANGED vars

-----------------------------------------------------------------------------

Caller(t) ==
    \/ \E s \in Sockets, o \in Objects : add_object(t, s, o)
    \/ \E s \in Sockets : remove_object(t, s)
    \/ CountPending(t)
    \/ notify(t)
    \/ Signal(t)
    \/ \E milliseconds \in Granularities : granularity(t, milliseconds)

Pass ==
    \/ LockWork \/ CopyToken \/ CopyDone \/ RemoveToken \/ UnlockWork
    \/ Poll \/ InvokeCallback \/ Ignore \/ Continue \/ Quit \/ FinishPass

Loop == Sleep \/ WakeSpuriously \/ Stop \/ StartPass

End == BeginEnd \/ NotifyAll \/ Join

Next == (\E t \in Threads : Caller(t)) \/ Pass \/ Loop \/ End \/ Terminated

Spec == Init /\ [][Next]_vars

(***************************************************************************)
(* Fairness: the scheduler runs every thread that can take a step.  A call *)
(* once begun goes on; the worker goes on, and its poll comes back because *)
(* its timeout is not negative; callbacks come back (CONTINUE, IGNORE or   *)
(* QUIT), as the pipeline requires of them.  Nothing is assumed of         *)
(* spurious wake-ups or of who starts a call.                              *)
(***************************************************************************)
WorkerStep ==
    \/ LockWork \/ CopyToken \/ CopyDone \/ RemoveToken \/ UnlockWork
    \/ InvokeCallback \/ Ignore \/ Continue \/ Quit \/ FinishPass
    \/ Sleep \/ Stop \/ StartPass
    \/ poll_granularity >= 0 /\ Poll

Fairness ==
    /\ WF_vars(WorkerStep)
    /\ WF_vars(NotifyAll)
    /\ \A t \in Threads : WF_vars(CountPending(t) \/ Signal(t))

FairSpec == Spec /\ Fairness
-----------------------------------------------------------------------------
(* Safety *)

Signed == Sockets \union {-s : s \in Sockets}

\* Types of the shared state, of the threads' locals and of the history.
TypeOK ==
    /\ thread_closing \in BOOLEAN
    /\ thread_has_work \in BOOLEAN
    /\ thread_pending \in Int
    /\ work_handles \in Seq(Signed)
    /\ DOMAIN work_info \subseteq Sockets
    /\ work_info \in [DOMAIN work_info -> Objects]
    /\ work_pending \in Seq(Sockets \X Objects)
    /\ work_removed \in Seq(Sockets)
    /\ poll_granularity \in Nat
    /\ worker \in {"check", "waiting", "dowork", "copy", "remove", "poll",
                   "update", "callback", "called", "done"}
    /\ satisfied \in Nat
    /\ index \in 1..(Len(work_handles) + 1)
    /\ ignored \in Nat
    /\ error \in Errors \union {"SUCCESS"}
    /\ errno \in Errors \union {"SUCCESS"}
    /\ call \in [Threads -> {"idle", "count", "signal"}]
    /\ main \in {"running", "notify", "join", "joined"}
    /\ visited \subseteq Sockets
    /\ answer \in [Sockets -> {"NONE", "CONTINUE", "IGNORE"}]
    /\ poll_failed \in BOOLEAN

\* For every handle there is associated info (async_pipeline.cpp:142), and no
\* socket is polled through two handles, whatever mix of adds, re-adds of an
\* ignored socket, removals and QUIT answers came before.
HandlesMatchInfo ==
    /\ {abs(work_handles[k]) : k \in DOMAIN work_handles} = DOMAIN work_info
    /\ \A j, k \in DOMAIN work_handles :
            abs(work_handles[j]) = abs(work_handles[k]) => j = k

\* A pass calls every registered socket's callback exactly once: none twice,
\* and none skipped when QUIT erases a handle under the loop (lines 156-181).
EveryHandleOncePerPass ==
    worker = "update" =>
        IF index <= Len(work_handles)
        THEN CurrentSocket \notin visited
        ELSE DOMAIN work_info \subseteq visited

Count(step) == Cardinality({t \in Threads : call[t] = step})

\* Requests this pass or a later one will subtract from m_thread_pending_.
Unsubtracted ==
    IF worker \in {"copy", "remove"}
    THEN satisfied
    ELSE satisfied + Len(work_pending) + Len(work_removed)

\* m_thread_pending_ counts the queued requests and those the current pass
\* took, except the ones whose caller has pushed and not counted yet: with it
\* the worker neither sleeps on a counted request nor spins on a served one.
PendingAccounting == thread_pending = Unsubtracted - Count("count")

\* The worker never sleeps through its own wake condition: whoever made it
\* true is still to call notify_one or notify_all (lines 89-108, 232-239).
NoLostWakeup ==
    worker = "waiting" =>
        /\ thread_has_work \/ thread_pending > 0 =>
                \E t \in Threads : call[t] = "signal"
        /\ thread_closing => main = "notify"

\* A request can be queued beside a sleeping worker only while its caller, or
\* another one whose signal will do, is still inside add_object,
\* remove_object or notify.
NoLostRequest ==
    worker = "waiting" /\ Len(work_pending) + Len(work_removed) > 0 =>
        \E t \in Threads : call[t] # "idle"

AllIgnored == \A s \in DOMAIN work_info : answer[s] = "IGNORE"

\* The worker goes to sleep only when every registered callback last asked to
\* be ignored, descriptor 0 included (line 168), and a pass after which all
\* of them did lets it sleep.
SleepsIffAllIgnored ==
    /\ worker = "waiting" => AllIgnored
    /\ worker = "update" /\ index > Len(work_handles) =>
            (ignored = Len(work_handles) <=> AllIgnored)

\* An error reaches a callback only from a poll that failed in this pass.  The
\* code does not have this property: the status of poll is unused (line 199)
\* and errno, which success does not clear, is read in its place (line 155).
ErrorIsOfThisPoll ==
    worker = "callback" /\ error # "SUCCESS" => poll_failed

-----------------------------------------------------------------------------
(* Refinement *)

Draining == worker \in {"copy", "remove"}

Registry == INSTANCE AsyncRegistry WITH
    registry <- IF Draining THEN AfterBatch(work_info, work_pending, work_removed)
                            ELSE work_info,
    adds     <- IF Draining THEN <<>> ELSE work_pending,
    removes  <- IF Draining THEN <<>> ELSE work_removed,
    current  <- IF worker \in {"callback", "called"}
                THEN <<CurrentSocket, work_info[CurrentSocket]>>
                ELSE <<>>,
    NoCall   <- <<>>

\* The pipeline implements the registry: requests take effect batch by batch,
\* when the worker takes m_work_mtx_, and callbacks go to the registered object.
ImplementsRegistry == Registry!Spec

-----------------------------------------------------------------------------
(* Liveness *)

\* A queued request is taken up by a pass, unless the pipeline shuts down.
RequestsServed ==
    (work_pending # <<>> \/ work_removed # <<>>)
        ~> (Draining \/ thread_closing)

\* A notify() that finds the worker between two passes starts a pass.
NotifyServed ==
    (thread_has_work /\ worker \in {"check", "waiting"})
        ~> (worker = "dowork" \/ thread_closing)

\* A socket that did not ask to be ignored is called in the next pass, which
\* comes without anyone's help.
NotIgnoredIsCalled ==
    \A s \in Sockets :
        (s \in DOMAIN work_info /\ answer[s] # "IGNORE" /\ worker = "check")
            ~> \/ worker = "callback" /\ CurrentSocket = s
               \/ s \notin DOMAIN work_info
               \/ thread_closing

\* Once the destructor asks for it, the worker ends.
ShutdownCompletes == thread_closing ~> (worker = "done")
=============================================================================
