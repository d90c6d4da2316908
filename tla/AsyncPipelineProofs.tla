------------------------- MODULE AsyncPipelineProofs -------------------------
(***************************************************************************)
(* Proofs of the safety properties of AsyncPipeline, for any sets of       *)
(* sockets, objects and clients.                                           *)
(***************************************************************************)
EXTENDS AsyncPipeline, VectorLemmas, TLAPS, FiniteSetTheorems

-----------------------------------------------------------------------------
(* Counting threads *)

\* The threads at a given step of a call are finitely many.
LEMMA CountingFinite ==
    ASSUME NEW f, NEW step
    PROVE  /\ IsFiniteSet({t \in Threads : f[t] = step})
           /\ Cardinality({t \in Threads : f[t] = step}) \in Nat
<1>1. IsFiniteSet(Threads)
  BY ClientsAssumption, FS_AddElement, FS_Union, FS_Singleton DEF Threads
<1> QED
  BY <1>1, FS_Subset, FS_CardinalityType

-----------------------------------------------------------------------------
(* Types *)

\* What holds of the worker's locals outside the code that uses them; without
\* it index could fall off a vector that the loops of the drain shorten.
LocalsInScope ==
    /\ worker \notin {"update", "callback", "called"} => index = 1 /\ visited = {}
    /\ worker \in {"callback", "called"} => index <= Len(work_handles)
    /\ worker \in {"check", "waiting", "dowork", "done"} => satisfied = 0
    /\ worker = "remove" => work_pending = <<>>

TypeInv == TypeOK /\ LocalsInScope

LEMMA TypeInvInit == Init => TypeInv
<1> SUFFICES ASSUME Init PROVE TypeInv
  OBVIOUS
<1>1. DOMAIN work_info = {} /\ work_info \in [{} -> Objects]
  BY DEF Init
<1>2. /\ work_handles \in Seq(Signed) /\ Len(work_handles) = 0
      /\ work_pending \in Seq(Sockets \X Objects)
      /\ work_removed \in Seq(Sockets)
  BY DEF Init
<1>3. /\ thread_closing \in BOOLEAN /\ thread_has_work \in BOOLEAN
      /\ poll_failed \in BOOLEAN
  BY DEF Init
<1>4. /\ call \in [Threads -> {"idle", "count", "signal"}]
      /\ answer \in [Sockets -> {"NONE", "CONTINUE", "IGNORE"}]
  BY DEF Init
<1>5. /\ thread_pending \in Int /\ satisfied \in Nat /\ ignored \in Nat
      /\ index \in 1..(Len(work_handles) + 1) /\ poll_granularity \in Nat
  BY <1>2 DEF Init, k_default_granularity
<1>6. TypeOK
  BY <1>1, <1>2, <1>3, <1>4, <1>5 DEF Init, TypeOK
<1> QED
  BY <1>6 DEF Init, TypeInv, LocalsInScope

\* A call moves the worker's program counter only when its own callback makes it.
LEMMA CallerMovesWorker ==
    ASSUME NEW t \in Threads, CanCall(t), worker' = WorkerAfterCallBy(t)
    PROVE  \/ worker' = worker
           \/ worker = "callback" /\ worker' = "called"
BY ClientsAssumption DEF CanCall, WorkerAfterCallBy, Threads

\* The socket of a handle is one of the sockets that may be registered.
LEMMA AbsOfSigned ==
    ASSUME NEW h \in Signed
    PROVE  abs(h) \in Sockets /\ -abs(h) \in Signed /\ abs(-abs(h)) = abs(h)
<1>1. PICK s \in Sockets : h = s \/ h = -s
  BY DEF Signed
<1>2. s \in Nat
  BY SocketsAssumption
<1>3. abs(s) = s /\ abs(-s) = s
  BY <1>2 DEF abs
<1>4. abs(h) = s
  BY <1>1, <1>3
<1>5. -s \in Signed
  BY DEF Signed
<1> QED
  BY <1>3, <1>4, <1>5

LEMMA EraseTypes ==
    ASSUME TypeOK, NEW k \in DOMAIN work_handles, EraseHandle(k)
    PROVE  /\ work_handles' \in Seq(Signed)
           /\ Len(work_handles') = Len(work_handles) - 1
           /\ DOMAIN work_info' \subseteq Sockets
           /\ work_info' \in [DOMAIN work_info' -> Objects]
           /\ answer' \in [Sockets -> {"NONE", "CONTINUE", "IGNORE"}]
<1>1. k \in 1..Len(work_handles) /\ work_handles \in Seq(Signed)
  BY DEF TypeOK
<1>2. work_handles' \in Seq(Signed) /\ Len(work_handles') = Len(work_handles) - 1
  BY <1>1, RemoveAtProperties DEF EraseHandle
<1>3. abs(work_handles[k]) \in Sockets
  BY <1>1, AbsOfSigned
<1> QED
  BY <1>2, <1>3 DEF EraseHandle, TypeOK, Restrict

LEMMA TypeInvNext == TypeInv /\ [Next]_vars => TypeInv'
<1> SUFFICES ASSUME TypeInv, [Next]_vars PROVE TypeInv'
  OBVIOUS
<1> USE DEF TypeInv
<1>1. ASSUME NEW t \in Threads, Caller(t) PROVE TypeInv'
  <2>1. ASSUME NEW s \in Sockets, NEW o \in Objects, add_object(t, s, o)
        PROVE  TypeInv'
    <3>1. work_pending' \in Seq(Sockets \X Objects)
      BY <2>1, AppendProperties DEF add_object, TypeOK
    <3> QED
      BY <2>1, <3>1, CallerMovesWorker DEF add_object, WorkFree, TypeOK,
         LocalsInScope, thread, table, locals, history
  <2>2. ASSUME NEW s \in Sockets, remove_object(t, s) PROVE TypeInv'
    <3>1. work_removed' \in Seq(Sockets)
      BY <2>2, AppendProperties DEF remove_object, TypeOK
    <3> QED
      BY <2>2, <3>1, CallerMovesWorker DEF remove_object, WorkFree, TypeOK,
         LocalsInScope, thread, table, locals, history
  <2>3. CASE CountPending(t)
    BY <2>3 DEF CountPending, ThenSignal, TypeOK, LocalsInScope, table,
       requests, locals, history
  <2>4. CASE notify(t)
    BY <2>4, CallerMovesWorker DEF notify, ThenSignal, TypeOK, LocalsInScope,
       table, requests, locals, history
  <2>5. CASE Signal(t)
    BY <2>5 DEF Signal, WakeWorker, TypeOK, LocalsInScope, shared, thread,
       table, requests, locals, history
  <2>6. ASSUME NEW milliseconds \in Granularities, granularity(t, milliseconds)
        PROVE  TypeInv'
    BY <2>6, GranularitiesAssumption, CallerMovesWorker DEF granularity,
       k_default_granularity, TypeOK, LocalsInScope, thread, table, requests,
       locals, history
  <2> QED
    BY <1>1, <2>1, <2>2, <2>3, <2>4, <2>5, <2>6 DEF Caller
<1>2. CASE Loop
  BY <1>2 DEF Loop, Sleep, WakeSpuriously, Stop, StartPass, Goes, TypeOK,
     LocalsInScope, shared, thread, table, requests, locals, history
<1>3. CASE End
  BY <1>3 DEF End, BeginEnd, NotifyAll, Join, WakeWorker, TypeOK,
     LocalsInScope, shared, thread, table, requests, locals, history
<1>4. CASE Pass
  <2>1. CASE LockWork
    BY <2>1 DEF LockWork, QueuedRequests, TypeOK, LocalsInScope, shared, thread,
       table, requests, history
  <2>2. CASE CopyToken
    <3>1. /\ Head(work_pending) \in Sockets \X Objects
          /\ work_pending' \in Seq(Sockets \X Objects)
      BY <2>2, HeadTailProperties DEF CopyToken, TypeOK
    <3>2. /\ DOMAIN work_info' \subseteq Sockets
          /\ work_info' \in [DOMAIN work_info' -> Objects]
      BY <2>2, <3>1 DEF CopyToken, TypeOK
    <3>3. work_handles' \in Seq(Signed)
      <4>1. Head(work_pending)[1] \in Signed
        BY <3>1 DEF Signed
      <4>2. Append(work_handles, Head(work_pending)[1]) \in Seq(Signed)
        BY <4>1, AppendProperties DEF TypeOK
      <4> QED
        BY <2>2, <4>2 DEF CopyToken, TypeOK
    <3> QED
      BY <2>2, <3>1, <3>2, <3>3 DEF CopyToken, TypeOK, LocalsInScope, thread,
         locals, history
  <2>3. CASE CopyDone
    BY <2>3 DEF CopyDone, Goes, TypeOK, LocalsInScope, shared, thread, table,
       requests, locals, history
  <2>4. CASE RemoveToken
    <3>1. work_removed' \in Seq(Sockets)
      BY <2>4, HeadTailProperties DEF RemoveToken, TypeOK
    <3>2. /\ work_handles' \in Seq(Signed)
          /\ DOMAIN work_info' \subseteq Sockets
          /\ work_info' \in [DOMAIN work_info' -> Objects]
          /\ answer' \in [Sockets -> {"NONE", "CONTINUE", "IGNORE"}]
      BY <2>4, EraseTypes DEF RemoveToken, TypeOK, table
    <3> QED
      BY <2>4, <3>1, <3>2 DEF RemoveToken, TypeOK, LocalsInScope, thread, locals
  <2>5. CASE UnlockWork
    BY <2>5 DEF UnlockWork, Goes, TypeOK, LocalsInScope, shared, thread, table,
       requests, locals, history
  <2>6. CASE Poll
    BY <2>6 DEF Poll, TypeOK, LocalsInScope, shared, thread, table, requests
  <2>7. CASE InvokeCallback
    <3>1. CurrentSocket \in Sockets
      BY <2>7, AbsOfSigned DEF InvokeCallback, CurrentSocket, TypeOK
    <3> QED
      BY <2>7, <3>1 DEF InvokeCallback, TypeOK, LocalsInScope, shared, thread,
         table, requests, locals
  <2>8. ASSUME CallbackEnds
        PROVE  /\ index \in 1..Len(work_handles)
               /\ CurrentSocket \in Sockets
               /\ CurrentSocket \in Signed /\ -CurrentSocket \in Signed
               /\ errno' \in Errors \union {"SUCCESS"}
    BY <2>8, AbsOfSigned DEF CallbackEnds, CurrentSocket, TypeOK, LocalsInScope,
       Signed
  <2>9. CASE Ignore
    <3>1. /\ work_handles' \in Seq(Signed)
          /\ Len(work_handles') = Len(work_handles)
      BY <2>8, <2>9, ExceptSeq DEF Ignore, TypeOK
    <3>2. ignored' \in Nat
      BY <2>9 DEF Ignore, CountIgnored, TypeOK
    <3> QED
      BY <2>8, <2>9, <3>1, <3>2 DEF Ignore, CallbackEnds, TypeOK, LocalsInScope,
         thread, requests
  <2>10. CASE Continue
    <3>1. /\ work_handles' \in Seq(Signed)
          /\ Len(work_handles') = Len(work_handles)
      BY <2>8, <2>10, ExceptSeq DEF Continue, TypeOK
    <3> QED
      BY <2>8, <2>10, <3>1 DEF Continue, CallbackEnds, TypeOK, LocalsInScope,
         thread, requests
  <2>11. CASE Quit
    <3>1. /\ work_handles' \in Seq(Signed)
          /\ Len(work_handles') = Len(work_handles) - 1
          /\ DOMAIN work_info' \subseteq Sockets
          /\ work_info' \in [DOMAIN work_info' -> Objects]
          /\ answer' \in [Sockets -> {"NONE", "CONTINUE", "IGNORE"}]
      BY <2>8, <2>11, EraseTypes DEF Quit, TypeOK
    <3> QED
      BY <2>8, <2>11, <3>1 DEF Quit, IndexAfterQuit, CallbackEnds, TypeOK,
         LocalsInScope, thread, requests
  <2>12. CASE FinishPass
    <3>1. thread_has_work' \in BOOLEAN
      BY <2>12 DEF FinishPass, HasWorkLeft
    <3>2. thread_pending' \in Int
      BY <2>12 DEF FinishPass, PendingLeft, TypeOK
    <3>3. index' \in 1..(Len(work_handles') + 1)
      BY <2>12 DEF FinishPass, TypeOK, table
    <3> QED
      BY <2>12, <3>1, <3>2, <3>3, Zenon DEF FinishPass, TypeOK, LocalsInScope,
         table, requests
  <2> QED
    BY <1>4, <2>1, <2>2, <2>3, <2>4, <2>5, <2>6, <2>7, <2>9, <2>10, <2>11,
       <2>12 DEF Pass
<1>5. CASE UNCHANGED vars
  BY <1>5 DEF TypeOK, LocalsInScope, vars, shared, thread, table, requests,
     locals, history
<1> QED
  BY <1>1, <1>2, <1>3, <1>4, <1>5 DEF Next, Terminated

\* Every variable keeps its type: the position of the update loop stays within
\* the vector it walks, through every erase in it and before it.
THEOREM TypeCorrect == Spec => []TypeOK
<1>1. Spec => []TypeInv
  BY TypeInvInit, TypeInvNext, PTL DEF Spec
<1> QED
  BY <1>1, PTL DEF TypeInv
-----------------------------------------------------------------------------
(* The counter of pending requests and the wake-up of the worker *)

\* Threads whose call is at a step before and after a step of the system.
LEMMA CountOfCall ==
    ASSUME TypeOK, NEW t \in Threads, NEW to, call' = [call EXCEPT ![t] = to]
    PROVE  /\ Count("count") \in Nat /\ Count("count")' \in Nat
           /\ call[t] # "count" /\ to = "count" => Count("count")' = Count("count") + 1
           /\ call[t] = "count" /\ to # "count" => Count("count")' = Count("count") - 1
           /\ call[t] # "count" /\ to # "count" => Count("count")' = Count("count")
<1> DEFINE before == {u \in Threads : call[u] = "count"}
           after  == {u \in Threads : call'[u] = "count"}
<1>1. call'[t] = to /\ \A u \in Threads \ {t} : call'[u] = call[u]
  BY DEF TypeOK
<1>2. /\ IsFiniteSet(before) /\ IsFiniteSet(after)
      /\ Cardinality(before) \in Nat /\ Cardinality(after) \in Nat
  BY CountingFinite
<1>3. Count("count") = Cardinality(before) /\ Count("count")' = Cardinality(after)
  BY DEF Count
<1>4. ASSUME call[t] # "count", to = "count"
      PROVE  Cardinality(after) = Cardinality(before) + 1
  <2>1. after = before \union {t} /\ t \notin before
    BY <1>1, <1>4
  <2> HIDE DEF before, after
  <2> QED
    BY <1>2, <2>1, FS_AddElement
<1>5. ASSUME call[t] = "count", to # "count"
      PROVE  Cardinality(before) = Cardinality(after) + 1
  <2>1. before = after \union {t} /\ t \notin after
    BY <1>1, <1>5
  <2> HIDE DEF before, after
  <2> QED
    BY <1>2, <2>1, FS_AddElement
<1>6. ASSUME call[t] # "count", to # "count"
      PROVE  after = before
  BY <1>1, <1>6
<1> HIDE DEF before, after
<1> QED
  BY <1>2, <1>3, <1>4, <1>5, <1>6

AccountingInv == TypeInv /\ PendingAccounting

\* Lengths of the queues, before and after a push or a pop.
LEMMA QueueLengths ==
    ASSUME TypeOK
    PROVE  /\ Len(work_pending) \in Nat /\ Len(work_removed) \in Nat
           /\ \A r \in Sockets \X Objects :
                Len(Append(work_pending, r)) = Len(work_pending) + 1
           /\ \A s \in Sockets :
                Len(Append(work_removed, s)) = Len(work_removed) + 1
BY AppendProperties DEF TypeOK

LEMMA AccountingNext == AccountingInv /\ [Next]_vars => PendingAccounting'
<1> SUFFICES ASSUME TypeOK, LocalsInScope, PendingAccounting, TypeOK',
                    [Next]_vars
             PROVE  PendingAccounting'
  BY TypeInvNext DEF AccountingInv, TypeInv
<1>1. ASSUME NEW t \in Threads, Caller(t) PROVE PendingAccounting'
  <2>1. ASSUME NEW s \in Sockets, NEW o \in Objects, add_object(t, s, o)
        PROVE  PendingAccounting'
    <3>1. Count("count")' = Count("count") + 1 /\ Count("count") \in Nat
      BY <2>1, CountOfCall DEF add_object, CanCall
    <3>2. worker \notin {"copy", "remove"} /\ worker' \notin {"copy", "remove"}
      BY <2>1, CallerMovesWorker DEF add_object, WorkFree
    <3>3. /\ Len(work_pending') = Len(work_pending) + 1 /\ work_removed' = work_removed
          /\ Len(work_pending) \in Nat /\ Len(work_removed) \in Nat
      BY <2>1, QueueLengths DEF add_object
    <3>4. satisfied' = satisfied /\ satisfied \in Nat
      BY <2>1 DEF add_object, TypeOK, locals
    <3>5. Unsubtracted' = Unsubtracted + 1 /\ Unsubtracted \in Nat
      BY <3>2, <3>3, <3>4 DEF Unsubtracted
    <3> QED
      BY <2>1, <3>1, <3>5 DEF add_object, thread, PendingAccounting
  <2>2. ASSUME NEW s \in Sockets, remove_object(t, s) PROVE PendingAccounting'
    <3>1. Count("count")' = Count("count") + 1 /\ Count("count") \in Nat
      BY <2>2, CountOfCall DEF remove_object, CanCall
    <3>2. worker \notin {"copy", "remove"} /\ worker' \notin {"copy", "remove"}
      BY <2>2, CallerMovesWorker DEF remove_object, WorkFree
    <3>3. /\ Len(work_removed') = Len(work_removed) + 1 /\ work_pending' = work_pending
          /\ Len(work_removed) \in Nat /\ Len(work_pending) \in Nat
      BY <2>2, QueueLengths DEF remove_object
    <3>4. satisfied' = satisfied /\ satisfied \in Nat
      BY <2>2 DEF remove_object, TypeOK, locals
    <3>5. Unsubtracted' = Unsubtracted + 1 /\ Unsubtracted \in Nat
      BY <3>2, <3>3, <3>4 DEF Unsubtracted
    <3> QED
      BY <2>2, <3>1, <3>5 DEF remove_object, thread, PendingAccounting
  <2>3. CASE CountPending(t)
    <3>1. /\ call[t] = "count" /\ "signal" # "count"
          /\ call' = [call EXCEPT ![t] = "signal"]
      BY <2>3 DEF CountPending, ThenSignal
    <3>2. Count("count")' = Count("count") - 1 /\ Count("count") \in Nat
      BY <3>1, CountOfCall
    <3>3. Unsubtracted' = Unsubtracted /\ Unsubtracted \in Nat
      BY <2>3, QueueLengths DEF CountPending, Unsubtracted, TypeOK, requests, locals
    <3> QED
      BY <2>3, <3>2, <3>3 DEF CountPending, PendingAccounting
  <2>4. CASE notify(t)
    <3>1. /\ call[t] # "count" /\ "signal" # "count"
          /\ call' = [call EXCEPT ![t] = "signal"]
      BY <2>4 DEF notify, ThenSignal, CanCall
    <3>2. Count("count")' = Count("count")
      BY <3>1, CountOfCall
    <3>3. Unsubtracted' = Unsubtracted
      BY <2>4, CallerMovesWorker DEF notify, Unsubtracted, requests, locals
    <3> QED
      BY <2>4, <3>2, <3>3 DEF notify, PendingAccounting
  <2>5. CASE Signal(t)
    <3>1. /\ call[t] # "count" /\ "idle" # "count"
          /\ call' = [call EXCEPT ![t] = "idle"]
      BY <2>5 DEF Signal
    <3>2. Count("count")' = Count("count")
      BY <3>1, CountOfCall
    <3>3. Unsubtracted' = Unsubtracted
      BY <2>5 DEF Signal, WakeWorker, Unsubtracted, shared, requests, locals
    <3> QED
      BY <2>5, <3>2, <3>3 DEF Signal, PendingAccounting, shared, thread
  <2>6. ASSUME NEW milliseconds \in Granularities, granularity(t, milliseconds)
        PROVE  PendingAccounting'
    BY <2>6, CallerMovesWorker DEF granularity, PendingAccounting, Count,
       Unsubtracted, thread, requests, locals
  <2> QED
    BY <1>1, <2>1, <2>2, <2>3, <2>4, <2>5, <2>6 DEF Caller
<1>2. CASE Loop
  BY <1>2 DEF Loop, Sleep, WakeSpuriously, Stop, StartPass, Goes, Count,
     PendingAccounting, Unsubtracted, shared, thread, requests, locals
<1>3. CASE End
  BY <1>3 DEF End, BeginEnd, NotifyAll, Join, WakeWorker, Count,
     PendingAccounting, Unsubtracted, shared, thread, requests, locals
<1>4. CASE Pass
  <2> USE DEF PendingAccounting, Count, Unsubtracted
  <2>1. CASE LockWork
    BY <2>1, QueueLengths DEF LockWork, QueuedRequests, LocalsInScope, shared,
       thread, requests
  <2>2. CASE CopyToken
    BY <2>2 DEF CopyToken, thread, locals
  <2>3. CASE CopyDone
    BY <2>3 DEF CopyDone, Goes, shared, thread, locals
  <2>4. CASE RemoveToken
    BY <2>4 DEF RemoveToken, thread, locals
  <2>5. CASE UnlockWork
    <3>1. Len(work_pending) = 0 /\ Len(work_removed) = 0
      BY <2>5 DEF UnlockWork, Goes, LocalsInScope
    <3> QED
      BY <2>5, <3>1 DEF UnlockWork, Goes, TypeOK, shared, thread, requests, locals
  <2>6. CASE Poll
    BY <2>6 DEF Poll, shared, thread, requests
  <2>7. CASE InvokeCallback
    BY <2>7 DEF InvokeCallback, shared, thread, requests, locals
  <2>8. CASE Ignore \/ Continue \/ Quit
    BY <2>8 DEF Ignore, Continue, Quit, CallbackEnds, thread, requests
  <2>9. CASE FinishPass
    <3> HIDE DEF Count
    <3>1. Count("count")' = Count("count") /\ Count("count") \in Nat
      BY <2>9, CountingFinite DEF FinishPass, Count
    <3>2. Unsubtracted' = Unsubtracted - satisfied /\ Unsubtracted \in Nat
      BY <2>9, QueueLengths DEF FinishPass, TypeOK, requests
    <3> QED
      BY <2>9, <3>1, <3>2 DEF FinishPass, PendingLeft, TypeOK
  <2> QED
    BY <1>4, <2>1, <2>2, <2>3, <2>4, <2>5, <2>6, <2>7, <2>8, <2>9 DEF Pass
<1>5. CASE UNCHANGED vars
  BY <1>5 DEF vars, shared, thread, requests, locals, Count, PendingAccounting,
     Unsubtracted
<1> QED
  BY <1>1, <1>2, <1>3, <1>4, <1>5 DEF Next, Terminated

LEMMA AccountingInit == Init => PendingAccounting
<1> SUFFICES ASSUME Init PROVE PendingAccounting
  OBVIOUS
<1>1. {t \in Threads : call[t] = "count"} = {}
  BY DEF Init
<1>2. Count("count") = 0
  BY <1>1, FS_EmptySet DEF Count
<1>3. Unsubtracted = 0
  BY DEF Init, Unsubtracted
<1> QED
  BY <1>2, <1>3 DEF Init, PendingAccounting
\* m_thread_pending_ is exact, however pushes, counts and passes interleave.
THEOREM AccountingCorrect == Spec => []PendingAccounting
<1>1. Init => AccountingInv
  BY TypeInvInit, AccountingInit DEF AccountingInv
<1>2. AccountingInv /\ [Next]_vars => AccountingInv'
  BY TypeInvNext, AccountingNext DEF AccountingInv
<1>3. AccountingInv => PendingAccounting
  BY DEF AccountingInv
<1> QED
  BY <1>1, <1>2, <1>3, PTL DEF Spec

WakeInv == TypeInv /\ NoLostWakeup

LEMMA WakeNext == WakeInv /\ [Next]_vars => NoLostWakeup'
<1> SUFFICES ASSUME TypeOK, NoLostWakeup, [Next]_vars PROVE NoLostWakeup'
  BY DEF WakeInv, TypeInv
<1>1. ASSUME NEW t \in Threads, Caller(t) PROVE NoLostWakeup'
  <2>1. ASSUME NEW s \in Sockets, NEW o \in Objects, add_object(t, s, o)
        PROVE  NoLostWakeup'
    <3>1. worker' = "waiting" => worker = "waiting"
      BY <2>1, CallerMovesWorker DEF add_object
    <3>2. ASSUME NEW u \in Threads, call[u] = "signal" PROVE call'[u] = "signal"
      BY <2>1, <3>2 DEF add_object, CanCall, TypeOK
    <3> QED
      BY <2>1, <3>1, <3>2 DEF NoLostWakeup, add_object, thread
  <2>2. CASE CountPending(t) \/ notify(t)
    <3>1. call'[t] = "signal"
      BY <2>2 DEF CountPending, notify, ThenSignal, TypeOK
    <3>2. worker' = "waiting" => worker = "waiting"
      BY <2>2, CallerMovesWorker DEF CountPending, notify
    <3> QED
      BY <2>2, <3>1, <3>2 DEF NoLostWakeup, CountPending, notify
  <2>3. CASE Signal(t)
    BY <2>3 DEF Signal, WakeWorker, NoLostWakeup
  <2>4. ASSUME NEW milliseconds \in Granularities, granularity(t, milliseconds)
        PROVE  NoLostWakeup'
    BY <2>4, CallerMovesWorker DEF granularity, NoLostWakeup, thread
  <2>5. ASSUME NEW s \in Sockets, remove_object(t, s) PROVE NoLostWakeup'
    <3>1. worker' = "waiting" => worker = "waiting"
      BY <2>5, CallerMovesWorker DEF remove_object
    <3>2. ASSUME NEW u \in Threads, call[u] = "signal" PROVE call'[u] = "signal"
      BY <2>5, <3>2 DEF remove_object, CanCall, TypeOK
    <3> QED
      BY <2>5, <3>1, <3>2 DEF NoLostWakeup, remove_object, thread
  <2> QED
    BY <1>1, <2>1, <2>2, <2>3, <2>4, <2>5 DEF Caller
<1>2. CASE Loop
  BY <1>2 DEF Loop, Sleep, WakeSpuriously, Stop, StartPass, Goes, NoLostWakeup,
     WakeCondition, shared, thread
<1>3. CASE End
  BY <1>3 DEF End, BeginEnd, NotifyAll, Join, WakeWorker, NoLostWakeup, shared,
     thread
<1>4. CASE Pass
  <2>1. worker' # "waiting"
    BY <1>4 DEF Pass, LockWork, CopyToken, CopyDone, RemoveToken, UnlockWork,
       Goes, Poll, InvokeCallback, Ignore, Continue, Quit, CallbackEnds,
       FinishPass
  <2> QED
    BY <2>1 DEF NoLostWakeup
<1>5. CASE UNCHANGED vars
  BY <1>5 DEF vars, shared, thread, NoLostWakeup
<1> QED
  BY <1>1, <1>2, <1>3, <1>4, <1>5 DEF Next, Terminated

\* The worker never blocks while its wake condition holds and nobody is left
\* to notify it.
THEOREM WakeupCorrect == Spec => []NoLostWakeup
<1>1. Init => WakeInv
  BY TypeInvInit DEF WakeInv, Init, NoLostWakeup
<1>2. WakeInv /\ [Next]_vars => WakeInv'
  BY TypeInvNext, WakeNext DEF WakeInv
<1>3. WakeInv => NoLostWakeup
  BY DEF WakeInv
<1> QED
  BY <1>1, <1>2, <1>3, PTL DEF Spec

\* A queued request never waits beside a sleeping worker with every caller gone:
\* the exact counter and the wake-up together rule it out.
THEOREM NoRequestLost == Spec => []NoLostRequest
<1>1. TypeInv /\ PendingAccounting /\ NoLostWakeup => NoLostRequest
  <2> SUFFICES ASSUME TypeOK, LocalsInScope, PendingAccounting, NoLostWakeup,
                      worker = "waiting",
                      Len(work_pending) + Len(work_removed) > 0,
                      \A t \in Threads : call[t] = "idle"
               PROVE  FALSE
    BY DEF NoLostRequest, TypeInv
  <2>1. Count("count") = 0
    <3>1. {t \in Threads : call[t] = "count"} = {}
      OBVIOUS
    <3> QED
      BY <3>1, FS_EmptySet DEF Count
  <2>2. Unsubtracted > 0 /\ Unsubtracted \in Nat
    BY QueueLengths DEF Unsubtracted, LocalsInScope
  <2>3. thread_pending > 0
    BY <2>1, <2>2 DEF PendingAccounting
  <2>4. PICK t \in Threads : call[t] = "signal"
    BY <2>3 DEF NoLostWakeup
  <2> QED
    BY <2>4
<1>2. Spec => []TypeInv
  BY TypeInvInit, TypeInvNext, PTL DEF Spec
<1> QED
  BY <1>1, <1>2, AccountingCorrect, WakeupCorrect, PTL
-----------------------------------------------------------------------------
(* The handles, their info and the walk over them *)

\* HandlesMatchInfo, position by position.
MatchPointwise ==
    /\ \A k \in 1..Len(work_handles) : abs(work_handles[k]) \in DOMAIN work_info
    /\ \A s \in DOMAIN work_info :
            \E k \in 1..Len(work_handles) : abs(work_handles[k]) = s
    /\ \A j, k \in 1..Len(work_handles) :
            abs(work_handles[j]) = abs(work_handles[k]) => j = k

LEMMA MatchIsPointwise == TypeOK => (HandlesMatchInfo <=> MatchPointwise)
<1> SUFFICES ASSUME TypeOK PROVE HandlesMatchInfo <=> MatchPointwise
  OBVIOUS
<1>1. DOMAIN work_handles = 1..Len(work_handles)
  BY DEF TypeOK
<1>2. ASSUME HandlesMatchInfo PROVE MatchPointwise
  BY <1>1, <1>2 DEF HandlesMatchInfo, MatchPointwise
<1>3. ASSUME MatchPointwise PROVE HandlesMatchInfo
  <2>1. {abs(work_handles[k]) : k \in DOMAIN work_handles} \subseteq DOMAIN work_info
    BY <1>1, <1>3 DEF MatchPointwise
  <2>2. DOMAIN work_info \subseteq {abs(work_handles[k]) : k \in DOMAIN work_handles}
    BY <1>1, <1>3 DEF MatchPointwise
  <2>3. \A j, k \in DOMAIN work_handles :
            abs(work_handles[j]) = abs(work_handles[k]) => j = k
    BY <1>1, <1>3 DEF MatchPointwise
  <2> QED
    BY <2>1, <2>2, <2>3 DEF HandlesMatchInfo
<1> QED
  BY <1>2, <1>3

\* What EraseHandle does at each position and to the registered sockets.
LEMMA EraseEffect ==
    ASSUME TypeOK, NEW k \in 1..Len(work_handles), EraseHandle(k)
    PROVE  /\ Len(work_handles') = Len(work_handles) - 1
           /\ \A j \in 1..Len(work_handles') :
                work_handles'[j] = IF j < k THEN work_handles[j]
                                            ELSE work_handles[j+1]
           /\ DOMAIN work_info' = DOMAIN work_info \ {abs(work_handles[k])}
<1>1. work_handles \in Seq(Signed) /\ work_handles' = RemoveAt(work_handles, k)
  BY DEF TypeOK, EraseHandle
<1>2. /\ Len(work_handles') = Len(work_handles) - 1
      /\ \A j \in 1..(Len(work_handles) - 1) :
            work_handles'[j] = IF j < k THEN work_handles[j]
                                        ELSE work_handles[j+1]
  BY <1>1, RemoveAtProperties
<1> QED
  BY <1>2 DEF EraseHandle, Restrict

LEMMA EraseKeepsMatch ==
    ASSUME TypeOK, MatchPointwise, NEW k \in 1..Len(work_handles), EraseHandle(k)
    PROVE  MatchPointwise'
<1> DEFINE n == Len(work_handles)
<1>1. n \in Nat /\ Len(work_handles') = n - 1
  <2>1. n \in Nat
    BY DEF TypeOK
  <2> QED
    BY <2>1, EraseEffect
<1>2. \A j \in 1..(n-1) : work_handles'[j] = IF j < k THEN work_handles[j]
                                                      ELSE work_handles[j+1]
  BY <1>1, EraseEffect
<1>3. /\ \A j \in 1..n : abs(work_handles[j]) \in DOMAIN work_info
      /\ \A s \in DOMAIN work_info : \E j \in 1..n : abs(work_handles[j]) = s
      /\ \A i, j \in 1..n : abs(work_handles[i]) = abs(work_handles[j]) => i = j
  BY DEF MatchPointwise
<1>4. DOMAIN work_info' = DOMAIN work_info \ {abs(work_handles[k])}
  BY EraseEffect
<1>5. ASSUME NEW j \in 1..(n-1) PROVE abs(work_handles'[j]) \in DOMAIN work_info'
  <2>1. CASE j < k
    BY <1>1, <1>2, <1>3, <1>4, <2>1
  <2>2. CASE j >= k
    <3>1. j + 1 \in 1..n /\ j + 1 # k
      BY <1>1, <2>2
    <3>2. work_handles'[j] = work_handles[j+1]
      BY <1>1, <1>2, <2>2
    <3>3. abs(work_handles[j+1]) # abs(work_handles[k])
      BY <1>3, <3>1
    <3> QED
      BY <1>3, <1>4, <3>1, <3>2, <3>3
  <2> QED
    BY <1>1, <2>1, <2>2
<1>6. ASSUME NEW s \in DOMAIN work_info'
      PROVE  \E j \in 1..(n-1) : abs(work_handles'[j]) = s
  <2>1. PICK j \in 1..n : abs(work_handles[j]) = s
    BY <1>3, <1>4
  <2>2. j # k
    BY <1>4, <2>1
  <2>3. CASE j < k
    BY <1>1, <1>2, <2>1, <2>3
  <2>4. CASE j > k
    <3>1. j - 1 \in 1..(n-1) /\ ~(j - 1 < k) /\ (j - 1) + 1 = j
      BY <1>1, <2>4
    <3>2. work_handles'[j-1] = work_handles[j]
      BY <1>2, <3>1
    <3> QED
      BY <2>1, <3>1, <3>2
  <2> QED
    BY <1>1, <2>2, <2>3, <2>4
<1>7. ASSUME NEW i \in 1..(n-1), NEW j \in 1..(n-1),
             abs(work_handles'[i]) = abs(work_handles'[j])
      PROVE  i = j
  <2> DEFINE old(m) == IF m < k THEN m ELSE m + 1
  <2>1. \A m \in 1..(n-1) : old(m) \in 1..n /\ work_handles'[m] = work_handles[old(m)]
    BY <1>1, <1>2
  <2>2. old(i) = old(j)
    BY <1>3, <1>7, <2>1
  <2> QED
    BY <1>1, <2>2
<1> QED
  BY <1>1, <1>5, <1>6, <1>7 DEF MatchPointwise
\* A call from outside or from a callback touches no handle.
LEMMA CallerKeepsTable ==
    ASSUME NEW t \in Threads, Caller(t)
    PROVE  /\ UNCHANGED <<work_handles, work_info, index, visited, answer, ignored>>
           /\ \/ worker' = worker
              \/ worker = "callback" /\ worker' = "called"
              \/ worker = "waiting" /\ worker' = "check"
BY CallerMovesWorker DEF Caller, add_object, remove_object, CountPending, notify,
   Signal, WakeWorker, granularity, shared, table, locals, history

\* A callback's handle is in the vector, and keeps its socket when it answers
\* CONTINUE or IGNORE.
LEMMA AnswerEffect ==
    ASSUME TypeInv, Ignore \/ Continue
    PROVE  /\ index \in 1..Len(work_handles)
           /\ Len(work_handles') = Len(work_handles)
           /\ \A k \in 1..Len(work_handles) :
                    abs(work_handles'[k]) = abs(work_handles[k])
           /\ UNCHANGED work_info /\ index' = index + 1
<1>1. index \in 1..Len(work_handles)
  BY DEF TypeInv, TypeOK, LocalsInScope, Ignore, Continue, CallbackEnds
<1>2. abs(-CurrentSocket) = CurrentSocket /\ abs(CurrentSocket) = CurrentSocket
  <2>1. work_handles[index] \in Int
    BY <1>1, SocketsAssumption DEF TypeInv, TypeOK, Signed
  <2> QED
    BY <2>1 DEF CurrentSocket, abs
<1>3. \E h \in {CurrentSocket, -CurrentSocket} :
        work_handles' = [work_handles EXCEPT ![index] = h]
  BY DEF Ignore, Continue
<1>4. PICK h : /\ work_handles' = [work_handles EXCEPT ![index] = h]
               /\ abs(h) = CurrentSocket
  BY <1>2, <1>3
<1>5. work_handles \in Seq(Signed)
  BY DEF TypeInv, TypeOK
<1>6. /\ Len(work_handles') = Len(work_handles)
      /\ \A k \in 1..Len(work_handles) :
            abs(work_handles'[k]) = abs(work_handles[k])
  BY <1>1, <1>4, <1>5 DEF CurrentSocket
<1> QED
  BY <1>1, <1>6 DEF Ignore, Continue

\* The socket just added comes last; the others keep their places.
LEMMA AppendKeepsMatch ==
    ASSUME TypeOK, MatchPointwise, CopyToken
    PROVE  MatchPointwise'
<1> DEFINE socket == Head(work_pending)[1]
           n == Len(work_handles)
<1>1. socket \in Sockets /\ socket \in Nat
  BY HeadTailProperties, SocketsAssumption DEF CopyToken, TypeOK
<1>2. abs(socket) = socket /\ socket \in Signed
  BY <1>1 DEF abs, Signed
<1>3. DOMAIN work_info' = DOMAIN work_info \union {socket}
  BY DEF CopyToken
<1>4. CASE socket \in DOMAIN work_info
  <2>1. work_handles' = work_handles /\ DOMAIN work_info' = DOMAIN work_info
    BY <1>3, <1>4 DEF CopyToken
  <2> QED
    BY <2>1 DEF MatchPointwise
<1>5. CASE socket \notin DOMAIN work_info
  <2>1. work_handles' = Append(work_handles, socket)
    BY <1>5 DEF CopyToken
  <2>2. /\ n \in Nat /\ Len(work_handles') = n + 1
        /\ \A k \in 1..n : work_handles'[k] = work_handles[k]
        /\ work_handles'[n+1] = socket
    BY <1>2, <2>1, AppendProperties DEF TypeOK
  <2>3. /\ \A k \in 1..n : abs(work_handles[k]) \in DOMAIN work_info
        /\ \A s \in DOMAIN work_info : \E k \in 1..n : abs(work_handles[k]) = s
        /\ \A j, k \in 1..n : abs(work_handles[j]) = abs(work_handles[k]) => j = k
    BY DEF MatchPointwise
  <2> HIDE DEF n, socket
  <2>4. \A k \in 1..(n+1) : abs(work_handles'[k]) \in DOMAIN work_info'
    BY <1>2, <1>3, <2>2, <2>3
  <2>5. \A s \in DOMAIN work_info' : \E k \in 1..(n+1) : abs(work_handles'[k]) = s
    BY <1>2, <1>3, <2>2, <2>3
  <2>6. \A j, k \in 1..(n+1) :
            abs(work_handles'[j]) = abs(work_handles'[k]) => j = k
    BY <1>2, <1>5, <2>2, <2>3
  <2> QED
    BY <2>2, <2>4, <2>5, <2>6 DEF MatchPointwise
<1> QED
  BY <1>4, <1>5

LEMMA MatchNext == TypeInv /\ MatchPointwise /\ [Next]_vars => MatchPointwise'
<1> SUFFICES ASSUME TypeInv, MatchPointwise, [Next]_vars PROVE MatchPointwise'
  OBVIOUS
<1>1. TypeOK
  BY DEF TypeInv
<1>2. CASE UNCHANGED <<work_handles, work_info>>
  BY <1>2 DEF MatchPointwise
<1>3. CASE CopyToken
  BY <1>1, <1>3, AppendKeepsMatch
<1>4. CASE RemoveToken
  <2>1. CASE \E k \in DOMAIN work_handles : EraseHandle(k)
    <3>1. DOMAIN work_handles = 1..Len(work_handles)
      BY <1>1 DEF TypeOK
    <3> QED
      BY <1>1, <2>1, <3>1, EraseKeepsMatch
  <2> QED
    BY <1>2, <1>4, <2>1 DEF RemoveToken, table
<1>5. CASE Quit
  <2>1. index \in 1..Len(work_handles)
    BY <1>5 DEF TypeInv, TypeOK, LocalsInScope, Quit, CallbackEnds
  <2> QED
    BY <1>1, <1>5, <2>1, EraseKeepsMatch DEF Quit
<1>6. CASE Ignore \/ Continue
  BY <1>6, AnswerEffect DEF MatchPointwise
<1>7. CASE \E t \in Threads : Caller(t)
  BY <1>2, <1>7, CallerKeepsTable
<1>8. CASE Loop \/ End \/ UNCHANGED vars
  BY <1>2, <1>8 DEF Loop, Sleep, WakeSpuriously, Stop, StartPass, Goes, End,
     BeginEnd, NotifyAll, Join, vars, shared, table
<1>9. CASE LockWork \/ CopyDone \/ UnlockWork \/ Poll \/ InvokeCallback \/ FinishPass
  BY <1>2, <1>9 DEF LockWork, CopyDone, UnlockWork, Goes, Poll, InvokeCallback,
     FinishPass, shared, table
<1> QED
  BY <1>3, <1>4, <1>5, <1>6, <1>7, <1>8, <1>9 DEF Next, Pass, Terminated

LEMMA MatchInit == Init => MatchPointwise
  BY DEF Init, MatchPointwise

\* For every handle there is associated info, and only one handle.
THEOREM HandlesCorrect == Spec => []HandlesMatchInfo
<1>1. TypeInv /\ MatchPointwise => HandlesMatchInfo
  BY MatchIsPointwise DEF TypeInv
<1> QED
  BY <1>1, TypeInvInit, TypeInvNext, MatchInit, MatchNext, PTL DEF Spec
\* During the walk, exactly the handles before the position have been called,
\* and the one at the position once its callback is running.
Walked(k) == k < index \/ (k = index /\ worker # "update")

VisitedExactly ==
    worker \in {"update", "callback", "called"} =>
        \A k \in 1..Len(work_handles) :
            abs(work_handles[k]) \in visited <=> Walked(k)

WalkInv == TypeInv /\ MatchPointwise /\ VisitedExactly

LEMMA WalkNext == WalkInv /\ [Next]_vars => VisitedExactly'
<1> SUFFICES ASSUME TypeOK, LocalsInScope, TypeInv, MatchPointwise,
                    VisitedExactly, [Next]_vars
             PROVE  VisitedExactly'
  BY DEF WalkInv, TypeInv
<1>1. index \in Int /\ Len(work_handles) \in Nat
  BY DEF TypeOK
<1>2. CASE \E t \in Threads : Caller(t)
  BY <1>2, CallerKeepsTable DEF VisitedExactly, Walked
<1>3. CASE Poll
  <2>1. /\ index' = 1 /\ visited' = {} /\ worker' = "update"
        /\ work_handles' = work_handles
    BY <1>3 DEF Poll, LocalsInScope, shared, table
  <2> QED
    BY <1>1, <2>1 DEF VisitedExactly, Walked
<1>4. CASE InvokeCallback
  <2>1. /\ index \in 1..Len(work_handles) /\ worker = "update"
        /\ worker' = "callback" /\ index' = index
        /\ work_handles' = work_handles
        /\ visited' = visited \union {abs(work_handles[index])}
    BY <1>4 DEF InvokeCallback, CurrentSocket, TypeOK, shared, table, locals
  <2>2. ASSUME NEW k \in 1..Len(work_handles)
        PROVE  abs(work_handles[k]) \in visited' <=> Walked(k)'
    <3>1. CASE k = index
      BY <2>1, <3>1 DEF Walked
    <3>2. CASE k # index
      <4>1. abs(work_handles[k]) # abs(work_handles[index])
        BY <2>1, <3>2 DEF MatchPointwise
      <4>2. abs(work_handles[k]) \in visited <=> k < index
        BY <2>1, <3>2 DEF VisitedExactly, Walked
      <4> QED
        BY <2>1, <3>2, <4>1, <4>2 DEF Walked
    <3> QED
      BY <3>1, <3>2
  <2> QED
    BY <2>1, <2>2 DEF VisitedExactly
<1>5. CASE Ignore \/ Continue
  <2>1. /\ worker \in {"callback", "called"} /\ worker' = "update"
        /\ visited' = visited
    BY <1>5 DEF Ignore, Continue, CallbackEnds
  <2> QED
    BY <1>1, <1>5, <2>1, AnswerEffect DEF VisitedExactly, Walked
<1>6. CASE Quit
  <2>1. /\ worker \in {"callback", "called"} /\ worker' = "update"
        /\ visited' = visited /\ index' = index /\ EraseHandle(index)
        /\ index \in 1..Len(work_handles)
    BY <1>6 DEF Quit, CallbackEnds, IndexAfterQuit, TypeOK, LocalsInScope
  <2>2. /\ Len(work_handles') = Len(work_handles) - 1
        /\ \A k \in 1..Len(work_handles') :
                work_handles'[k] = IF k < index THEN work_handles[k]
                                                ELSE work_handles[k+1]
    BY <2>1, EraseEffect
  <2>3. ASSUME NEW k \in 1..Len(work_handles')
        PROVE  abs(work_handles'[k]) \in visited' <=> Walked(k)'
    <3>1. Walked(k)' <=> k < index
      BY <2>1 DEF Walked
    <3>2. CASE k < index
      BY <1>1, <2>1, <2>2, <3>1, <3>2 DEF VisitedExactly, Walked
    <3>3. CASE k >= index
      <4>1. k + 1 \in 1..Len(work_handles) /\ k + 1 > index
        BY <1>1, <2>1, <2>2, <3>3
      <4>2. abs(work_handles[k+1]) \notin visited
        BY <1>1, <2>1, <4>1 DEF VisitedExactly, Walked
      <4> QED
        BY <1>1, <2>1, <2>2, <3>1, <3>3, <4>2
    <3> QED
      BY <1>1, <3>2, <3>3
  <2> QED
    BY <2>1, <2>3 DEF VisitedExactly
<1>7. CASE LockWork \/ CopyToken \/ CopyDone \/ RemoveToken \/ UnlockWork
           \/ FinishPass \/ Loop
  <2>1. worker' \notin {"update", "callback", "called"}
    BY <1>7 DEF LockWork, CopyToken, CopyDone, RemoveToken, UnlockWork,
       FinishPass, Loop, Sleep, WakeSpuriously, Stop, StartPass, Goes
  <2> QED
    BY <2>1 DEF VisitedExactly
<1>8. CASE End \/ UNCHANGED vars
  BY <1>8 DEF End, BeginEnd, NotifyAll, Join, WakeWorker, vars, shared, table,
     locals, history, VisitedExactly, Walked
<1> QED
  BY <1>2, <1>3, <1>4, <1>5, <1>6, <1>7, <1>8 DEF Next, Pass, Terminated

LEMMA WalkImplies == WalkInv => EveryHandleOncePerPass
<1> SUFFICES ASSUME TypeOK, MatchPointwise, VisitedExactly, worker = "update"
             PROVE  IF index <= Len(work_handles)
                    THEN CurrentSocket \notin visited
                    ELSE DOMAIN work_info \subseteq visited
  BY DEF WalkInv, TypeInv, EveryHandleOncePerPass
<1>1. index \in 1..(Len(work_handles) + 1) /\ Len(work_handles) \in Nat
  BY DEF TypeOK
<1>2. ASSUME index <= Len(work_handles) PROVE CurrentSocket \notin visited
  BY <1>1, <1>2 DEF VisitedExactly, Walked, CurrentSocket
<1>3. ASSUME ~(index <= Len(work_handles)), NEW s \in DOMAIN work_info
      PROVE  s \in visited
  <2>1. PICK k \in 1..Len(work_handles) : abs(work_handles[k]) = s
    BY DEF MatchPointwise
  <2> QED
    BY <1>1, <1>3, <2>1 DEF VisitedExactly, Walked
<1> QED
  BY <1>2, <1>3

\* Each pass calls each registered socket exactly once.
THEOREM WalkCorrect == Spec => []EveryHandleOncePerPass
<1>1. Init => WalkInv
  BY TypeInvInit, MatchInit DEF WalkInv, VisitedExactly, Init
<1>2. WalkInv /\ [Next]_vars => WalkInv'
  BY TypeInvNext, MatchNext, WalkNext DEF WalkInv
<1> QED
  BY <1>1, <1>2, WalkImplies, PTL DEF Spec
-----------------------------------------------------------------------------
(* Ignored handles and sleep *)

\* Of the handles before the position i, those whose callbacks asked to be ignored.
IgnoredBefore(i) == {j \in 1..(i - 1) : answer[abs(work_handles[j])] = "IGNORE"}

\* The walk counts them, and the flag that it leaves behind is raised if there
\* are others.
IgnoredCounted ==
    /\ worker \in {"update", "callback", "called"} =>
            ignored = Cardinality(IgnoredBefore(index))
    /\ worker = "check" /\ ~thread_has_work => AllIgnored
    /\ worker = "waiting" => AllIgnored

SleepInv == TypeInv /\ MatchPointwise /\ IgnoredCounted

LEMMA IgnoredFinite ==
    ASSUME NEW i \in Int
    PROVE  IsFiniteSet(IgnoredBefore(i)) /\ Cardinality(IgnoredBefore(i)) \in Nat
<1>1. IgnoredBefore(i) \subseteq 1..(i - 1) /\ IsFiniteSet(1..(i - 1))
  BY FS_Interval DEF IgnoredBefore
<1> QED
  BY <1>1, FS_Subset, FS_CardinalityType

\* At the end of the walk, the count is the length of the vector if all the
\* registered sockets are ignored, and only then.
LEMMA CountAtEnd ==
    ASSUME SleepInv, worker = "update", index > Len(work_handles)
    PROVE  ignored = Len(work_handles) <=> AllIgnored
<1> DEFINE n == Len(work_handles)
<1>1. n \in Nat /\ index = n + 1
  BY DEF SleepInv, TypeInv, TypeOK
<1>2. /\ IsFiniteSet(1..n) /\ Cardinality(1..n) = n
      /\ IgnoredBefore(index) \subseteq 1..n
      /\ ignored = Cardinality(IgnoredBefore(index))
  <2>1. IsFiniteSet(1..n) /\ Cardinality(1..n) = n
    <3> HIDE DEF n
    <3>1. 1 \in Int /\ n \in Int
      BY <1>1
    <3>2. IsFiniteSet(1..n) /\ Cardinality(1..n) = IF 1 > n THEN 0 ELSE n - 1 + 1
      BY <3>1, FS_Interval, Zenon
    <3> QED
      BY <1>1, <3>2
  <2>2. IgnoredBefore(index) \subseteq 1..n
    BY <1>1 DEF IgnoredBefore
  <2> QED
    BY <2>1, <2>2 DEF SleepInv, IgnoredCounted
<1>3. ignored = n <=> IgnoredBefore(index) = 1..n
  BY <1>2, FS_Subset
<1>4. IgnoredBefore(index) = 1..n <=> \A j \in 1..n : answer[abs(work_handles[j])] = "IGNORE"
  BY <1>1 DEF IgnoredBefore
<1>5. (\A j \in 1..n : answer[abs(work_handles[j])] = "IGNORE") <=> AllIgnored
  BY DEF AllIgnored, SleepInv, MatchPointwise
<1> QED
  BY <1>3, <1>4, <1>5

\* The counts of the walk, over an answer and an erasure.
LEMMA CountOfAnswer ==
    ASSUME SleepInv, Ignore \/ Continue \/ Quit
    PROVE  ignored' = Cardinality(IgnoredBefore(index))'
<1> USE DEF SleepInv, TypeInv
<1>1. /\ index \in 1..Len(work_handles) /\ Len(work_handles) \in Nat
      /\ ignored = Cardinality(IgnoredBefore(index)) /\ ignored \in Nat
  BY DEF TypeOK, LocalsInScope, Ignore, Continue, Quit, CallbackEnds, IgnoredCounted
<1>2. /\ CurrentSocket \in Sockets /\ CurrentSocket \in Nat
      /\ \A j \in 1..Len(work_handles) : abs(work_handles[j]) \in Sockets
  BY <1>1, AbsOfSigned, SocketsAssumption DEF CurrentSocket, TypeOK
<1>3. \A j \in 1..(index - 1) : /\ j \in 1..Len(work_handles)
                                /\ abs(work_handles[j]) # CurrentSocket
  BY <1>1 DEF MatchPointwise, CurrentSocket
<1>4. answer \in [Sockets -> {"NONE", "CONTINUE", "IGNORE"}]
  BY DEF TypeOK
<1>5. CASE Ignore
  <2>1. /\ ignored' = ignored + 1 /\ index' = index + 1
        /\ answer' = [answer EXCEPT ![CurrentSocket] = "IGNORE"]
    BY <1>1, <1>2, <1>5 DEF Ignore, CountIgnored
  <2>2. \A j \in 1..Len(work_handles) : abs(work_handles'[j]) = abs(work_handles[j])
    BY <1>5, AnswerEffect
  <2>3. IgnoredBefore(index)' = IgnoredBefore(index) \union {index}
    <3>1. IgnoredBefore(index)' = {j \in 1..index : answer'[abs(work_handles'[j])] = "IGNORE"}
      BY <1>1, <2>1 DEF IgnoredBefore
    <3>2. \A j \in 1..(index - 1) : answer'[abs(work_handles'[j])] = answer[abs(work_handles[j])]
      BY <1>2, <1>3, <1>4, <2>1, <2>2
    <3>3. answer'[abs(work_handles'[index])] = "IGNORE"
      BY <1>1, <1>2, <1>4, <2>1, <2>2 DEF CurrentSocket
    <3> QED
      BY <1>1, <3>1, <3>2, <3>3 DEF IgnoredBefore
  <2>4. index \notin IgnoredBefore(index)
    BY <1>1 DEF IgnoredBefore
  <2> QED
    <3> DEFINE before == IgnoredBefore(index)
    <3>1. IsFiniteSet(before) /\ Cardinality(before) = ignored
      BY <1>1, IgnoredFinite
    <3>2. IgnoredBefore(index)' = before \union {index} /\ index \notin before
      BY <2>3, <2>4
    <3>3. Cardinality(IgnoredBefore(index))' = Cardinality(before \union {index})
      BY <3>2
    <3> HIDE DEF before
    <3>4. Cardinality(before \union {index}) = Cardinality(before) + 1
      BY <3>1, <3>2, FS_AddElement
    <3> QED
      BY <2>1, <3>1, <3>3, <3>4
<1>6. CASE Continue
  <2>1. /\ ignored' = ignored /\ index' = index + 1
        /\ answer' = [answer EXCEPT ![CurrentSocket] = "CONTINUE"]
    BY <1>6 DEF Continue
  <2>2. \A j \in 1..Len(work_handles) : abs(work_handles'[j]) = abs(work_handles[j])
    BY <1>6, AnswerEffect
  <2>3. IgnoredBefore(index)' = {j \in 1..index : answer'[abs(work_handles'[j])] = "IGNORE"}
    BY <1>1, <2>1 DEF IgnoredBefore
  <2>4. \A j \in 1..(index - 1) : answer'[abs(work_handles'[j])] = answer[abs(work_handles[j])]
    BY <1>2, <1>3, <1>4, <2>1, <2>2
  <2>5. answer'[abs(work_handles'[index])] = "CONTINUE"
    BY <1>1, <1>2, <1>4, <2>1, <2>2 DEF CurrentSocket
  <2>6. IgnoredBefore(index)' = IgnoredBefore(index)
    BY <1>1, <2>3, <2>4, <2>5 DEF IgnoredBefore
  <2> QED
    BY <1>1, <2>1, <2>6
<1>7. CASE Quit
  <2>1. /\ ignored' = ignored /\ index' = index /\ EraseHandle(index)
        /\ answer' = [answer EXCEPT ![CurrentSocket] = "NONE"]
    BY <1>7 DEF Quit, IndexAfterQuit, EraseHandle, CurrentSocket
  <2>2. \A j \in 1..(index - 1) : work_handles'[j] = work_handles[j]
    <3>1. /\ Len(work_handles') = Len(work_handles) - 1
          /\ \A j \in 1..Len(work_handles') :
                work_handles'[j] = IF j < index THEN work_handles[j]
                                                ELSE work_handles[j+1]
      BY <1>1, <2>1, EraseEffect
    <3> QED
      BY <1>1, <3>1
  <2>3. \A j \in 1..(index - 1) : answer'[abs(work_handles'[j])] = answer[abs(work_handles[j])]
    BY <1>2, <1>3, <1>4, <2>1, <2>2
  <2>4. IgnoredBefore(index)' = IgnoredBefore(index)
    BY <2>1, <2>3 DEF IgnoredBefore
  <2> QED
    BY <1>1, <2>1, <2>4
<1> QED
  BY <1>5, <1>6, <1>7

LEMMA SleepNext == SleepInv /\ [Next]_vars => IgnoredCounted'
<1> SUFFICES ASSUME SleepInv, [Next]_vars PROVE IgnoredCounted'
  OBVIOUS
<1> USE DEF IgnoredCounted
<1>1. ASSUME UNCHANGED <<work_handles, work_info, index, answer, ignored>>
      PROVE  /\ AllIgnored' <=> AllIgnored
             /\ Cardinality(IgnoredBefore(index))' = Cardinality(IgnoredBefore(index))
  BY <1>1 DEF AllIgnored, IgnoredBefore
<1>2. CASE \E t \in Threads : Caller(t)
  <2>1. PICK t \in Threads : Caller(t)
    BY <1>2
  <2>2. /\ UNCHANGED <<work_handles, work_info, index, answer, ignored>>
        /\ \/ worker' = worker
           \/ worker = "callback" /\ worker' = "called"
           \/ worker = "waiting" /\ worker' = "check"
    BY <2>1, CallerKeepsTable
  <2>3. (thread_has_work' = thread_has_work) \/ thread_has_work'
    BY <2>1 DEF Caller, add_object, remove_object, CountPending, notify, Signal,
       granularity, shared, thread
  <2> QED
    BY <1>1, <2>2, <2>3 DEF SleepInv
<1>3. CASE Ignore \/ Continue \/ Quit
  <2>1. worker' = "update"
    BY <1>3 DEF Ignore, Continue, Quit, CallbackEnds
  <2> QED
    BY <1>3, <2>1, CountOfAnswer
<1>4. CASE Poll
  <2>1. worker' = "update" /\ index' = 1 /\ ignored' = 0
    BY <1>4 DEF Poll
  <2>2. IgnoredBefore(index)' = {}
    BY <2>1 DEF IgnoredBefore
  <2> QED
    BY <2>1, <2>2, FS_EmptySet
<1>5. CASE FinishPass
  <2>1. /\ worker = "update" /\ index > Len(work_handles) /\ worker' = "check"
        /\ thread_has_work' = HasWorkLeft /\ UNCHANGED <<work_info, answer>>
    BY <1>5 DEF FinishPass, table
  <2>2. ~thread_has_work' => AllIgnored
    BY <2>1, CountAtEnd DEF HasWorkLeft
  <2> QED
    BY <2>1, <2>2 DEF AllIgnored
<1>6. CASE LockWork \/ CopyToken \/ CopyDone \/ RemoveToken \/ UnlockWork \/ Stop \/ StartPass
  <2>1. worker' \notin {"update", "callback", "called", "check", "waiting"}
    BY <1>6 DEF LockWork, CopyToken, CopyDone, RemoveToken, UnlockWork, Stop, StartPass, Goes
  <2> QED
    BY <2>1
<1>7. CASE InvokeCallback \/ Sleep \/ WakeSpuriously \/ End \/ UNCHANGED vars
  <2>1. UNCHANGED <<work_handles, work_info, index, answer, ignored, thread_has_work>>
    BY <1>7 DEF InvokeCallback, Sleep, WakeSpuriously, Goes, End, BeginEnd, NotifyAll, Join,
       vars, shared, thread, table, locals, history
  <2>2. \/ worker' = worker
        \/ worker = "update" /\ worker' = "callback"
        \/ worker = "check" /\ worker' = "waiting" /\ ~thread_has_work
        \/ worker = "waiting" /\ worker' = "check"
    BY <1>7 DEF InvokeCallback, Sleep, WakeSpuriously, Goes, WakeCondition, End, BeginEnd,
       NotifyAll, WakeWorker, Join, vars
  <2> QED
    BY <1>1, <2>1, <2>2 DEF SleepInv
<1> QED
  BY <1>2, <1>3, <1>4, <1>5, <1>6, <1>7 DEF Next, Pass, Loop, Terminated

\* The worker sleeps only when every registered callback asked to be ignored,
\* and goes on to sleep after a pass in which all of them did.
THEOREM SleepCorrect == Spec => []SleepsIffAllIgnored
<1>1. Init => SleepInv
  BY TypeInvInit, MatchInit DEF SleepInv, IgnoredCounted, AllIgnored, Init
<1>2. SleepInv /\ [Next]_vars => SleepInv'
  BY TypeInvNext, MatchNext, SleepNext DEF SleepInv
<1>3. SleepInv => SleepsIffAllIgnored
  BY CountAtEnd DEF SleepsIffAllIgnored, SleepInv, IgnoredCounted
<1> QED
  BY <1>1, <1>2, <1>3, PTL DEF Spec
-----------------------------------------------------------------------------
(* What a batch of requests makes of a registry *)

\* The k-th add request is the last one for s.
IsLastFor(batch, s, k) ==
    /\ k \in DOMAIN batch /\ batch[k][1] = s
    /\ \A j \in DOMAIN batch : batch[j][1] = s => j <= k

LEMMA LastIs ==
    ASSUME NEW R, NEW batch \in Seq(R), NEW s, NEW k, IsLastFor(batch, s, k)
    PROVE  LastAdded(batch, s) = batch[k][2]
<1>1. DOMAIN batch \subseteq Int
  BY DEF IsLastFor
<1>2. \A j : IsLastFor(batch, s, j) => j = k
  BY <1>1 DEF IsLastFor
<1> DEFINE last == CHOOSE j : IsLastFor(batch, s, j)
<1>3. LastAdded(batch, s) = batch[CHOOSE j \in DOMAIN batch :
            /\ batch[j][1] = s
            /\ \A i \in DOMAIN batch : batch[i][1] = s => i <= j][2]
  BY DEF LastAdded
<1>4. k \in DOMAIN batch /\ batch[k][1] = s /\ \A i \in DOMAIN batch : batch[i][1] = s => i <= k
  BY DEF IsLastFor
<1>5. (CHOOSE j \in DOMAIN batch :
            /\ batch[j][1] = s
            /\ \A i \in DOMAIN batch : batch[i][1] = s => i <= j) = k
  BY <1>2, <1>4 DEF IsLastFor
<1> QED
  BY <1>3, <1>5

LEMMA LastExists ==
    ASSUME NEW R, NEW batch \in Seq(R), NEW s, NEW i \in 1..Len(batch), batch[i][1] = s
    PROVE  \E k \in 1..Len(batch) : IsLastFor(batch, s, k)
<1> DEFINE T == {k \in 1..Len(batch) : batch[k][1] = s}
<1>1. T \subseteq 1..Len(batch) /\ T # {} /\ Len(batch) \in Nat
  OBVIOUS
<1>2. PICK k \in T : \A j \in T : j <= k
  BY <1>1, GreatestOf
<1>3. DOMAIN batch = 1..Len(batch)
  OBVIOUS
<1> QED
  BY <1>2, <1>3 DEF IsLastFor

\* Taking the first add request out of a batch and into the registry changes
\* nothing of what the batch makes of the registry.
LEMMA TakeAddFirst ==
    ASSUME NEW R, NEW batch \in Seq(R), batch # <<>>, NEW reg, NEW gone, NEW after,
           DOMAIN after = DOMAIN reg \union {Head(batch)[1]},
           \A s \in DOMAIN after :
                after[s] = IF s = Head(batch)[1] THEN Head(batch)[2] ELSE reg[s]
    PROVE  AfterBatch(after, Tail(batch), gone) = AfterBatch(reg, batch, gone)
<1> DEFINE t == Tail(batch)
           h == Head(batch)
           Added(b) == {r[1] : r \in Range(b)}
<1>1. /\ t \in Seq(R) /\ Len(t) = Len(batch) - 1 /\ Len(batch) \in Nat \ {0}
      /\ \A i \in 1..Len(t) : t[i] = batch[i + 1]
      /\ h = batch[1]
  BY HeadTailProperties, EmptySeq
<1>2. /\ DOMAIN t = 1..Len(t) /\ DOMAIN batch = 1..Len(batch)
      /\ 1 \in 1..Len(batch)
      /\ \A i \in 1..Len(t) : i + 1 \in 1..Len(batch)
  BY <1>1
<1> HIDE DEF t, h
<1>3. \A s : s \in Added(t) <=> \E i \in 1..Len(t) : t[i][1] = s
  BY <1>2 DEF Range
<1>4. \A s : s \in Added(batch) <=> \E i \in 1..Len(batch) : batch[i][1] = s
  BY <1>2 DEF Range
<1>5. \A s : s \in Added(batch) <=> s = h[1] \/ s \in Added(t)
  <2> TAKE s
  <2>1. ASSUME s \in Added(batch), s # h[1] PROVE s \in Added(t)
    <3>1. PICK i \in 1..Len(batch) : batch[i][1] = s
      BY <1>4, <2>1
    <3>2. i - 1 \in 1..Len(t) /\ t[i - 1] = batch[i]
      BY <1>1, <2>1, <3>1
    <3> QED
      BY <1>3, <3>1, <3>2
  <2>2. ASSUME s \in Added(t) PROVE s \in Added(batch)
    <3>1. PICK i \in 1..Len(t) : t[i][1] = s
      BY <1>3, <2>2
    <3>2. i + 1 \in 1..Len(batch) /\ batch[i + 1] = t[i]
      BY <1>1, <1>2
    <3> QED
      BY <1>4, <3>1, <3>2
  <2>3. h[1] \in Added(batch)
    BY <1>1, <1>2, <1>4
  <2> QED
    BY <2>1, <2>2, <2>3
<1>6. ASSUME NEW s, s \in Added(t) PROVE LastAdded(t, s) = LastAdded(batch, s)
  <2>1. PICK k \in 1..Len(t) : IsLastFor(t, s, k)
    BY <1>1, <1>3, <1>6, LastExists
  <2>2. IsLastFor(batch, s, k + 1)
    <3>1. k + 1 \in 1..Len(batch) /\ batch[k + 1][1] = s
      BY <1>1, <1>2, <2>1 DEF IsLastFor
    <3>2. ASSUME NEW j \in 1..Len(batch), batch[j][1] = s PROVE j <= k + 1
      <4>1. CASE j = 1
        BY <4>1
      <4>2. CASE j # 1
        <5>1. j - 1 \in 1..Len(t) /\ t[j - 1] = batch[j]
          BY <1>1, <4>2
        <5> QED
          BY <1>2, <2>1, <3>2, <5>1 DEF IsLastFor
      <4> QED
        BY <4>1, <4>2
    <3> QED
      BY <1>2, <3>1, <3>2 DEF IsLastFor
  <2>3. LastAdded(t, s) = t[k][2] /\ LastAdded(batch, s) = batch[k + 1][2]
    BY <1>1, <2>1, <2>2, LastIs
  <2> QED
    BY <1>1, <2>1, <2>3
<1>7. h[1] \notin Added(t) => LastAdded(batch, h[1]) = h[2]
  <2> SUFFICES ASSUME h[1] \notin Added(t) PROVE IsLastFor(batch, h[1], 1)
    BY <1>1, LastIs
  <2>1. ASSUME NEW j \in 1..Len(batch), batch[j][1] = h[1] PROVE j <= 1
    <3> SUFFICES ASSUME j # 1 PROVE FALSE
      OBVIOUS
    <3>1. j - 1 \in 1..Len(t) /\ t[j - 1] = batch[j]
      BY <1>1
    <3> QED
      BY <1>3, <2>1, <3>1
  <2> QED
    BY <1>1, <1>2, <2>1 DEF IsLastFor
<1>8. DOMAIN after = DOMAIN reg \union {h[1]}
  BY DEF h
<1>9. \A s \in DOMAIN after : after[s] = IF s = h[1] THEN h[2] ELSE reg[s]
  BY DEF h
<1> DEFINE D == (DOMAIN reg \union Added(batch)) \ Range(gone)
<1>10. (DOMAIN after \union Added(t)) \ Range(gone) = D
  BY <1>5, <1>8
<1>11. ASSUME NEW s \in D
       PROVE  (IF s \in Added(t) THEN LastAdded(t, s) ELSE after[s])
              = (IF s \in Added(batch) THEN LastAdded(batch, s) ELSE reg[s])
  <2>1. CASE s \in Added(t)
    BY <1>5, <1>6, <2>1
  <2>2. CASE s \notin Added(t) /\ s = h[1]
    BY <1>5, <1>7, <1>8, <1>9, <2>2
  <2>3. CASE s \notin Added(t) /\ s # h[1]
    BY <1>5, <1>8, <1>9, <1>11, <2>3
  <2> QED
    BY <2>1, <2>2, <2>3
<1> HIDE DEF Added
<1>12. AfterBatch(after, t, gone) = [s \in (DOMAIN after \union Added(t)) \ Range(gone) |->
                                IF s \in Added(t) THEN LastAdded(t, s) ELSE after[s]]
  BY DEF AfterBatch, Added
<1>13. AfterBatch(reg, batch, gone) = [s \in D |->
                                IF s \in Added(batch) THEN LastAdded(batch, s) ELSE reg[s]]
  BY DEF AfterBatch, Added
<1> HIDE DEF D
<1>14. AfterBatch(after, t, gone) = AfterBatch(reg, batch, gone)
  <2>1. AfterBatch(after, t, gone) = [s \in D |->
                                IF s \in Added(t) THEN LastAdded(t, s) ELSE after[s]]
    BY <1>10, <1>12
  <2>2. [s \in D |-> IF s \in Added(t) THEN LastAdded(t, s) ELSE after[s]]
        = [s \in D |-> IF s \in Added(batch) THEN LastAdded(batch, s) ELSE reg[s]]
    BY <1>11, Zenon
  <2> QED
    BY <1>13, <2>1, <2>2, Zenon
<1> QED
  BY <1>14 DEF t

\* So does taking the first remove request out of a batch without add requests.
LEMMA TakeRemoveFirst ==
    ASSUME NEW S, NEW gone \in Seq(S), gone # <<>>, NEW reg, NEW after,
           DOMAIN after = DOMAIN reg \ {Head(gone)},
           \A s \in DOMAIN after : after[s] = reg[s]
    PROVE  AfterBatch(after, <<>>, Tail(gone)) = AfterBatch(reg, <<>>, gone)
<1> DEFINE t == Tail(gone)
           h == Head(gone)
<1>1. /\ t \in Seq(S) /\ Len(t) = Len(gone) - 1 /\ Len(gone) \in Nat \ {0}
      /\ \A i \in 1..Len(t) : t[i] = gone[i + 1]
      /\ h = gone[1]
  BY HeadTailProperties, EmptySeq
<1> HIDE DEF t, h
<1>2. Range(gone) = Range(t) \union {h}
  <2>1. DOMAIN t = 1..Len(t) /\ DOMAIN gone = 1..Len(gone)
    BY <1>1
  <2>2. \A i \in 1..Len(gone) : i = 1 \/ (i - 1 \in 1..Len(t) /\ t[i - 1] = gone[i])
    BY <1>1
  <2>3. \A i \in 1..Len(t) : i + 1 \in 1..Len(gone)
    BY <1>1
  <2>4. Range(gone) = {gone[i] : i \in 1..Len(gone)} /\ Range(t) = {t[i] : i \in 1..Len(t)}
    BY <2>1 DEF Range
  <2>5. 1 \in 1..Len(gone)
    BY <1>1
  <2> QED
    BY <1>1, <2>2, <2>3, <2>4, <2>5
<1>3. Range(<<>>) = {}
  BY DEF Range
<1>4. AfterBatch(after, <<>>, t) = [s \in DOMAIN after \ Range(t) |-> after[s]]
  BY <1>3 DEF AfterBatch
<1>5. AfterBatch(reg, <<>>, gone) = [s \in DOMAIN reg \ Range(gone) |-> reg[s]]
  BY <1>3 DEF AfterBatch
<1>6. DOMAIN after \ Range(t) = DOMAIN reg \ Range(gone)
  BY <1>2 DEF h
<1> QED
  BY <1>4, <1>5, <1>6 DEF t

LEMMA EmptyBatch == ASSUME NEW reg, reg = [s \in DOMAIN reg |-> reg[s]]
                    PROVE  AfterBatch(reg, <<>>, <<>>) = reg
<1>1. Range(<<>>) = {}
  BY DEF Range
<1> QED
  BY <1>1 DEF AfterBatch
-----------------------------------------------------------------------------
(* The registry that the pipeline implements *)

\* The registry's variables, as ImplementsRegistry reads them.
RegistryNow ==
    IF Draining THEN AfterBatch(work_info, work_pending, work_removed) ELSE work_info
AddsNow == IF Draining THEN <<>> ELSE work_pending
RemovesNow == IF Draining THEN <<>> ELSE work_removed
Calling == worker \in {"callback", "called"}
CurrentNow == IF Calling THEN <<CurrentSocket, work_info[CurrentSocket]>> ELSE <<>>

RegistryUnchanged == UNCHANGED <<RegistryNow, AddsNow, RemovesNow, CurrentNow>>

\* What a state function of a few variables does while these do not change.
LEMMA RegistryKeeps ==
    ASSUME UNCHANGED <<work_info, work_handles, index>>, Draining' = Draining,
           Calling' = Calling
    PROVE  /\ CurrentNow' = CurrentNow
           /\ UNCHANGED <<work_pending, work_removed>> => RegistryUnchanged
<1>1. CurrentSocket' = CurrentSocket
  BY DEF CurrentSocket
<1>2. CurrentNow' = CurrentNow
  BY <1>1 DEF CurrentNow
<1>3. ASSUME UNCHANGED <<work_pending, work_removed>>
      PROVE  UNCHANGED <<RegistryNow, AddsNow, RemovesNow>>
  BY <1>3 DEF RegistryNow, AddsNow, RemovesNow
<1> QED
  BY <1>2, <1>3 DEF RegistryUnchanged

\* The steps of the drain make of the registry what the batch was to make.
LEMMA CopyIsStutter == TypeInv /\ CopyToken => RegistryUnchanged
<1> SUFFICES ASSUME TypeInv, CopyToken PROVE RegistryUnchanged
  OBVIOUS
<1>1. worker = "copy" /\ worker' = "copy" /\ work_pending # <<>>
      /\ work_pending' = Tail(work_pending) /\ work_removed' = work_removed
  BY DEF CopyToken
<1>2. /\ DOMAIN work_info' = DOMAIN work_info \union {Head(work_pending)[1]}
      /\ \A s \in DOMAIN work_info' :
            work_info'[s] = IF s = Head(work_pending)[1] THEN Head(work_pending)[2]
                                                        ELSE work_info[s]
  BY DEF CopyToken
<1>3. work_pending \in Seq(Sockets \X Objects)
  BY DEF TypeInv, TypeOK
<1>4. AfterBatch(work_info', Tail(work_pending), work_removed)
        = AfterBatch(work_info, work_pending, work_removed)
  <2>1. work_pending # <<>>
    BY <1>1
  <2> DEFINE R == Sockets \X Objects
  <2>2. work_pending \in Seq(R)
    BY <1>3
  <2> HIDE DEF R
  <2> QED
    BY <1>2, <2>1, <2>2, TakeAddFirst, SMTT(30)
<1>5. RegistryNow' = RegistryNow
  BY <1>1, <1>4 DEF RegistryNow, Draining
<1> QED
  BY <1>1, <1>5 DEF RegistryUnchanged, AddsNow, RemovesNow, CurrentNow, Draining, Calling

LEMMA RemoveIsStutter == TypeInv /\ MatchPointwise /\ RemoveToken => RegistryUnchanged
<1> SUFFICES ASSUME TypeInv, MatchPointwise, RemoveToken PROVE RegistryUnchanged
  OBVIOUS
<1> DEFINE socket == Head(work_removed)
<1>1. /\ worker = "remove" /\ worker' = "remove" /\ work_removed # <<>>
      /\ work_removed' = Tail(work_removed) /\ work_pending' = work_pending
  BY DEF RemoveToken
<1>2. work_pending = <<>>
  BY <1>1 DEF TypeInv, LocalsInScope
<1>3. work_removed \in Seq(Sockets) /\ DOMAIN work_handles = 1..Len(work_handles)
      /\ work_info = [s \in DOMAIN work_info |-> work_info[s]]
  BY DEF TypeInv, TypeOK
<1>4. /\ DOMAIN work_info' = DOMAIN work_info \ {socket}
      /\ \A s \in DOMAIN work_info' : work_info'[s] = work_info[s]
  <2>1. ASSUME NEW k \in 1..Len(work_handles), IsFirstHandleOf(k, socket), EraseHandle(k)
        PROVE  <1>4
    BY <2>1 DEF IsFirstHandleOf, EraseHandle, Restrict
  <2>2. ASSUME \A k \in 1..Len(work_handles) : ~IsFirstHandleOf(k, socket),
               work_info' = work_info
        PROVE  <1>4
    <3> DEFINE T == {k \in 1..Len(work_handles) : abs(work_handles[k]) = socket}
    <3>1. T = {}
      <4> SUFFICES ASSUME T # {} PROVE FALSE
        OBVIOUS
      <4>1. T \subseteq Nat
        OBVIOUS
      <4>2. PICK k \in T : \A j \in T : k <= j
        BY <4>1, LeastOf
      <4>3. \A j \in 1..k - 1 : j \in 1..Len(work_handles) /\ ~(k <= j)
        BY <1>3, <4>2 DEF TypeInv, TypeOK
      <4>4. IsFirstHandleOf(k, socket)
        BY <1>3, <4>2, <4>3 DEF IsFirstHandleOf
      <4> QED
        BY <2>2, <4>2, <4>4
    <3>2. socket \notin DOMAIN work_info
      BY <3>1 DEF MatchPointwise
    <3> QED
      BY <2>2, <3>2
  <2> QED
    BY <1>3, <2>1, <2>2 DEF RemoveToken, table
<1>5. AfterBatch(work_info', <<>>, Tail(work_removed)) = AfterBatch(work_info, <<>>, work_removed)
  BY <1>1, <1>3, <1>4, TakeRemoveFirst
<1>6. RegistryNow' = RegistryNow
  BY <1>1, <1>2, <1>5 DEF RegistryNow, Draining
<1> QED
  BY <1>1, <1>6 DEF RegistryUnchanged, AddsNow, RemovesNow, CurrentNow, Draining, Calling

LEMMA UnlockIsStutter == TypeInv /\ UnlockWork => RegistryUnchanged
<1> SUFFICES ASSUME TypeInv, UnlockWork PROVE RegistryUnchanged
  OBVIOUS
<1>1. /\ worker = "remove" /\ worker' = "poll"
      /\ work_removed = <<>> /\ UNCHANGED <<work_info, work_pending, work_removed>>
  BY DEF UnlockWork, Goes, shared, table, requests
<1>2. work_pending = <<>> /\ work_info = [s \in DOMAIN work_info |-> work_info[s]]
  BY <1>1 DEF TypeInv, LocalsInScope, TypeOK
<1>3. AfterBatch(work_info, work_pending, work_removed) = work_info
  BY <1>1, <1>2, EmptyBatch
<1>4. RegistryNow' = RegistryNow
  BY <1>1, <1>3 DEF RegistryNow, Draining
<1> QED
  BY <1>1, <1>2, <1>4 DEF RegistryUnchanged, AddsNow, RemovesNow, CurrentNow, Draining, Calling

\* A call is a request, or nothing that the registry knows of.
LEMMA CallerIsRequest ==
    ASSUME TypeInv, NEW t \in Threads, Caller(t)
    PROVE  RegistryUnchanged \/ Registry!RequestAdd \/ Registry!RequestRemove
<1>1. /\ UNCHANGED <<work_handles, work_info, index>>
      /\ Draining' = Draining /\ Calling' = Calling
  BY CallerKeepsTable DEF Draining, Calling
<1>2. CurrentNow' = CurrentNow
  BY <1>1, RegistryKeeps
<1>3. ASSUME NEW s \in Sockets, NEW o \in Objects, add_object(t, s, o)
      PROVE  Registry!RequestAdd
  <2>1. ~Draining /\ work_pending' = Append(work_pending, <<s, o>>)
        /\ work_removed' = work_removed
    BY <1>3 DEF add_object, WorkFree, Draining
  <2>2. /\ AddsNow' = Append(AddsNow, <<s, o>>)
        /\ UNCHANGED <<RegistryNow, RemovesNow, CurrentNow>>
    BY <1>1, <1>2, <2>1 DEF AddsNow, RegistryNow, RemovesNow
  <2>3. <<s, o>> \in Sockets \X Objects
    OBVIOUS
  <2> QED
    BY <2>2, <2>3 DEF Registry!RequestAdd, Registry!Requests, AddsNow, RegistryNow,
       RemovesNow, CurrentNow, Calling
<1>4. ASSUME NEW s \in Sockets, remove_object(t, s)
      PROVE  Registry!RequestRemove
  <2>1. ~Draining /\ work_removed' = Append(work_removed, s)
        /\ work_pending' = work_pending
    BY <1>4 DEF remove_object, WorkFree, Draining
  <2>2. /\ RemovesNow' = Append(RemovesNow, s)
        /\ UNCHANGED <<RegistryNow, AddsNow, CurrentNow>>
    BY <1>1, <1>2, <2>1 DEF AddsNow, RegistryNow, RemovesNow
  <2> QED
    BY <2>2 DEF Registry!RequestRemove, AddsNow, RegistryNow, RemovesNow, CurrentNow, Calling
<1>5. CASE CountPending(t) \/ notify(t) \/ Signal(t)
           \/ \E milliseconds \in Granularities : granularity(t, milliseconds)
  <2>1. UNCHANGED <<work_pending, work_removed>>
    BY <1>5 DEF CountPending, notify, Signal, granularity, shared, requests
  <2> QED
    BY <1>1, <2>1, RegistryKeeps
<1> QED
  BY <1>3, <1>4, <1>5 DEF Caller

\* The instance has its own copies of what it extends.
LEMMA SameBatch ==
    ASSUME NEW reg, NEW batch, NEW gone
    PROVE  Registry!AfterBatch(reg, batch, gone) = AfterBatch(reg, batch, gone)
<1>1. \A f : Registry!Range(f) = Range(f)
  BY DEF Registry!Range, Range
<1>2. \A s : Registry!LastAdded(batch, s) = LastAdded(batch, s)
  BY DEF Registry!LastAdded, LastAdded
<1> QED
  BY <1>1, <1>2, Zenon DEF Registry!AfterBatch, AfterBatch

LEMMA StepsAreRegistrySteps ==
    TypeInv /\ MatchPointwise /\ [Next]_vars => [Registry!Next]_Registry!vars
<1> SUFFICES ASSUME TypeInv, MatchPointwise, [Next]_vars PROVE [Registry!Next]_Registry!vars
  OBVIOUS
<1>1. RegistryUnchanged => [Registry!Next]_Registry!vars
  BY DEF RegistryUnchanged, Registry!vars, RegistryNow, AddsNow, RemovesNow, CurrentNow, Calling
<1>2. CASE CopyToken \/ RemoveToken \/ UnlockWork
  BY <1>1, <1>2, CopyIsStutter, RemoveIsStutter, UnlockIsStutter
<1>3. CASE \E t \in Threads : Caller(t)
  BY <1>1, <1>3, CallerIsRequest DEF Registry!Next
<1>4. CASE LockWork
  <2>1. /\ worker = "dowork" /\ worker' = "copy"
        /\ UNCHANGED <<work_info, work_pending, work_removed>>
    BY <1>4 DEF LockWork, shared, table, requests
  <2>2. Registry!ApplyBatch
    BY <2>1, SameBatch DEF Registry!ApplyBatch, Draining
  <2> QED
    BY <2>2 DEF Registry!Next
<1>5. CASE InvokeCallback
  <2>1. /\ worker = "update" /\ worker' = "callback" /\ index \in 1..Len(work_handles)
        /\ UNCHANGED <<work_handles, work_info, work_pending, work_removed, index>>
    BY <1>5 DEF InvokeCallback, shared, table, requests, locals, TypeInv, TypeOK
  <2>2. CurrentSocket \in DOMAIN work_info /\ CurrentSocket' = CurrentSocket
    BY <2>1 DEF MatchPointwise, CurrentSocket
  <2>3. Registry!Call
    BY <2>1, <2>2 DEF Registry!Call, Draining
  <2> QED
    BY <2>3 DEF Registry!Next
<1>6. CASE Ignore \/ Continue
  <2>1. /\ worker \in {"callback", "called"} /\ worker' = "update"
        /\ UNCHANGED <<work_info, work_pending, work_removed>>
    BY <1>6 DEF Ignore, Continue, CallbackEnds, requests
  <2>2. Registry!Return
    BY <2>1 DEF Registry!Return, Draining
  <2> QED
    BY <2>2 DEF Registry!Next
<1>7. CASE Quit
  <2>1. /\ worker \in {"callback", "called"} /\ worker' = "update"
        /\ work_info' = Restrict(work_info, DOMAIN work_info \ {CurrentSocket})
        /\ UNCHANGED <<work_pending, work_removed>>
    BY <1>7 DEF Quit, CallbackEnds, EraseHandle, CurrentSocket, requests
  <2>2. Registry!Quit
    BY <2>1 DEF Registry!Quit, Registry!Restrict, Restrict, Draining
  <2> QED
    BY <2>2 DEF Registry!Next
<1>8. CASE CopyDone \/ Poll \/ FinishPass
  <2>1. /\ UNCHANGED <<work_info, work_pending, work_removed>>
        /\ Draining' = Draining /\ ~Calling /\ ~Calling'
    BY <1>8 DEF CopyDone, Goes, Poll, FinishPass, shared, table, requests, Draining, Calling
  <2> QED
    BY <1>1, <2>1 DEF RegistryUnchanged, RegistryNow, AddsNow, RemovesNow, CurrentNow
<1>9. CASE Loop \/ End \/ UNCHANGED vars
  <2>1. /\ UNCHANGED <<work_info, work_handles, index, work_pending, work_removed>>
        /\ Draining' = Draining /\ Calling' = Calling
    BY <1>9 DEF Loop, Sleep, WakeSpuriously, Stop, StartPass, Goes, End, BeginEnd, NotifyAll,
       WakeWorker, Join, vars, shared, table, requests, locals, Draining, Calling
  <2> QED
    BY <1>1, <2>1, RegistryKeeps
<1> QED
  BY <1>2, <1>3, <1>4, <1>5, <1>6, <1>7, <1>8, <1>9 DEF Next, Pass, Terminated

\* The pipeline is a registry whose requests take effect batch by batch between
\* two callbacks, the last add of a socket and every remove of it winning, and
\* whose callbacks go to the registered object.
THEOREM RegistryImplemented == Spec => ImplementsRegistry
<1>1. Init => Registry!Init
  BY DEF Init, Registry!Init, Draining
<1> QED
  BY <1>1, TypeInvInit, TypeInvNext, MatchInit, MatchNext, StepsAreRegistrySteps, PTL
     DEF Spec, ImplementsRegistry, Registry!Spec
=============================================================================
