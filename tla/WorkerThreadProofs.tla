------------------------- MODULE WorkerThreadProofs -------------------------
(***************************************************************************)
(* Proofs about WorkerThread, for any clients and any bound: every         *)
(* variable keeps its type, and the worker is never blocked on work posted *)
(* under m_thread_mtx_ or on a shutdown with nobody left to notify it.     *)
(*                                                                         *)
(* NoLostWork is not inductive.  What makes it so is who holds the mutex   *)
(* (MutexInv): between the test and the block it is the worker, so neither *)
(* a locked post nor the destructor can change the condition it tested     *)
(* (BlockInv).                                                             *)
(***************************************************************************)
EXTENDS WorkerThread, TLAPS

MutexInv ==
    /\ post[Worker] # "idle" => worker = "repost"
    /\ thread_mtx = Worker
            <=> worker \in {"test", "block"} \/ post[Worker] = "unlock"
    /\ \A t \in Clients : thread_mtx = t <=> post[t] = "unlock"
    /\ thread_mtx = Main <=> main = "unlock"

BlockInv ==
    /\ worker \in {"working", "repost"} => main = "running"
    /\ main = "constructing" => work = 0
    /\ shutting_down => main \in {"unlock", "notify", "join", "joined"}
    /\ worker = "block" => ~shutting_down /\ (locked_post => ~HasWork)

-----------------------------------------------------------------------------
\* Every variable keeps its type; in particular a turn of the printer never
\* takes more values than there are.
LEMMA TypeOKInit == Init => TypeOK
<1> SUFFICES ASSUME Init PROVE TypeOK
  OBVIOUS
<1>1. post \in [Posters -> {"idle", "unlock", "notify"}]
  BY DEF Init
<1> QED
  BY <1>1 DEF Init, TypeOK

LEMMA TypeOKNext == TypeOK /\ [Next]_vars => TypeOK'
<1> SUFFICES ASSUME TypeOK, [Next]_vars PROVE TypeOK'
  OBVIOUS
<1> USE DEF TypeOK, Posters
<1>1. ASSUME NEW t \in Posters, Poster(t) PROVE TypeOK'
  <2>1. CASE PostUnlocked(t)
    BY <2>1 DEF PostUnlocked, AfterPost, WorkerAfterNotify
  <2>2. CASE PostLock(t)
    BY <2>2 DEF PostLock
  <2>3. CASE PostUnlock(t)
    BY <2>3 DEF PostUnlock
  <2>4. CASE PostNotify(t)
    BY <2>4 DEF PostNotify, AfterPost, WorkerAfterNotify
  <2> QED
    BY <1>1, <2>1, <2>2, <2>3, <2>4 DEF Poster
<1>2. CASE Lock
  BY <1>2 DEF Lock
<1>3. CASE TestFails
  BY <1>3 DEF TestFails
<1>4. CASE Block
  BY <1>4 DEF Block
<1>5. CASE TestHolds
  BY <1>5 DEF TestHolds, ReleasesMutex
<1>6. CASE DoWork
  BY <1>6 DEF DoWork, AfterDowork
<1>7. CASE WorkTurn
  BY <1>7 DEF WorkTurn, LeftAfterTurn
<1>8. CASE WorkDone
  BY <1>8 DEF WorkDone, AfterDowork
<1>9. CASE WakeSpuriously
  BY <1>9 DEF WakeSpuriously
<1>10. CASE End
  BY <1>10 DEF End, ConstructSubclass, DestroySubclass, EndLock, EndUnlock,
     EndNotify, Join, WorkerAfterNotify
<1>11. CASE UNCHANGED vars
  BY <1>11 DEF vars
<1> QED
  BY <1>1, <1>2, <1>3, <1>4, <1>5, <1>6, <1>7, <1>8, <1>9, <1>10, <1>11
  DEF Next, WorkerStep, Terminated

\* TypeOK for every number of clients and every bound.
THEOREM TypeCorrect == Spec => []TypeOK
  BY TypeOKInit, TypeOKNext, PTL DEF Spec

-----------------------------------------------------------------------------
\* The mutex has the owner that the program counters say it has.
LEMMA MutexInit == Init => MutexInv
  BY ThreadsAssumption DEF Init, MutexInv, Posters

LEMMA MutexNext == TypeOK /\ MutexInv /\ [Next]_vars => MutexInv'
<1> SUFFICES ASSUME TypeOK, MutexInv, [Next]_vars PROVE MutexInv'
  OBVIOUS
<1> USE ThreadsAssumption DEF TypeOK, MutexInv, Posters
<1>1. ASSUME NEW t \in Posters, Poster(t) PROVE MutexInv'
  <2>1. CASE PostUnlocked(t)
    BY <2>1 DEF PostUnlocked, CanPost, AfterPost, WorkerAfterNotify
  <2>2. CASE PostLock(t)
    BY <2>2 DEF PostLock, CanPost
  <2>3. CASE PostUnlock(t)
    BY <2>3 DEF PostUnlock
  <2>4. CASE PostNotify(t)
    BY <2>4 DEF PostNotify, AfterPost, WorkerAfterNotify
  <2> QED
    BY <1>1, <2>1, <2>2, <2>3, <2>4 DEF Poster
<1>2. CASE Lock
  BY <1>2 DEF Lock
<1>3. CASE TestFails
  BY <1>3 DEF TestFails
<1>4. CASE Block
  BY <1>4 DEF Block
<1>5. CASE TestHolds
  BY <1>5 DEF TestHolds, ReleasesMutex
<1>6. CASE DoWork
  BY <1>6 DEF DoWork, AfterDowork
<1>7. CASE WorkTurn
  BY <1>7 DEF WorkTurn
<1>8. CASE WorkDone
  BY <1>8 DEF WorkDone, AfterDowork
<1>9. CASE WakeSpuriously
  BY <1>9 DEF WakeSpuriously
<1>10. CASE End
  BY <1>10 DEF End, ConstructSubclass, DestroySubclass, EndLock, EndUnlock,
     EndNotify, Join, WorkerAfterNotify
<1>11. CASE UNCHANGED vars
  BY <1>11 DEF vars
<1> QED
  BY <1>1, <1>2, <1>3, <1>4, <1>5, <1>6, <1>7, <1>8, <1>9, <1>10, <1>11
  DEF Next, WorkerStep, Terminated

\* Whatever the threads do, m_thread_mtx_ is held by exactly the thread whose
\* program counter is inside a section that locks it (_M_begin's wait,
\* _M_locked_run, _M_end), and by nobody otherwise.
THEOREM MutexCorrect == Spec => []MutexInv
<1>1. Init => TypeOK /\ MutexInv
  BY TypeOKInit, MutexInit
<1>2. TypeOK /\ MutexInv /\ [Next]_vars => (TypeOK /\ MutexInv)'
  BY TypeOKNext, MutexNext
<1> QED
  BY <1>1, <1>2, PTL DEF Spec

-----------------------------------------------------------------------------
\* What the worker found false under the mutex stays false until it blocks.
LEMMA BlockInit == Init => BlockInv
  BY DEF Init, BlockInv

LEMMA BlockNext ==
    TypeOK /\ MutexInv /\ BlockInv /\ [Next]_vars => BlockInv'
<1> SUFFICES ASSUME TypeOK, MutexInv, BlockInv, [Next]_vars PROVE BlockInv'
  OBVIOUS
<1> USE ThreadsAssumption DEF TypeOK, MutexInv, BlockInv, Posters, HasWork
<1>1. ASSUME NEW t \in Posters, Poster(t) PROVE BlockInv'
  <2>1. CASE PostUnlocked(t)
    BY <2>1 DEF PostUnlocked, CanPost, AfterPost, WorkerAfterNotify
  <2>2. CASE PostLock(t)
    BY <2>2 DEF PostLock, CanPost
  <2>3. CASE PostUnlock(t)
    BY <2>3 DEF PostUnlock
  <2>4. CASE PostNotify(t)
    BY <2>4 DEF PostNotify, AfterPost, WorkerAfterNotify
  <2> QED
    BY <1>1, <2>1, <2>2, <2>3, <2>4 DEF Poster
<1>2. CASE WorkerStep \/ WakeSpuriously
  <2>1. CASE TestFails
    BY <2>1 DEF TestFails, WakeCondition
  <2>2. CASE Poster(Worker)
    BY <2>2, <1>1
  <2> QED
    BY <1>2, <2>1, <2>2 DEF WorkerStep, WakeSpuriously, Lock, Block, TestHolds,
       DoWork, AfterDowork, WorkTurn, LeftAfterTurn, WorkDone
<1>3. CASE End
  BY <1>3 DEF End, ConstructSubclass, DestroySubclass, EndLock, EndUnlock,
     EndNotify, Join, WorkerAfterNotify
<1>4. CASE UNCHANGED vars
  BY <1>4 DEF vars
<1> QED
  BY <1>1, <1>2, <1>3, <1>4 DEF Next, Terminated

-----------------------------------------------------------------------------
\* A post or a shutdown that finds the worker blocked still owes it a
\* notification.
LEMMA NoLostWorkInit == Init => NoLostWork
  BY DEF Init, NoLostWork

LEMMA NoLostWorkNext ==
    TypeOK /\ MutexInv /\ BlockInv /\ NoLostWork /\ [Next]_vars => NoLostWork'
<1> SUFFICES ASSUME TypeOK, MutexInv, BlockInv, NoLostWork, [Next]_vars,
                    worker' = "blocked"
             PROVE  NoLostWork'
  BY DEF NoLostWork
<1> USE DEF NoLostWork, HasWork
<1>1. CASE Block
  BY <1>1 DEF Block, BlockInv
<1>2. ASSUME NEW t \in Posters, Poster(t) PROVE NoLostWork'
  <2>1. CASE PostUnlocked(t)
    BY <2>1 DEF PostUnlocked, AfterPost, WorkerAfterNotify
  <2>2. CASE PostLock(t)
    <3>1. t \in Clients
      BY <2>2 DEF PostLock, CanPost, Posters
    <3>2. post'[t] = "unlock"
      BY <2>2 DEF PostLock, TypeOK
    <3> QED
      BY <2>2, <3>1, <3>2 DEF PostLock
  <2>3. CASE PostUnlock(t)
    <3>1. /\ post'[t] = "notify"
          /\ \A u \in Clients \ {t} : post'[u] = post[u]
      BY <2>3 DEF PostUnlock, TypeOK, Posters
    <3> QED
      BY <2>3, <3>1 DEF PostUnlock
  <2>4. CASE PostNotify(t)
    BY <2>4 DEF PostNotify, AfterPost, WorkerAfterNotify
  <2> QED
    BY <1>2, <2>1, <2>2, <2>3, <2>4 DEF Poster
<1>3. CASE WorkerStep \/ WakeSpuriously
  BY <1>1, <1>2, <1>3 DEF WorkerStep, WakeSpuriously, Lock, TestFails,
     TestHolds, DoWork, AfterDowork, WorkTurn, WorkDone, Posters
<1>4. CASE End
  BY <1>4 DEF End, ConstructSubclass, DestroySubclass, EndLock, EndUnlock,
     EndNotify, Join, WorkerAfterNotify, BlockInv, TypeOK
<1>5. CASE UNCHANGED vars
  BY <1>5 DEF vars
<1> QED
  BY <1>2, <1>3, <1>4, <1>5 DEF Next, Terminated, Posters

\* No wake-up is lost for work posted under m_thread_mtx_ or for the shutdown.
THEOREM WakeupCorrect == Spec => []NoLostWork
<1>1. Init => TypeOK /\ MutexInv /\ BlockInv /\ NoLostWork
  BY TypeOKInit, MutexInit, BlockInit, NoLostWorkInit
<1>2. TypeOK /\ MutexInv /\ BlockInv /\ NoLostWork /\ [Next]_vars
        => (TypeOK /\ MutexInv /\ BlockInv /\ NoLostWork)'
  BY TypeOKNext, MutexNext, BlockNext, NoLostWorkNext
<1> QED
  BY <1>1, <1>2, PTL DEF Spec
=============================================================================
