---------------------------- MODULE WorkerThread ----------------------------
(***************************************************************************)
(* worker_thread: a base class whose thread waits until a virtual          *)
(* _M_has_work() holds and then runs a virtual _M_dowork().                *)
(*                                                                         *)
(* The subclass is the printer of test_worker_thread.cpp: its work is a    *)
(* list of values under a mutex of its own (here only their number), and   *)
(* its _M_dowork takes one or two of them at a time and may post one more. *)
(* locked_post says how the subclass posts: FALSE as the printer does, a   *)
(* push and a notify_one under its own mutex only; TRUE through            *)
(* _M_locked_run, under m_thread_mtx_.  The sections under the subclass's  *)
(* mutex are single steps.  m_thread_mtx_ is a variable, because the wait  *)
(* tests its condition and blocks in two steps that only it makes one.     *)
(*                                                                         *)
(* The base's constructor starts the thread before the subclass exists,    *)
(* and its destructor ends it after the subclass is gone: in between the   *)
(* virtual calls reach the base's functions, which never have work.  The   *)
(* program gives the worker time to leave the subclass's functions before  *)
(* it destroys the object, as the test does by sleeping: the code does not *)
(* see to it, and without it the worker would run on a destroyed object.   *)
(*                                                                         *)
(* Left out: _M_register_obj (a list nothing reads), an _M_locked_run of   *)
(* no functor.  Bound: clients post while fewer than MaxWork values wait.  *)
(***************************************************************************)
EXTENDS Naturals

CONSTANTS
    Clients,        \* threads that post work
    Worker,         \* the object's own thread
    Main,           \* the thread that constructs and destroys the object
    MaxWork         \* bound on the work that waits

ASSUME ThreadsAssumption ==
    /\ Worker \notin Clients /\ Main \notin Clients /\ Main # Worker
    /\ "free" \notin Clients \union {Worker, Main}
ASSUME MaxWorkAssumption == MaxWork \in Nat \ {0}

VARIABLES
    shutting_down,  \* m_shutting_down_
    thread_mtx,     \* the thread that holds m_thread_mtx_, or "free"
    work,           \* number of values in m_pending_ and m_queue_
    worker,         \* where the worker is in _M_begin
    post,           \* step of each thread's posting in progress
    main,           \* from the subclass's constructor to the end of _M_end
    locked_post     \* whether the subclass posts through _M_locked_run

vars == <<shutting_down, thread_mtx, work, worker, post, main,
          locked_post>>

Posters == Clients \union {Worker}

Init ==
    /\ shutting_down = FALSE
    /\ thread_mtx = "free"
    /\ work = 0
    /\ worker = "lock"
    /\ post = [t \in Posters |-> "idle"]
    /\ main = "constructing"
    /\ locked_post \in BOOLEAN

-----------------------------------------------------------------------------
(* Posting work: printer::dowork, or a functor given to _M_locked_run. *)

\* A notification reaches the worker if it is blocked; it then needs the mutex.
WorkerAfterNotify == IF worker = "blocked" THEN "lock" ELSE worker

\* Clients post while the object lives, the worker from within _M_dowork.
CanPost(t) ==
    /\ post[t] = "idle"
    /\ IF t = Worker THEN worker = "repost"
                     ELSE main = "running" /\ work < MaxWork

\* The worker goes on with _M_dowork once its own posting is done.
AfterPost(t) == IF t = Worker THEN "working" ELSE WorkerAfterNotify

\* The push and the notify_one of the printer, both under its own mutex.
PostUnlocked(t) ==
    /\ ~locked_post
    /\ CanPost(t)
    /\ work' = work + 1
    /\ worker' = AfterPost(t)
    /\ UNCHANGED <<shutting_down, thread_mtx, post, main, locked_post>>

\* _M_locked_run takes the mutex and calls the functor, which pushes.
PostLock(t) ==
    /\ locked_post
    /\ CanPost(t)
    /\ thread_mtx = "free"
    /\ thread_mtx' = t
    /\ work' = work + 1
    /\ post' = [post EXCEPT ![t] = "unlock"]
    /\ UNCHANGED <<shutting_down, worker, main, locked_post>>

PostUnlock(t) ==
    /\ post[t] = "unlock"
    /\ thread_mtx' = "free"
    /\ post' = [post EXCEPT ![t] = "notify"]
    /\ UNCHANGED <<shutting_down, work, worker, main, locked_post>>

PostNotify(t) ==
    /\ post[t] = "notify"
    /\ post' = [post EXCEPT ![t] = "idle"]
    /\ worker' = AfterPost(t)
    /\ UNCHANGED <<shutting_down, thread_mtx, work, main, locked_post>>

-----------------------------------------------------------------------------
(* The worker's loop in _M_begin. *)

\* The unique_lock, or the wait taking the mutex again after it woke.
Lock ==
    /\ worker = "lock"
    /\ thread_mtx = "free"
    /\ thread_mtx' = Worker
    /\ worker' = "test"
    /\ UNCHANGED <<shutting_down, work, post, main, locked_post>>

\* The virtual _M_has_work, under the subclass's mutex if it is the subclass's.
HasWork == main = "running" /\ work > 0

\* Faulty variant: the shutdown is not part of the condition.
WakesOnWorkOnly == HasWork

\* The condition of the wait.
WakeCondition == shutting_down \/ HasWork

TestFails ==
    /\ worker = "test"
    /\ ~WakeCondition
    /\ worker' = "block"
    /\ UNCHANGED <<shutting_down, thread_mtx, work, post, main, locked_post>>

\* The wait blocks and releases the mutex in one step, but not with the test.
Block ==
    /\ worker = "block"
    /\ thread_mtx' = "free"
    /\ worker' = "blocked"
    /\ UNCHANGED <<shutting_down, work, post, main, locked_post>>

WakeSpuriously ==
    /\ worker = "blocked"
    /\ worker' = "lock"
    /\ UNCHANGED <<shutting_down, thread_mtx, work, post, main, locked_post>>

\* Faulty variant: the work is done with the mutex held.
KeepsMutex == UNCHANGED thread_mtx

\* The worker holds the mutex no longer when it runs the subclass's work.
ReleasesMutex == thread_mtx' = "free"

\* The wait returns: the loop breaks on a shutdown and goes to work otherwise.
TestHolds ==
    /\ worker = "test"
    /\ WakeCondition
    /\ ReleasesMutex
    /\ worker' = IF shutting_down THEN "done" ELSE "dowork"
    /\ UNCHANGED <<shutting_down, work, post, main, locked_post>>

\* The loop's condition, once _M_dowork has returned.
AfterDowork == IF shutting_down THEN "done" ELSE "lock"

\* The virtual _M_dowork: the base's does nothing.
DoWork ==
    /\ worker = "dowork"
    /\ worker' = IF main = "running" THEN "working" ELSE AfterDowork
    /\ UNCHANGED <<shutting_down, thread_mtx, work, post, main, locked_post>>

\* Faulty variant: two values are taken even if only one is left.
TakesTwo == work - 2

\* What is left when two values are taken, or the last one.
LeftAfterTurn == IF work = 1 THEN 0 ELSE work - 2

\* One turn of the printer's _M_dowork: it takes two values, or the last one,
\* and posts one more if at least two are left.
WorkTurn ==
    /\ worker = "working"
    /\ work > 0
    /\ work' = LeftAfterTurn
    /\ worker' = IF work' > 1 THEN "repost" ELSE "working"
    /\ UNCHANGED <<shutting_down, thread_mtx, post, main, locked_post>>

\* _M_dowork returns; the loop goes on unless the object is shutting down.
WorkDone ==
    /\ worker = "working"
    /\ work = 0
    /\ worker' = AfterDowork
    /\ UNCHANGED <<shutting_down, thread_mtx, work, post, main, locked_post>>

-----------------------------------------------------------------------------
(* The life of the object: the subclass's, and the destructor's _M_end. *)

ConstructSubclass ==
    /\ main = "constructing"
    /\ main' = "running"
    /\ UNCHANGED <<shutting_down, thread_mtx, work, worker, post, locked_post>>

DestroySubclass ==
    /\ main = "running"
    /\ worker \notin {"working", "repost"}
    /\ \A t \in Clients : post[t] = "idle"
    /\ main' = "destroyed"
    /\ UNCHANGED <<shutting_down, thread_mtx, work, worker, post, locked_post>>

\* Faulty variant: the flag is set without the mutex.
EndLockless ==
    /\ main = "destroyed"
    /\ shutting_down' = TRUE
    /\ main' = "unlock"
    /\ UNCHANGED <<thread_mtx, work, worker, post, locked_post>>

EndLock ==
    /\ main = "destroyed"
    /\ thread_mtx = "free"
    /\ thread_mtx' = Main
    /\ shutting_down' = TRUE
    /\ main' = "unlock"
    /\ UNCHANGED <<work, worker, post, locked_post>>

EndUnlock ==
    /\ main = "unlock"
    /\ thread_mtx' = "free"
    /\ main' = "notify"
    /\ UNCHANGED <<shutting_down, work, worker, post, locked_post>>

EndNotify ==
    /\ main = "notify"
    /\ worker' = WorkerAfterNotify
    /\ main' = "join"
    /\ UNCHANGED <<shutting_down, thread_mtx, work, post, locked_post>>

Join ==
    /\ main = "join"
    /\ worker = "done"
    /\ main' = "joined"
    /\ UNCHANGED <<shutting_down, thread_mtx, work, worker, post, locked_post>>

Terminated == main = "joined" /\ UNCHANGED vars

-----------------------------------------------------------------------------
Poster(t) == PostUnlocked(t) \/ PostLock(t) \/ PostUnlock(t) \/ PostNotify(t)

WorkerStep ==
    \/ Lock \/ TestFails \/ Block \/ TestHolds \/ DoWork \/ WorkTurn \/ WorkDone
    \/ Poster(Worker)

End ==
    \/ ConstructSubclass \/ DestroySubclass
    \/ EndLock \/ EndUnlock \/ EndNotify \/ Join

Next ==
    \/ \E t \in Clients : Poster(t)
    \/ WorkerStep \/ WakeSpuriously \/ End \/ Terminated

Spec == Init /\ [][Next]_vars

(***************************************************************************)
(* Fairness: every thread that can take a step is scheduled, and a mutex   *)
(* that is free again and again is obtained by a thread that waits for it. *)
(* Nothing is assumed of who posts, of spurious wake-ups, or of when the   *)
(* program destroys the object.                                            *)
(***************************************************************************)
Fairness ==
    /\ WF_vars(WorkerStep)
    /\ SF_vars(Lock)
    /\ SF_vars(PostLock(Worker))
    /\ \A t \in Clients : WF_vars(PostUnlock(t) \/ PostNotify(t))
    /\ WF_vars(EndUnlock \/ EndNotify \/ Join)
    /\ SF_vars(EndLock)

FairSpec == Spec /\ Fairness

-----------------------------------------------------------------------------
(* Properties *)

TypeOK ==
    /\ shutting_down \in BOOLEAN
    /\ thread_mtx \in Posters \union {Main, "free"}
    /\ work \in Nat
    /\ worker \in {"lock", "test", "block", "blocked", "dowork", "working",
                   "repost", "done"}
    /\ post \in [Posters -> {"idle", "unlock", "notify"}]
    /\ main \in {"constructing", "running", "destroyed", "unlock", "notify",
                 "join", "joined"}
    /\ locked_post \in BOOLEAN

\* The worker is never blocked on work posted under m_thread_mtx_ or on a
\* shutdown, unless whoever brought it has still to call notify_one: no such
\* notification falls between the wait's test and its blocking (lines 29-31).
NoLostWork ==
    worker = "blocked" =>
        /\ locked_post /\ HasWork =>
                \E t \in Clients : post[t] \in {"unlock", "notify"}
        /\ shutting_down => main \in {"unlock", "notify"}

\* Work posted under m_thread_mtx_ is worked on, unless the object is
\* destroyed first.
WorkServed ==
    locked_post /\ HasWork ~> (worker = "working" \/ main # "running")

\* The destructor's _M_end returns: the worker does not sleep through the
\* shutdown, and a worker that posts to itself does not wait for itself
\* (worker_thread.cpp:33).
ShutdownCompletes == main = "destroyed" ~> main = "joined"
=============================================================================
