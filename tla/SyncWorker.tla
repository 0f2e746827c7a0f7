----------------------------- MODULE SyncWorker ------------------------------
(***************************************************************************)
(* The SyncWorker of the master (SQSMaster.cpp:646-751), access by access. *)
(*                                                                         *)
(*   "main"    the event loop: it appends accepted operations to the queue,*)
(*             locks the worker for a node that recovers and unlocks it    *)
(*             when the node joins;                                        *)
(*   "worker"  Run, which moves the queue to the log file when no lock is  *)
(*             held;                                                       *)
(*   others    the threads that IncrementLock creates to take a lock back  *)
(*             after ten seconds.                                          *)
(*                                                                         *)
(* The mutex qlock is taken by Run and by the second half of IncrementLock *)
(* only.  DecrementLock, the first half of IncrementLock and the appends   *)
(* run without it.  A thread's pc names the point before which it stands;  *)
(* every access of locks that another thread may overlap is a step.        *)
(***************************************************************************)
EXTENDS Integers, Sequences, FiniteSets

CONSTANTS
    Ids,        \* the ids of nodes, name and port in one string
    Expirers,   \* expiry threads; as many locks can be taken in ten seconds
    MaxLines,   \* bound on accepted operations
    MaxLocks,   \* bound on the count, which lost updates may raise and, when
    MaxDebt     \* threads overlap, lower without end: how far below 0 it may
                \* be when a thread reads it

Locker == {"main"} \cup Expirers
Thread == Locker \cup {"worker"}

ASSUME SyncWorkerAssumption ==
    /\ IsFiniteSet(Expirers)
    /\ "main" \notin Expirers /\ "worker" \notin Expirers
    /\ "none" \notin Ids
    /\ {MaxLines, MaxLocks, MaxDebt} \subseteq Nat

VARIABLES
    locks,      \* SyncWorker::locks
    locksVec,   \* SyncWorker::locksVec; an id is erased before it is added,
                \* so it is there once and a set will do
    qlock,      \* the holder of qlock, "none" when free
    pQueue,     \* the deque; a line is the number of its operation
    file,       \* the log file
    accepted,   \* the number of operations accepted so far
    pc,         \* where each thread stands
    raising,    \* main is inside IncrementLock
    id,         \* the id that main or an expiry thread works on, or "none"
    reg,        \* what main or an expiry thread has read from locks and has
                \* not written back, or 0
    sz,         \* Run: how many lines are still to be moved
    lost        \* history: has an "update" of locks been overwritten, has a
                \* "signal" come between the worker's test and its wait
lineVars == <<pQueue, file, accepted, sz>>
vars == <<locks, locksVec, qlock, lineVars, pc, raising, id, reg, lost>>

Init ==
    /\ locks = 0
    /\ locksVec = {}
    /\ qlock = "none"
    /\ pQueue = << >>
    /\ file = << >>
    /\ accepted = 0
    /\ pc = [t \in Thread |-> CASE t = "main"   -> "idle"
                                [] t = "worker" -> "sleep"
                                [] OTHER        -> "free"]
    /\ raising = FALSE
    /\ id = [t \in Locker |-> "none"]
    /\ reg = [t \in Locker |-> 0]
    /\ sz = 0
    /\ lost = {}

Goto(t, label) == pc' = [pc EXCEPT ![t] = label]

-----------------------------------------------------------------------------
(***************************************************************************)
(* The event loop begins.                                                  *)
(***************************************************************************)

\* pQueue->push_back(command), in the handlers of operations.
PushOp ==
    /\ pc["main"] = "idle"
    /\ accepted < MaxLines
    /\ accepted' = accepted + 1
    /\ pQueue' = Append(pQueue, accepted + 1)
    /\ UNCHANGED <<locks, locksVec, qlock, file, sz, pc, raising, id, reg, lost>>

\* IncrementLock(i), for a node that recovers; DecrementLock(i), for a node
\* that has joined.
Request(i, up) ==
    /\ pc["main"] = "idle"
    /\ up => locks < MaxLocks /\ \E e \in Expirers : pc[e] = "free"
    /\ raising' = up
    /\ id' = [id EXCEPT !["main"] = i]
    /\ Goto("main", "find")
    /\ UNCHANGED <<locks, locksVec, qlock, lineVars, reg, lost>>

Increment(i) == Request(i, TRUE)
Decrement(i) == Request(i, FALSE)

\* lockCheckCallback: ten seconds have passed.
WakeUp(e) ==
    /\ pc[e] = "tenSeconds"
    /\ Goto(e, "find")
    /\ UNCHANGED <<locks, locksVec, qlock, lineVars, raising, id, reg, lost>>

-----------------------------------------------------------------------------
(***************************************************************************)
(* DecrementLock, which is also how IncrementLock begins.                  *)
(***************************************************************************)

\* IncrementLock goes on, DecrementLock returns.
Return(t) ==
    IF t # "main" THEN "free" ELSE IF raising THEN "lock" ELSE "idle"
IdAfter(t) ==
    IF t = "main" /\ raising THEN id ELSE [id EXCEPT ![t] = "none"]

\* Look for the id in locksVec and erase it.
FindLock(t) ==
    /\ pc[t] = "find"
    /\ locksVec' = locksVec \ {id[t]}
    /\ IF id[t] \in locksVec THEN Goto(t, "read") /\ UNCHANGED id
       ELSE Goto(t, Return(t)) /\ id' = IdAfter(t)
    /\ UNCHANGED <<locks, qlock, lineVars, raising, reg, lost>>

\* locks--: read ...
ReadLocks(t) ==
    /\ pc[t] = "read"
    /\ locks >= -MaxDebt
    /\ reg' = [reg EXCEPT ![t] = locks]
    /\ Goto(t, "write")
    /\ UNCHANGED <<locks, locksVec, qlock, lineVars, raising, id, lost>>

\* ... and write, whatever others have written in between.
WriteBack(t, value) ==
    /\ locks' = value
    /\ reg' = [reg EXCEPT ![t] = 0]
    /\ lost' = IF reg[t] # locks THEN lost \cup {"update"} ELSE lost

WriteLocks(t) ==
    /\ pc[t] = "write"
    /\ WriteBack(t, reg[t] - 1)
    /\ Goto(t, "signal")
    /\ UNCHANGED <<locksVec, qlock, lineVars, raising, id>>

\* Mutant: the last lock is taken back without a signal.
SignalNever(t) ==
    /\ pc[t] = "signal"
    /\ locks' = IF locks < 0 THEN 0 ELSE locks
    /\ Goto(t, Return(t))
    /\ id' = IdAfter(t)
    /\ UNCHANGED <<locksVec, qlock, lineVars, raising, reg, lost>>

\* if(locks<0) locks=0, and pthread_cond_signal(&qready), which only a worker
\* that waits notices.
Signal(t) ==
    /\ pc[t] = "signal"
    /\ locks' = IF locks < 0 THEN 0 ELSE locks
    /\ LET next == [pc EXCEPT ![t] = Return(t)]
       IN pc' = IF pc["worker"] = "waiting"
                THEN [next EXCEPT !["worker"] = "relock"] ELSE next
    /\ id' = IdAfter(t)
    /\ lost' = IF pc["worker"] = "wait" THEN lost \cup {"signal"} ELSE lost
    /\ UNCHANGED <<locksVec, qlock, lineVars, raising, reg>>

-----------------------------------------------------------------------------
(***************************************************************************)
(* The rest of IncrementLock.                                              *)
(***************************************************************************)

\* Mutant: the count is raised without the mutex.
TakeNoMutex ==
    /\ pc["main"] = "lock"
    /\ reg' = [reg EXCEPT !["main"] = locks]
    /\ Goto("main", "writeUp")
    /\ UNCHANGED <<locks, locksVec, qlock, lineVars, raising, id, lost>>

\* pthread_mutex_lock(&qlock), and the read of locks++ ...
TakeMutex ==
    /\ pc["main"] = "lock"
    /\ qlock = "none"
    /\ qlock' = "main"
    /\ reg' = [reg EXCEPT !["main"] = locks]
    /\ Goto("main", "writeUp")
    /\ UNCHANGED <<locks, locksVec, lineVars, raising, id, lost>>

\* ... and the write.  The id is added, the mutex released and the thread
\* created that will take the lock back.
WriteUp ==
    /\ pc["main"] = "writeUp"
    /\ WriteBack("main", reg["main"] + 1)
    /\ locksVec' = locksVec \cup {id["main"]}
    /\ qlock' = "none"
    /\ \E e \in Expirers :
        /\ pc[e] = "free"
        /\ pc' = [pc EXCEPT !["main"] = "idle", ![e] = "tenSeconds"]
        /\ id' = [id EXCEPT !["main"] = "none", ![e] = id["main"]]
    /\ raising' = FALSE
    /\ UNCHANGED lineVars

-----------------------------------------------------------------------------
(***************************************************************************)
(* SyncWorker::Run.                                                        *)
(***************************************************************************)

\* sleep(sync_interval/1000), or a wait that has ended, and the mutex.
LockQueue ==
    /\ pc["worker"] \in {"sleep", "relock"}
    /\ qlock = "none"
    /\ qlock' = "worker"
    /\ Goto("worker", "test")
    /\ UNCHANGED <<locks, locksVec, lineVars, raising, id, reg, lost>>

\* Mutant: the worker polls with the mutex in its hands.
TestPolling ==
    /\ pc["worker"] = "test"
    /\ Goto("worker", IF locks > 0 THEN "test" ELSE "size")
    /\ UNCHANGED <<locks, locksVec, qlock, lineVars, raising, id, reg, lost>>

\* while(locks>0)
TestLocks ==
    /\ pc["worker"] = "test"
    /\ Goto("worker", IF locks > 0 THEN "wait" ELSE "size")
    /\ UNCHANGED <<locks, locksVec, qlock, lineVars, raising, id, reg, lost>>

\* pthread_cond_wait(&qready,&qlock): gives the mutex back and waits.
Wait ==
    /\ pc["worker"] = "wait"
    /\ qlock' = "none"
    /\ Goto("worker", "waiting")
    /\ UNCHANGED <<locks, locksVec, lineVars, raising, id, reg, lost>>

\* A wait may end without a signal.
SpuriousWakeup ==
    /\ pc["worker"] = "waiting"
    /\ Goto("worker", "relock")
    /\ UNCHANGED <<locks, locksVec, qlock, lineVars, raising, id, reg, lost>>

\* Mutant: the last index is taken for the size.
TakeLastIndex ==
    /\ pc["worker"] = "size"
    /\ sz' = Len(pQueue) - 1
    /\ Goto("worker", "front")
    /\ UNCHANGED <<locks, locksVec, qlock, pQueue, file, accepted, raising, id,
                   reg, lost>>

\* The size first, "to avoid racing".
TakeSize ==
    /\ pc["worker"] = "size"
    /\ sz' = Len(pQueue)
    /\ Goto("worker", "front")
    /\ UNCHANGED <<locks, locksVec, qlock, pQueue, file, accepted, raising, id,
                   reg, lost>>

\* logger->addLog(pQueue->front()).
LogFront ==
    /\ pc["worker"] = "front"
    /\ sz > 0
    /\ file' = Append(file, Head(pQueue))
    /\ Goto("worker", "pop")
    /\ UNCHANGED <<locks, locksVec, qlock, pQueue, accepted, sz, raising, id,
                   reg, lost>>

\* Mutant: after the last line the queue is cleared.
PopAll ==
    /\ pc["worker"] = "pop"
    /\ pQueue' = IF sz = 1 THEN << >> ELSE Tail(pQueue)
    /\ sz' = sz - 1
    /\ Goto("worker", "front")
    /\ UNCHANGED <<locks, locksVec, qlock, file, accepted, raising, id, reg, lost>>

\* pQueue->pop_front().
PopFront ==
    /\ pc["worker"] = "pop"
    /\ pQueue' = Tail(pQueue)
    /\ sz' = sz - 1
    /\ Goto("worker", "front")
    /\ UNCHANGED <<locks, locksVec, qlock, file, accepted, raising, id, reg, lost>>

\* pthread_mutex_unlock(&qlock), and another round.
UnlockQueue ==
    /\ pc["worker"] = "front"
    /\ sz = 0
    /\ qlock' = "none"
    /\ Goto("worker", "sleep")
    /\ UNCHANGED <<locks, locksVec, lineVars, raising, id, reg, lost>>

-----------------------------------------------------------------------------
Unlocking(t) ==
    FindLock(t) \/ ReadLocks(t) \/ WriteLocks(t) \/ Signal(t)

\* What the event loop does until it is idle again.
MainStep == Unlocking("main") \/ TakeMutex \/ WriteUp

Expirer(e) == WakeUp(e) \/ Unlocking(e)

Run ==
    \/ LockQueue \/ TestLocks \/ Wait \/ TakeSize
    \/ LogFront \/ PopFront \/ UnlockQueue

Next ==
    \/ PushOp
    \/ \E i \in Ids : Increment(i) \/ Decrement(i)
    \/ MainStep
    \/ \E e \in Expirers : Expirer(e)
    \/ Run
    \/ SpuriousWakeup

Spec == Init /\ [][Next]_vars

\* A thread that can run does; a mutex that is free again and again is had in
\* the end.  Nothing is assumed of requests and spurious wakeups.
Fairness ==
    /\ WF_vars(MainStep) /\ SF_vars(TakeMutex)
    /\ WF_vars(Run) /\ SF_vars(LockQueue)
    /\ \A e \in Expirers : WF_vars(Expirer(e))

FairSpec == Spec /\ Fairness

-----------------------------------------------------------------------------
(***************************************************************************)
(* Properties.                                                             *)
(***************************************************************************)

UnlockPC == {"find", "read", "write", "signal"}
MainPC == {"idle", "lock", "writeUp"} \cup UnlockPC
ExpirerPC == {"free", "tenSeconds"} \cup UnlockPC
WorkerPC == {"sleep", "relock", "test", "wait", "waiting", "size", "front", "pop"}

\* Every variable has a value of its type; a thread stands where it may.
TypeOK ==
    /\ locks \in Int
    /\ locksVec \subseteq Ids
    /\ qlock \in {"none", "main", "worker"}
    /\ accepted \in Nat
    /\ pQueue \in Seq(1..accepted) /\ file \in Seq(1..accepted)
    /\ pc \in [Thread -> MainPC \cup ExpirerPC \cup WorkerPC]
    /\ pc["main"] \in MainPC /\ pc["worker"] \in WorkerPC
    /\ \A e \in Expirers : pc[e] \in ExpirerPC
    /\ raising \in BOOLEAN
    /\ id \in [Locker -> Ids \cup {"none"}]
    /\ reg \in [Locker -> Int]
    /\ sz \in Nat
    /\ lost \subseteq {"update", "signal"}

\* The lines of the queue that are not in the file yet.
Unlogged == IF pc["worker"] = "pop" THEN Tail(pQueue) ELSE pQueue

\* The log is the history of accepted operations, of which none is lost: however
\* the event loop appends while the worker copies, file and queue together
\* hold every operation once, in the order of acceptance.
LinesKept == file \o Unlogged = [i \in 1..accepted |-> i]

\* "lock the syncworker to avoid missing some log events due to racing"
\* (SQSMaster.cpp:715): from the moment a node holds a lock no line moves to
\* the file, which the node has read, out of the queue, which it will be sent.
\* One thing breaks that: a lock that was counted while an expiry thread
\* wrote the count without the mutex.
PauseHolds ==
    [][file' # file /\ "update" \notin lost => locksVec = {}]_vars

\* "synchronize the data queue into log file interval" (SQSMaster.h:180): once
\* nobody holds a lock any more, what is queued is written.  It is not when
\* an update of the count was lost, or when DecrementLock signalled, without
\* the mutex, between the worker's test of the count and its wait.
LinesReachFile ==
    <>[](locksVec = {} /\ lost = {}) => []<>(file = [i \in 1..accepted |-> i])

\* IncrementLock blocks the event loop, and with it every node and client,
\* until the worker has written the queue or waits; it always returns.
EventLoopReturns == (pc["main"] = "lock") ~> (pc["main"] = "idle")

=============================================================================
