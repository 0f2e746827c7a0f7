-------------------------- MODULE SyncWorker_proofs ---------------------------
(***************************************************************************)
(* Proofs about SyncWorker, for any ids, any number of expiry threads and  *)
(* any bounds.                                                             *)
(***************************************************************************)
EXTENDS SyncWorker, FiniteSetTheorems, SequenceTheorems, TLAPS

\* Run copies and pops as many lines as there were when it looked (SyncWorker::
\* Run): the queue only grows meanwhile.
SizeFits ==
    /\ pc["worker"] = "front" => sz <= Len(pQueue)
    /\ pc["worker"] = "pop" => sz > 0 /\ sz <= Len(pQueue)

\* The event loop knows the node for which it runs IncrementLock or
\* DecrementLock; only the former gets to the mutex.
MainKnows ==
    /\ pc["main"] # "idle" => id["main"] \in Ids
    /\ pc["main"] \in {"lock", "writeUp"} => raising

\* Labels of threads are different names, and a thread has one label.
LEMMA Threads ==
    /\ "main" \in Locker /\ "worker" \in Thread \ Locker
    /\ Locker = {"main"} \cup Expirers /\ Thread = Locker \cup {"worker"}
    /\ "main" # "worker"
    /\ \A e \in Expirers : e # "main" /\ e # "worker"
BY SyncWorkerAssumption DEF Locker, Thread

\* The types that a thread's step from label to label has to keep.
PcType ==
    /\ pc \in [Thread -> MainPC \cup ExpirerPC \cup WorkerPC]
    /\ pc["main"] \in MainPC /\ pc["worker"] \in WorkerPC
    /\ \A e \in Expirers : pc[e] \in ExpirerPC

\* A locker goes to a label of its own; the worker stays where it is.
LEMMA LockerMoves ==
    ASSUME PcType, NEW t \in Locker, NEW l, Goto(t, l),
           l \in IF t = "main" THEN MainPC ELSE ExpirerPC
    PROVE  PcType' /\ pc'["worker"] = pc["worker"]
BY Threads DEF PcType, Goto

\* A step of a locker within DecrementLock keeps the types.
LEMMA UnlockingType ==
    ASSUME TypeOK, SizeFits, MainKnows, NEW t \in Locker, Unlocking(t)
    PROVE  TypeOK' /\ SizeFits' /\ MainKnows'
<1> USE Threads
<1>1. t # "worker" /\ t \in Thread
  OBVIOUS
<1>2. Return(t) \in IF t = "main" THEN {"lock", "idle"} ELSE {"free"}
  BY DEF Return
<1>3. IdAfter(t) \in [Locker -> Ids \cup {"none"}]
  BY DEF IdAfter, TypeOK
<1>4. ASSUME FindLock(t) PROVE TypeOK' /\ SizeFits'
  <2>1. PICK l \in {"read", Return(t)} : Goto(t, l)
    BY <1>4 DEF FindLock
  <2>2. PcType' /\ pc'["worker"] = pc["worker"]
    BY <1>2, <2>1, LockerMoves DEF TypeOK, PcType, MainPC, ExpirerPC, UnlockPC
  <2>3. /\ locksVec' \subseteq Ids
        /\ id' \in [Locker -> Ids \cup {"none"}]
        /\ UNCHANGED <<locks, qlock, accepted, pQueue, file, raising, reg, sz,
                       lost>>
    BY <1>3, <1>4 DEF FindLock, TypeOK, lineVars
  <2> QED BY <2>2, <2>3 DEF TypeOK, PcType, SizeFits
<1>5. ASSUME ReadLocks(t) PROVE TypeOK' /\ SizeFits'
  BY <1>1, <1>5
  DEF ReadLocks, Goto, lineVars, TypeOK, SizeFits, UnlockPC, MainPC, ExpirerPC,
      WorkerPC
<1>6. ASSUME WriteLocks(t) PROVE TypeOK' /\ SizeFits'
  BY <1>1, <1>6
  DEF WriteLocks, WriteBack, Goto, lineVars, TypeOK, SizeFits, UnlockPC, MainPC,
      ExpirerPC, WorkerPC
<1>7. ASSUME Signal(t) PROVE TypeOK' /\ SizeFits'
  <2> DEFINE next == [pc EXCEPT ![t] = Return(t)]
  <2>1. /\ next \in [Thread -> MainPC \cup ExpirerPC \cup WorkerPC]
        /\ next["main"] \in MainPC
        /\ next["worker"] = pc["worker"]
        /\ \A e \in Expirers : next[e] \in ExpirerPC
    BY <1>1, <1>2 DEF TypeOK, MainPC, ExpirerPC, WorkerPC
  <2>2. pc' = IF pc["worker"] = "waiting"
              THEN [next EXCEPT !["worker"] = "relock"] ELSE next
    BY <1>7 DEF Signal
  <2>3. /\ pc' \in [Thread -> MainPC \cup ExpirerPC \cup WorkerPC]
        /\ pc'["main"] \in MainPC
        /\ pc'["worker"] \in WorkerPC
        /\ \A e \in Expirers : pc'[e] \in ExpirerPC
    BY <2>1, <2>2 DEF TypeOK, WorkerPC
  <2>4. pc'["worker"] # "relock" => pc'["worker"] = pc["worker"]
    BY <2>1, <2>2
  <2>5. /\ locks' \in Int
        /\ id' \in [Locker -> Ids \cup {"none"}]
        /\ lost' \subseteq {"update", "signal"}
        /\ UNCHANGED <<locksVec, qlock, accepted, pQueue, file, raising, reg, sz>>
    BY <1>3, <1>7 DEF Signal, TypeOK, lineVars
  <2> QED BY <2>3, <2>4, <2>5 DEF TypeOK, SizeFits
<1>8. MainKnows'
  <2>1. CASE t = "main"
    <3>1. CASE UNCHANGED id /\ raising' = raising /\ pc'["main"] \in UnlockPC
      BY <2>1, <3>1, <1>1 DEF MainKnows, Unlocking, FindLock, ReadLocks,
                              WriteLocks, Signal, UnlockPC
    <3>2. CASE id' = IdAfter(t) /\ raising' = raising /\ pc'["main"] = Return(t)
      BY <2>1, <3>2, <1>1 DEF MainKnows, Unlocking, FindLock, ReadLocks,
                              WriteLocks, Signal, IdAfter, Return, UnlockPC
    <3>3. CASE ReadLocks(t) \/ WriteLocks(t)
      BY <2>1, <1>1, <3>1, <3>3
      DEF ReadLocks, WriteLocks, Goto, TypeOK, UnlockPC
    <3>4. CASE FindLock(t)
      BY <2>1, <1>1, <3>1, <3>2, <3>4 DEF FindLock, Goto, TypeOK, UnlockPC
    <3>5. CASE Signal(t)
      BY <2>1, <1>1, <3>2, <3>5 DEF Signal, TypeOK
    <3> QED BY <3>3, <3>4, <3>5 DEF Unlocking
  <2>2. CASE t # "main"
    <3>1. pc'["main"] = pc["main"] /\ id'["main"] = id["main"] /\ raising' = raising
      BY <2>2 DEF Unlocking, FindLock, ReadLocks, WriteLocks, Signal, Goto,
                  IdAfter, TypeOK
    <3> QED BY <3>1 DEF MainKnows
  <2> QED BY <2>1, <2>2
<1>9. TypeOK' /\ SizeFits'
  BY <1>4, <1>5, <1>6, <1>7 DEF Unlocking
<1> QED BY <1>8, <1>9

\* TypeOK: every variable of the SyncWorker has its type; the worker never
\* pops from an empty deque, which SizeFits tells.
THEOREM TypeCorrect == Spec => [](TypeOK /\ SizeFits /\ MainKnows)
<1> USE Threads
<1>1. Init => TypeOK /\ SizeFits /\ MainKnows
  <2> SUFFICES ASSUME Init PROVE TypeOK /\ SizeFits /\ MainKnows
    OBVIOUS
  <2>1. pc = [u \in Thread |-> CASE u = "main" -> "idle"
                                 [] u = "worker" -> "sleep"
                                 [] OTHER -> "free"]
    BY DEF Init
  <2>2. /\ pc["main"] = "idle" /\ pc["worker"] = "sleep"
        /\ \A e \in Expirers : pc[e] = "free"
        /\ pc \in [Thread -> {"idle", "sleep", "free"}]
    BY <2>1
  <2>3. /\ << >> \in Seq(1..0)
        /\ [u \in Locker |-> 0] \in [Locker -> Int]
        /\ [u \in Locker |-> "none"] \in [Locker -> Ids \cup {"none"}]
    OBVIOUS
  <2> QED BY <2>2, <2>3
      DEF Init, TypeOK, SizeFits, MainKnows, MainPC, ExpirerPC, WorkerPC
<1>2. TypeOK /\ SizeFits /\ MainKnows /\ [Next]_vars
        => TypeOK' /\ SizeFits' /\ MainKnows'
  <2> SUFFICES ASSUME TypeOK, SizeFits, MainKnows, [Next]_vars
               PROVE  TypeOK' /\ SizeFits' /\ MainKnows'
    OBVIOUS
  <2>1. CASE PushOp
    <3>1. /\ accepted' = accepted + 1 /\ accepted \in Nat
          /\ pQueue' = Append(pQueue, accepted + 1)
          /\ UNCHANGED <<locks, locksVec, qlock, file, sz, pc, raising, id, reg,
                         lost>>
      BY <2>1 DEF PushOp, TypeOK
    <3>2. pQueue \in Seq(1..(accepted + 1)) /\ file \in Seq(1..(accepted + 1))
      BY <3>1 DEF TypeOK
    <3> QED BY <3>1, <3>2 DEF TypeOK, SizeFits, MainKnows
  <2>2. CASE \E i \in Ids : Increment(i) \/ Decrement(i)
    <3>1. PICK i \in Ids, up \in BOOLEAN : Request(i, up)
      BY <2>2 DEF Increment, Decrement
    <3>2. PcType' /\ pc'["worker"] = pc["worker"]
      BY <3>1, LockerMoves DEF Request, TypeOK, PcType, MainPC, UnlockPC
    <3>3. /\ raising' \in BOOLEAN
          /\ id' \in [Locker -> Ids \cup {"none"}]
          /\ id'["main"] \in Ids /\ pc'["main"] = "find"
          /\ UNCHANGED <<locks, locksVec, qlock, accepted, pQueue, file, reg, sz,
                         lost>>
      BY <3>1 DEF Request, Goto, TypeOK, lineVars
    <3> QED BY <3>2, <3>3 DEF TypeOK, PcType, SizeFits, MainKnows
  <2>3. CASE \E t \in Locker : Unlocking(t)
    BY <2>3, UnlockingType
  <2>4. CASE TakeMutex
    BY <2>4 DEF TakeMutex, Goto, lineVars, TypeOK, SizeFits, MainKnows, MainPC, ExpirerPC,
                WorkerPC
  <2>5. CASE WriteUp
    <3>1. PICK e \in Expirers :
            /\ pc' = [pc EXCEPT !["main"] = "idle", ![e] = "tenSeconds"]
            /\ id' = [id EXCEPT !["main"] = "none", ![e] = id["main"]]
      BY <2>5 DEF WriteUp
    <3>2. /\ locks' \in Int /\ reg' \in [Locker -> Int]
          /\ lost' \subseteq {"update", "signal"}
          /\ qlock' = "none" /\ raising' = FALSE
          /\ UNCHANGED <<accepted, pQueue, file, sz>>
      BY <2>5 DEF WriteUp, WriteBack, lineVars, TypeOK
    <3>3. id["main"] \in Ids
      BY <2>5 DEF WriteUp, MainKnows
    <3> QED BY <2>5, <3>1, <3>2, <3>3
        DEF WriteUp, TypeOK, SizeFits, MainKnows, MainPC, ExpirerPC, WorkerPC
  <2>6. CASE \E e \in Expirers : WakeUp(e)
    BY <2>6 DEF WakeUp, Goto, lineVars, TypeOK, SizeFits, MainKnows, UnlockPC, MainPC,
                ExpirerPC, WorkerPC
  <2>7. CASE LockQueue \/ TestLocks \/ Wait \/ UnlockQueue \/ SpuriousWakeup
    BY <2>7 DEF LockQueue, TestLocks, Wait, UnlockQueue, SpuriousWakeup, Goto,
                lineVars, TypeOK, SizeFits, MainKnows, MainPC, ExpirerPC, WorkerPC
  <2>8. CASE TakeSize
    BY <2>8 DEF TakeSize, Goto, TypeOK, SizeFits, MainKnows, MainPC, ExpirerPC, WorkerPC
  <2>9. CASE LogFront
    BY <2>9 DEF LogFront, Goto, TypeOK, SizeFits, MainKnows, MainPC, ExpirerPC, WorkerPC
  <2>10. CASE PopFront
    BY <2>10 DEF PopFront, Goto, TypeOK, SizeFits, MainKnows, MainPC, ExpirerPC, WorkerPC
  <2>11. CASE UNCHANGED vars
    BY <2>11 DEF vars, lineVars, TypeOK, SizeFits, MainKnows
  <2> QED
    BY <2>1, <2>2, <2>3, <2>4, <2>5, <2>6, <2>7, <2>8, <2>9, <2>10, <2>11
    DEF Next, MainStep, Expirer, Run
<1> QED BY <1>1, <1>2, PTL DEF Spec

-----------------------------------------------------------------------------
(***************************************************************************)
(* No line is lost, doubled or moved.                                      *)
(***************************************************************************)

\* LinesKept, line by line.
Lines ==
    /\ Len(file) + Len(Unlogged) = accepted
    /\ \A i \in 1..Len(file) : file[i] = i
    /\ \A j \in 1..Len(Unlogged) : Unlogged[j] = Len(file) + j

\* What the worker has still to log is a sequence of lines.
LEMMA UnloggedType ==
    ASSUME TypeOK, SizeFits
    PROVE  Unlogged \in Seq(1..accepted)
<1>1. CASE pc["worker"] = "pop"
  BY <1>1 DEF Unlogged, TypeOK, SizeFits
<1>2. CASE pc["worker"] # "pop"
  BY <1>2 DEF Unlogged, TypeOK
<1> QED BY <1>1, <1>2

\* Line by line is as good as at once.
LEMMA LinesSuffice ==
    ASSUME TypeOK, SizeFits, Lines
    PROVE  LinesKept
<1> DEFINE U == Unlogged
<1>1. /\ U \in Seq(1..accepted) /\ file \in Seq(1..accepted)
      /\ accepted \in Nat /\ Len(file) \in Nat /\ Len(U) \in Nat
  BY UnloggedType DEF TypeOK
<1>2. /\ Len(file) + Len(U) = accepted
      /\ \A i \in 1..Len(file) : file[i] = i
      /\ \A j \in 1..Len(U) : U[j] = Len(file) + j
  BY DEF Lines
<1> HIDE DEF U
<1>3. /\ file \o U \in Seq(1..accepted)
      /\ Len(file \o U) = accepted
  BY <1>1, <1>2
<1>4. ASSUME NEW i \in 1..accepted PROVE (file \o U)[i] = i
  <2>1. CASE i <= Len(file)
    BY <1>1, <1>2, <2>1
  <2>2. CASE i > Len(file)
    <3>1. i - Len(file) \in 1..Len(U)
      BY <1>1, <1>2, <2>2
    <3>2. U[i - Len(file)] = Len(file) + (i - Len(file))
      BY <1>2, <3>1
    <3>3. (file \o U)[i] = U[i - Len(file)]
      BY <1>1, <1>2, <2>2
    <3> QED BY <1>1, <3>2, <3>3
  <2>3. i <= Len(file) \/ i > Len(file)
    <3>1. i \in Nat /\ Len(file) \in Nat
      BY <1>1
    <3> QED BY <3>1
  <2> QED BY <2>1, <2>2, <2>3, Zenon
<1>5. file \o U = [i \in 1..accepted |-> i]
  <2> DEFINE s == file \o U
  <2>1. s \in Seq(1..accepted) /\ Len(s) = accepted
    BY <1>3
  <2>2. \A i \in 1..accepted : s[i] = i
    BY <1>4
  <2> HIDE DEF s
  <2>4. s \in [1..Len(s) -> 1..accepted]
    BY <2>1, LenProperties
  <2>3. s = [i \in 1..accepted |-> i]
    BY <2>1, <2>2, <2>4
  <2> QED BY <2>3 DEF s
<1> QED BY <1>5 DEF LinesKept, U

\* LinesKept: while the event loop appends and the worker copies and pops, file
\* and queue hold every accepted operation once and in order.
THEOREM LinesKeptAlways == Spec => []LinesKept
<1>1. Init => Lines
  BY Threads DEF Init, Lines, Unlogged
<1>2. TypeOK /\ SizeFits /\ TypeOK' /\ SizeFits' /\ Lines /\ [Next]_vars => Lines'
  <2> SUFFICES ASSUME TypeOK, SizeFits, TypeOK', SizeFits', Lines, [Next]_vars
               PROVE  Lines'
    OBVIOUS
  <2> USE Threads
  <2>1. CASE UNCHANGED <<pQueue, file, accepted>>
             /\ (pc'["worker"] = "pop" <=> pc["worker"] = "pop")
    BY <2>1 DEF Lines, Unlogged
  <2>2. CASE PushOp
    <3>1. /\ accepted' = accepted + 1 /\ file' = file /\ pc' = pc
          /\ pQueue' = Append(pQueue, accepted + 1)
          /\ accepted \in Nat /\ pQueue \in Seq(Nat) /\ file \in Seq(Nat)
      BY <2>2 DEF PushOp, TypeOK
    <3>2. Unlogged \in Seq(Nat) /\ Unlogged' = Append(Unlogged, accepted + 1)
      <4>1. CASE pc["worker"] = "pop"
        <5>1. Tail(Append(pQueue, accepted + 1)) = Append(Tail(pQueue), accepted + 1)
          <6>1. pQueue # << >> /\ Tail(pQueue) \in Seq(Nat)
            BY <3>1, <4>1 DEF SizeFits, TypeOK
          <6> QED BY <3>1, <6>1, HeadTailAppend
        <5>2. Tail(pQueue) \in Seq(Nat)
          BY <3>1, <4>1 DEF SizeFits, TypeOK
        <5>3. Unlogged = Tail(pQueue) /\ Unlogged' = Tail(pQueue')
          BY <3>1, <4>1 DEF Unlogged
        <5> QED BY <3>1, <5>1, <5>2, <5>3, Zenon
      <4>2. CASE pc["worker"] # "pop"
        <5>1. Unlogged = pQueue /\ Unlogged' = pQueue'
          BY <3>1, <4>2 DEF Unlogged
        <5> QED BY <3>1, <5>1, Zenon
      <4> QED BY <4>1, <4>2, Zenon
    <3>3. /\ Len(Unlogged') = Len(Unlogged) + 1
          /\ \A j \in 1..Len(Unlogged) : Unlogged'[j] = Unlogged[j]
          /\ Unlogged'[Len(Unlogged) + 1] = accepted + 1
      BY <3>1, <3>2
    <3>4. Len(file) + Len(Unlogged) = accepted
      BY DEF Lines
    <3>5. \A j \in 1..Len(Unlogged') : Unlogged'[j] = Len(file) + j
      <4> TAKE j \in 1..Len(Unlogged')
      <4>1. CASE j = Len(Unlogged) + 1
        BY <3>1, <3>2, <3>3, <3>4, <4>1
      <4>2. CASE j # Len(Unlogged) + 1
        <5>1. j \in 1..Len(Unlogged)
          BY <3>2, <3>3, <4>2
        <5> QED BY <3>3, <5>1 DEF Lines
      <4> QED BY <4>1, <4>2
    <3> QED BY <3>1, <3>2, <3>3, <3>4, <3>5 DEF Lines
  <2>3. CASE LogFront
    <3>1. /\ accepted' = accepted /\ pQueue' = pQueue
          /\ file' = Append(file, Head(pQueue))
          /\ Unlogged = pQueue /\ Unlogged' = Tail(pQueue)
          /\ accepted \in Nat /\ pQueue \in Seq(Nat) /\ file \in Seq(Nat)
          /\ Len(pQueue) > 0
      BY <2>3 DEF LogFront, Goto, TypeOK, SizeFits, Unlogged
    <3>2. /\ Len(file') = Len(file) + 1
          /\ \A i \in 1..Len(file) : file'[i] = file[i]
          /\ file'[Len(file) + 1] = pQueue[1]
          /\ Len(Unlogged') = Len(pQueue) - 1
          /\ \A j \in 1..(Len(pQueue) - 1) : Unlogged'[j] = pQueue[j + 1]
      <4>1. /\ Len(Tail(pQueue)) = Len(pQueue) - 1
            /\ \A j \in 1..(Len(pQueue) - 1) : Tail(pQueue)[j] = pQueue[j + 1]
        BY <3>1, HeadTailProperties
      <4>2. Head(pQueue) = pQueue[1] /\ Head(pQueue) \in Nat
        BY <3>1
      <4> DEFINE e == Head(pQueue)
      <4>3. file' = Append(file, e) /\ e \in Nat /\ file \in Seq(Nat)
        BY <3>1, <4>2
      <4>4. e = pQueue[1]
        BY <4>2
      <4> HIDE DEF e
      <4>5. /\ Len(file') = Len(file) + 1
            /\ file'[Len(file) + 1] = e
            /\ \A i \in 1..Len(file) : file'[i] = file[i]
        BY <4>3
      <4> QED BY <3>1, <4>1, <4>4, <4>5
    <3>3. pQueue[1] = Len(file) + 1
      BY <3>1 DEF Lines
    <3>4. \A j \in 1..(Len(pQueue) - 1) : pQueue[j + 1] = Len(file) + (j + 1)
      BY <3>1 DEF Lines
    <3>5. Len(file) + Len(pQueue) = accepted
      BY <3>1 DEF Lines
    <3>6. Len(file') + Len(Unlogged') = accepted'
      <4> DEFINE f == Len(file)
                 q == Len(pQueue)
      <4>1. f \in Nat /\ q \in Nat /\ f + q = accepted
        BY <3>1, <3>5
      <4>2. Len(file') = f + 1 /\ Len(Unlogged') = q - 1 /\ accepted' = accepted
        BY <3>1, <3>2
      <4> HIDE DEF f, q
      <4>3. (f + 1) + (q - 1) = accepted
        BY <4>1
      <4> QED BY <4>2, <4>3
    <3>7. \A i \in 1..Len(file') : file'[i] = i
      <4> TAKE i \in 1..Len(file')
      <4>1. CASE i = Len(file) + 1
        BY <3>2, <3>3, <4>1
      <4>2. CASE i # Len(file) + 1
        <5>1. i \in 1..Len(file)
          BY <3>1, <3>2, <4>2
        <5> QED BY <3>2, <5>1 DEF Lines
      <4> QED BY <4>1, <4>2
    <3>8. \A j \in 1..Len(Unlogged') : Unlogged'[j] = Len(file') + j
      BY <3>1, <3>2, <3>4
    <3> QED BY <3>6, <3>7, <3>8 DEF Lines
  <2>4. CASE PopFront
    <3>1. UNCHANGED <<file, accepted>> /\ Unlogged' = Unlogged
      BY <2>4 DEF PopFront, Goto, TypeOK, Unlogged
    <3> QED BY <3>1 DEF Lines
  <2>5. CASE \E i \in Ids : Increment(i) \/ Decrement(i)
    BY <2>1, <2>5 DEF Increment, Decrement, Request, Goto, lineVars, TypeOK
  <2>6. CASE \E t \in Locker : Unlocking(t)
    <3>1. PICK t \in Locker : Unlocking(t)
      BY <2>6
    <3>2. CASE FindLock(t) \/ ReadLocks(t) \/ WriteLocks(t)
      BY <2>1, <3>2 DEF FindLock, ReadLocks, WriteLocks, Goto, lineVars, TypeOK
    <3>3. CASE Signal(t)
      BY <2>1, <3>3 DEF Signal, lineVars, TypeOK
    <3> QED BY <3>1, <3>2, <3>3 DEF Unlocking
  <2>7. CASE TakeMutex \/ WriteUp
    BY <2>1, <2>7 DEF TakeMutex, WriteUp, Goto, lineVars, TypeOK
  <2>8. CASE \E e \in Expirers : WakeUp(e)
    BY <2>1, <2>8 DEF WakeUp, Goto, lineVars, TypeOK
  <2>9. CASE LockQueue \/ TestLocks \/ Wait \/ UnlockQueue \/ SpuriousWakeup
             \/ TakeSize
    BY <2>1, <2>9 DEF LockQueue, TestLocks, Wait, UnlockQueue, SpuriousWakeup,
                      TakeSize, Goto, lineVars, TypeOK
  <2>10. CASE UNCHANGED vars
    BY <2>1, <2>10 DEF vars, lineVars
  <2> QED
    BY <2>2, <2>3, <2>4, <2>5, <2>6, <2>7, <2>8, <2>9, <2>10
    DEF Next, MainStep, Expirer, Run
<1> QED BY <1>1, <1>2, TypeCorrect, LinesSuffice, PTL DEF Spec

-----------------------------------------------------------------------------
(***************************************************************************)
(* Whoever holds a lock sees the log file at rest.                         *)
(***************************************************************************)

\* The lockers inside locks--, whose id is erased and not yet counted down.
Halves == {t \in Locker : pc[t] \in {"read", "write"}}

\* As long as no update was overwritten, locks counts the ids and the halves.
Exact ==
    "update" \notin lost => locks = Cardinality(locksVec) + Cardinality(Halves)

\* The worker moves lines only after it has seen no lock.
Rest ==
    "update" \notin lost /\ pc["worker"] \in {"size", "front", "pop"}
        => locksVec = {}

\* qlock is held where it should be.
Mutex ==
    /\ qlock = "worker" <=> pc["worker"] \in {"test", "wait", "size", "front", "pop"}
    /\ qlock = "main" <=> pc["main"] = "writeUp"

\* IncrementLock adds an id that it has erased before.
Erased ==
    \/ pc["main"] \in {"lock", "writeUp"}
    \/ raising /\ pc["main"] \in {"read", "write", "signal"}
    => id["main"] \notin locksVec

Counted == IsFiniteSet(locksVec) /\ Exact /\ Rest /\ Mutex /\ Erased

\* There are finitely many lockers, so there are finitely many halves.
LEMMA HalvesFinite ==
    /\ IsFiniteSet(Halves) /\ Cardinality(Halves) \in Nat
    /\ IsFiniteSet(Halves') /\ Cardinality(Halves') \in Nat
<1>1. IsFiniteSet(Locker)
  BY SyncWorkerAssumption, FS_Singleton, FS_Union DEF Locker
<1>2. Halves \subseteq Locker /\ Halves' \subseteq Locker
  BY DEF Halves
<1> QED BY <1>1, <1>2, FS_Subset, FS_CardinalityType

\* A step that leaves the halves alone may change neither count nor ids,
\* unless it notes that an update is lost.
LEMMA SameCount ==
    ASSUME Exact, UNCHANGED <<locks, locksVec, lost>>, Halves' = Halves
    PROVE  Exact'
BY DEF Exact

\* DecrementLock takes its id out of the vector and out of the count.
LEMMA UnlockingCounts ==
    ASSUME TypeOK, MainKnows, Counted, NEW t \in Locker, Unlocking(t)
    PROVE  Counted'
<1> USE Threads
<1>1. /\ t # "worker" /\ t \in Thread
      /\ qlock' = qlock /\ raising' = raising
  BY DEF Unlocking, FindLock, ReadLocks, WriteLocks, Signal, lineVars
<1>2. locksVec' \subseteq locksVec /\ IsFiniteSet(locksVec')
  <2>1. locksVec' \subseteq locksVec
    BY DEF Unlocking, FindLock, ReadLocks, WriteLocks, Signal
  <2> QED BY <2>1, FS_Subset DEF Counted
<1>3. lost \subseteq lost'
  BY DEF Unlocking, FindLock, ReadLocks, WriteLocks, WriteBack, Signal
<1>4. \/ pc'["worker"] = pc["worker"]
      \/ pc["worker"] = "waiting" /\ pc'["worker"] = "relock"
  BY <1>1 DEF Unlocking, FindLock, ReadLocks, WriteLocks, Signal, Goto, TypeOK
<1>5. Rest'
  BY <1>2, <1>3, <1>4 DEF Counted, Rest
<1>6. pc[t] # "writeUp" /\ pc'[t] # "writeUp"
  BY <1>1 DEF Unlocking, FindLock, ReadLocks, WriteLocks, Signal, Goto, Return,
              TypeOK
<1>7. \A u \in Locker \ {t} : pc'[u] = pc[u]
  BY <1>1 DEF Unlocking, FindLock, ReadLocks, WriteLocks, Signal, Goto, TypeOK
<1>8. Mutex'
  BY <1>1, <1>4, <1>6, <1>7 DEF Counted, Mutex
<1>9. Erased'
  <2>1. CASE t # "main"
    <3>1. pc'["main"] = pc["main"]
      BY <1>7, <2>1
    <3>2. id'["main"] = id["main"]
      BY <2>1 DEF Unlocking, FindLock, ReadLocks, WriteLocks, Signal, IdAfter,
                  TypeOK
    <3> QED BY <1>1, <1>2, <3>1, <3>2 DEF Counted, Erased
  <2>2. CASE t = "main" /\ raising
    <3>1. id' = id
      BY <2>2 DEF Unlocking, FindLock, ReadLocks, WriteLocks, Signal, IdAfter
    <3>2. CASE FindLock(t)
      BY <2>2, <3>1, <3>2 DEF FindLock, Erased
    <3>3. CASE ~ FindLock(t)
      <4>1. pc["main"] \in {"read", "write", "signal"}
        BY <2>2, <3>3 DEF Unlocking, ReadLocks, WriteLocks, Signal
      <4> QED BY <1>2, <2>2, <3>1, <4>1 DEF Counted, Erased
    <3> QED BY <3>2, <3>3
  <2>3. CASE t = "main" /\ ~ raising
    <3>1. pc'["main"] \notin {"lock", "writeUp"}
      BY <1>1, <2>3 DEF Unlocking, FindLock, ReadLocks, WriteLocks, Signal, Goto,
                        Return, TypeOK
    <3> QED BY <1>1, <2>3, <3>1 DEF Erased
  <2> QED BY <2>1, <2>2, <2>3
<1>10. Exact'
  <2> USE HalvesFinite
  <2>1. CASE FindLock(t)
    <3>1. CASE id[t] \in locksVec
      <4>1. Halves' = Halves \cup {t} /\ t \notin Halves
        <5>1. pc[t] = "find" /\ pc'[t] = "read"
          BY <1>1, <2>1, <3>1 DEF FindLock, Goto, TypeOK
        <5> QED BY <1>7, <5>1 DEF Halves
      <4>2. Cardinality(Halves') = Cardinality(Halves) + 1
        BY <4>1, FS_AddElement
      <4>3. Cardinality(locksVec') = Cardinality(locksVec) - 1
        BY <2>1, <3>1, FS_RemoveElement DEF FindLock, Counted
      <4>4. Cardinality(locksVec) \in Nat
        BY FS_CardinalityType DEF Counted
      <4>5. locks' = locks /\ lost' = lost
        BY <2>1 DEF FindLock
      <4> QED BY <4>2, <4>3, <4>4, <4>5 DEF Counted, Exact
    <3>2. CASE id[t] \notin locksVec
      <4>1. Halves' = Halves
        BY <1>1, <1>7, <2>1, <3>2 DEF FindLock, Goto, Halves, TypeOK, Return
      <4>2. UNCHANGED <<locks, locksVec, lost>>
        BY <2>1, <3>2 DEF FindLock
      <4> QED BY <4>1, <4>2, SameCount DEF Counted
    <3> QED BY <3>1, <3>2
  <2>2. CASE ReadLocks(t)
    <3>1. Halves' = Halves
      BY <1>1, <1>7, <2>2 DEF ReadLocks, Goto, Halves, TypeOK
    <3> QED BY <2>2, <3>1, SameCount DEF Counted, ReadLocks
  <2>3. CASE WriteLocks(t)
    <3>1. Halves' = Halves \ {t} /\ t \in Halves
      BY <1>1, <1>7, <2>3 DEF WriteLocks, Goto, Halves, TypeOK
    <3>2. Cardinality(Halves') = Cardinality(Halves) - 1
      BY <3>1, FS_RemoveElement
    <3>3. "update" \notin lost' => locks' = locks - 1 /\ "update" \notin lost
      BY <2>3 DEF WriteLocks, WriteBack
    <3>4. locksVec' = locksVec /\ Cardinality(locksVec) \in Nat
      BY <2>3, FS_CardinalityType DEF WriteLocks, Counted
    <3> QED BY <3>2, <3>3, <3>4 DEF Counted, Exact
  <2>4. CASE Signal(t)
    <3>1. Halves' = Halves
      BY <1>1, <1>7, <2>4 DEF Signal, Halves, TypeOK, Return
    <3>2. Cardinality(locksVec) \in Nat
      BY FS_CardinalityType DEF Counted
    <3>3. "update" \notin lost => locks >= 0
      BY <3>2 DEF Counted, Exact
    <3>4. /\ locksVec' = locksVec /\ ("update" \in lost' <=> "update" \in lost)
          /\ locks' = IF locks < 0 THEN 0 ELSE locks
          /\ locks \in Int
      BY <2>4 DEF Signal, TypeOK
    <3> QED BY <3>1, <3>3, <3>4 DEF Counted, Exact
  <2> QED BY <2>1, <2>2, <2>3, <2>4 DEF Unlocking
<1> QED BY <1>2, <1>5, <1>8, <1>9, <1>10 DEF Counted

\* A step of the worker, or one that moves no lock, keeps Exact and Erased.
LEMMA OthersCount ==
    ASSUME Counted, UNCHANGED <<locks, locksVec, lost>>,
           \A t \in Locker : pc'[t] = pc[t] /\ id'[t] = id[t], raising' = raising
    PROVE  IsFiniteSet(locksVec') /\ Exact' /\ Erased'
<1>1. Halves' = Halves
  BY DEF Halves
<1>2. pc'["main"] = pc["main"] /\ id'["main"] = id["main"]
  BY Threads
<1> QED BY <1>1, <1>2, SameCount DEF Counted, Erased

\* Counted is inductive.
LEMMA CountedStep ==
    ASSUME TypeOK, MainKnows, Counted, [Next]_vars
    PROVE  Counted'
<1> USE Threads
<1>1. CASE PushOp
  BY <1>1, OthersCount DEF PushOp, Counted, Rest, Mutex
<1>2. CASE \E i \in Ids : Increment(i) \/ Decrement(i)
  <2>1. PICK i \in Ids, up \in BOOLEAN : Request(i, up)
    BY <1>2 DEF Increment, Decrement
  <2>2. /\ pc["main"] = "idle" /\ pc'["main"] = "find"
        /\ \A t \in Thread \ {"main"} : pc'[t] = pc[t]
        /\ UNCHANGED <<locks, locksVec, lost, qlock>>
    BY <2>1 DEF Request, Goto, TypeOK
  <2>3. Halves' = Halves
    BY <2>2 DEF Halves
  <2> QED BY <2>2, <2>3, SameCount DEF Counted, Rest, Mutex, Erased
<1>3. CASE \E t \in Locker : Unlocking(t)
  BY <1>3, UnlockingCounts
<1>4. CASE TakeMutex
  <2>1. /\ pc["main"] = "lock" /\ pc'["main"] = "writeUp"
        /\ \A t \in Thread \ {"main"} : pc'[t] = pc[t]
        /\ UNCHANGED <<locks, locksVec, lost, id>>
        /\ qlock = "none" /\ qlock' = "main"
    BY <1>4 DEF TakeMutex, Goto, TypeOK
  <2>2. Halves' = Halves
    BY <2>1 DEF Halves
  <2> QED BY <2>1, <2>2, SameCount DEF Counted, Rest, Mutex, Erased
<1>5. CASE WriteUp
  <2>1. PICK e \in Expirers :
          /\ pc[e] = "free"
          /\ pc' = [pc EXCEPT !["main"] = "idle", ![e] = "tenSeconds"]
    BY <1>5 DEF WriteUp
  <2>2. /\ pc["main"] = "writeUp" /\ pc'["main"] = "idle"
        /\ pc'[e] = "tenSeconds"
        /\ \A t \in Thread \ {"main", e} : pc'[t] = pc[t]
    BY <1>5, <2>1 DEF WriteUp, TypeOK
  <2>3. /\ locksVec' = locksVec \cup {id["main"]}
        /\ qlock' = "none" /\ lost \subseteq lost'
        /\ "update" \notin lost' => locks' = locks + 1
    BY <1>5 DEF WriteUp, WriteBack
  <2>4. Halves' = Halves
    BY <2>1, <2>2 DEF Halves
  <2>5. id["main"] \notin locksVec
    BY <2>2 DEF Counted, Erased
  <2>6. /\ IsFiniteSet(locksVec')
        /\ Cardinality(locksVec') = Cardinality(locksVec) + 1
        /\ Cardinality(locksVec) \in Nat
    BY <2>3, <2>5, FS_AddElement, FS_CardinalityType DEF Counted
  <2>7. pc'["worker"] = pc["worker"] /\ qlock = "main" /\ qlock # "worker"
    BY <2>2 DEF Counted, Mutex
  <2>8. Exact'
    BY <2>3, <2>4, <2>6, HalvesFinite DEF Counted, Exact
  <2>9. Rest' /\ Mutex' /\ Erased'
    BY <2>2, <2>3, <2>7 DEF Counted, Rest, Mutex, Erased
  <2> QED BY <2>6, <2>8, <2>9 DEF Counted
<1>6. CASE \E e \in Expirers : WakeUp(e)
  <2>1. PICK e \in Expirers : WakeUp(e)
    BY <1>6
  <2>2. /\ pc[e] = "tenSeconds" /\ pc'[e] = "find"
        /\ \A t \in Thread \ {e} : pc'[t] = pc[t]
        /\ UNCHANGED <<locks, locksVec, lost, qlock, id, raising>>
    BY <2>1 DEF WakeUp, Goto, TypeOK
  <2>3. Halves' = Halves
    BY <2>2 DEF Halves
  <2>4. pc'["main"] = pc["main"] /\ pc'["worker"] = pc["worker"]
    BY <2>2
  <2> QED BY <2>2, <2>3, <2>4, SameCount DEF Counted, Rest, Mutex, Erased
<1>7. CASE TestLocks
  <2>1. /\ UNCHANGED <<locks, locksVec, lost, qlock, id, raising>>
        /\ \A t \in Locker : pc'[t] = pc[t]
        /\ pc["worker"] = "test"
        /\ pc'["worker"] = IF locks > 0 THEN "wait" ELSE "size"
    BY <1>7 DEF TestLocks, Goto, TypeOK
  <2>2. "update" \notin lost /\ ~ locks > 0 => locksVec = {}
    <3>1. Cardinality(locksVec) \in Nat /\ Cardinality(Halves) \in Nat
      BY FS_CardinalityType, HalvesFinite DEF Counted
    <3>2. "update" \notin lost /\ ~ locks > 0 => Cardinality(locksVec) = 0
      BY <3>1 DEF Counted, Exact
    <3> QED BY <3>2, FS_EmptySet DEF Counted
  <2>3. Rest'
    BY <2>1, <2>2 DEF Rest
  <2>4. Mutex'
    BY <2>1 DEF Counted, Mutex
  <2> QED BY <2>1, <2>3, <2>4, OthersCount DEF Counted
<1>8. CASE \/ LockQueue \/ Wait \/ SpuriousWakeup \/ TakeSize \/ LogFront
           \/ PopFront \/ UnlockQueue
  <2>1. /\ UNCHANGED <<locks, locksVec, lost, id, raising>>
        /\ \A t \in Locker : pc'[t] = pc[t]
    BY <1>8 DEF LockQueue, Wait, SpuriousWakeup, TakeSize, LogFront, PopFront,
                UnlockQueue, Goto, TypeOK
  <2>2. pc'["worker"] \in {"size", "front", "pop"}
          => pc["worker"] \in {"size", "front", "pop"}
    BY <1>8 DEF LockQueue, Wait, SpuriousWakeup, TakeSize, LogFront, PopFront,
                UnlockQueue, Goto, TypeOK
  <2>3. Rest'
    BY <2>1, <2>2 DEF Counted, Rest
  <2>4. Mutex'
    BY <1>8, <2>1
    DEF Counted, Mutex, LockQueue, Wait, SpuriousWakeup, TakeSize, LogFront,
        PopFront, UnlockQueue, Goto, TypeOK
  <2> QED BY <2>1, <2>3, <2>4, OthersCount DEF Counted
<1>9. CASE UNCHANGED vars
  BY <1>9, OthersCount DEF vars, Counted, Rest, Mutex
<1> QED
  BY <1>1, <1>2, <1>3, <1>4, <1>5, <1>6, <1>7, <1>8, <1>9
  DEF Next, MainStep, Expirer, Run

\* PauseHolds: from the moment IncrementLock has returned until DecrementLock
\* is called no line reaches the file, whatever the threads do, unless an
\* update of the count was overwritten.
THEOREM PauseAlwaysHolds == Spec => PauseHolds
<1>1. Init => Counted
  <2> SUFFICES ASSUME Init PROVE Counted
    OBVIOUS
  <2>1. pc = [u \in Thread |-> CASE u = "main" -> "idle"
                                 [] u = "worker" -> "sleep"
                                 [] OTHER -> "free"]
    BY DEF Init
  <2>2. /\ pc["main"] = "idle" /\ pc["worker"] = "sleep"
        /\ \A e \in Expirers : pc[e] = "free"
    BY <2>1, Threads
  <2>3. Halves = {}
    BY <2>2, Threads DEF Halves
  <2> QED BY <2>2, <2>3, FS_EmptySet
      DEF Init, Counted, Exact, Rest, Mutex, Erased
<1>2. Counted /\ [Next]_vars
        => [file' # file /\ "update" \notin lost => locksVec = {}]_vars
  <2> SUFFICES ASSUME Counted, [Next]_vars, file' # file, "update" \notin lost
               PROVE  locksVec = {}
    OBVIOUS
  <2>1. pc["worker"] = "front"
    BY DEF Next, PushOp, Increment, Decrement, Request, MainStep, Expirer, Run,
           Unlocking, FindLock, ReadLocks, WriteLocks, Signal, TakeMutex,
           WriteUp, WakeUp, LockQueue, TestLocks, Wait, SpuriousWakeup,
           TakeSize, LogFront, PopFront, UnlockQueue, lineVars, vars
  <2> QED BY <2>1 DEF Counted, Rest
<1>3. TypeOK /\ MainKnows /\ Counted /\ [Next]_vars => Counted'
  BY CountedStep
<1> QED BY <1>1, <1>2, <1>3, TypeCorrect, PTL DEF Spec, PauseHolds

=============================================================================
