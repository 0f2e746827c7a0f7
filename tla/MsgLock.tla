------------------------------- MODULE MsgLock -------------------------------
(***************************************************************************)
(* The message locks of SQSMaster (class MsgLock and EventChain::Run).     *)
(*                                                                         *)
(* Two threads share the table of locked messages and the timeout chain:   *)
(*                                                                         *)
(*   "main"   the event loop of the master; a GET_MSG request locks a      *)
(*            message (SQSMaster.cpp:463), a DELETE_MSG request unlocks    *)
(*            one (SQSMaster.cpp:433), whether or not it is locked;        *)
(*   "timer"  EventChain::Run, which releases the locks that time out.     *)
(*                                                                         *)
(* There are two mutexes, MsgLock::qlock around the table and              *)
(* EventChain::qlock around the chain.  A thread's pc names the point      *)
(* before which it stands.  A step is what a thread does between two       *)
(* points where another thread can see a difference: a read of head        *)
(* without the chain's mutex and an acquisition of a mutex are steps of    *)
(* their own.  The release of a mutex is part of the step before it.       *)
(***************************************************************************)
EXTENDS EventChainOps, LockTable

CONSTANTS
    Queues,      \* queue names, as numbers in the order of the names
    MsgIds,      \* message ids
    Timeout,     \* defaultTmout in seconds
    Gettable,    \* the <<queue, id>> pairs that GET_MSG requests name
    Deletable,   \* the <<queue, id>> pairs that DELETE_MSG requests name
    MaxChain     \* bound on the length of the chain

ASSUME MsgLockAssumption ==
    /\ Queues \subseteq Nat
    /\ Queues # {} /\ MsgIds # {}
    /\ Timeout \in Nat
    /\ MaxChain \in Nat
    /\ Gettable \subseteq Queues \X MsgIds
    /\ Deletable \subseteq Queues \X MsgIds

Message == Queues \X MsgIds
Thread == {"main", "timer"}
Event == EventSet(Queues, MsgIds, {Timeout})

\* new Event(defaultTmout, ReleaseLock, this, queueName, msgId).
EventOf(m) == NewEvent(m[1], m[2], Timeout)

VARIABLES
    mDatas,      \* MsgLock::mDatas, the locked messages
    chain,       \* EventChain::head and its successors
    qlock,       \* the holder of MsgLock::qlock, "none" when free
    elock,       \* the holder of EventChain::qlock, "none" when free
    pc,          \* where each thread stands, "dead" after a crash
    arg,         \* the queue and id each thread works on
    alarm,       \* seconds to the deadline of pthread_cond_timedwait
    lease        \* history: what is left of the Timeout each lock was given
vars == <<mDatas, chain, qlock, elock, pc, arg, alarm, lease>>

MainPC == {"idle", "schedule", "link", "cancel", "unlink", "erase"}
TimerPC == {"top", "lock", "left", "timedwait", "fire", "reload", "call",
            "del", "cancel", "unlink", "erase", "check", "again", "left2", "unheld",
            "idlelock", "idlehead", "condwait"}

Init ==
    /\ mDatas = {}
    /\ chain = << >>
    /\ qlock = "none"
    /\ elock = "none"
    /\ pc = [main |-> "idle", timer |-> "top"]
    /\ arg = [t \in Thread |-> CHOOSE m \in Message : TRUE]
    /\ alarm = 0
    /\ lease = [m \in Message |-> 0]

Goto(t, label) == pc' = [pc EXCEPT ![t] = label]

\* head is NULL.
Empty == chain = << >>

\* pthread_cond_signal(&qready): only the timer ever waits.
Woken(p) ==
    CASE p["timer"] = "timedwait" -> [p EXCEPT !["timer"] = "lock"]
      [] p["timer"] = "condwait"  -> [p EXCEPT !["timer"] = "idlelock"]
      [] OTHER                    -> p

-----------------------------------------------------------------------------
(***************************************************************************)
(* The main thread.                                                        *)
(***************************************************************************)

\* MsgLock::Lock up to mDatas.insert.  When IsExist is TRUE, Lock changes
\* nothing and returns FALSE: a stuttering step.
LockMsg(m) ==
    /\ pc["main"] = "idle"
    /\ qlock = "none"
    /\ Len(chain) < MaxChain
    /\ ~IsExist(mDatas, m[1], m[2])
    /\ qlock' = "main"
    /\ mDatas' = mDatas \cup {m}
    /\ lease' = [lease EXCEPT ![m] = Timeout]
    /\ arg' = [arg EXCEPT !["main"] = m]
    /\ Goto("main", "schedule")
    /\ UNCHANGED <<chain, elock, alarm>>

\* EventChain::Schedule takes the mutex of the chain ...
ScheduleLock ==
    /\ pc["main"] = "schedule"
    /\ elock = "none"
    /\ elock' = "main"
    /\ Goto("main", "link")
    /\ UNCHANGED <<mDatas, chain, qlock, arg, alarm, lease>>

\* Mutant: Schedule does not signal.
LinkSilently ==
    /\ pc["main"] = "link"
    /\ chain' = Schedule(chain, EventOf(arg["main"]))
    /\ pc' = [pc EXCEPT !["main"] = "idle"]
    /\ elock' = "none"
    /\ qlock' = "none"
    /\ UNCHANGED <<mDatas, arg, alarm, lease>>

\* ... links the event, releases it and signals when the head has changed;
\* Lock then releases its own mutex and returns TRUE.
ScheduleLink ==
    /\ pc["main"] = "link"
    /\ LET e == EventOf(arg["main"])
           p == [pc EXCEPT !["main"] = "idle"]
       IN /\ chain' = Schedule(chain, e)
          /\ pc' = IF BecomesHead(chain, e) THEN Woken(p) ELSE p
    /\ elock' = "none"
    /\ qlock' = "none"
    /\ UNCHANGED <<mDatas, arg, alarm, lease>>

\* MsgLock::UnLock calls Del, which takes the mutex of the table.
UnLock(m) ==
    /\ pc["main"] = "idle"
    /\ qlock = "none"
    /\ qlock' = "main"
    /\ arg' = [arg EXCEPT !["main"] = m]
    /\ Goto("main", "cancel")
    /\ UNCHANGED <<mDatas, chain, elock, alarm, lease>>

-----------------------------------------------------------------------------
(***************************************************************************)
(* The rest of MsgLock::Del, which both threads execute.                   *)
(***************************************************************************)

\* EventChain::Cancel returns when it reads head as NULL, without the mutex.
CancelNothing(t) ==
    /\ pc[t] = "cancel"
    /\ Empty
    /\ Goto(t, "erase")
    /\ UNCHANGED <<mDatas, chain, qlock, elock, arg, alarm, lease>>

\* EventChain::Cancel takes the mutex of the chain.
CancelLock(t) ==
    /\ pc[t] = "cancel"
    /\ ~Empty
    /\ elock = "none"
    /\ elock' = t
    /\ Goto(t, "unlink")
    /\ UNCHANGED <<mDatas, chain, qlock, arg, alarm, lease>>

\* EventChain::Cancel unlinks and frees the event; it signals nobody.
CancelUnlink(t) ==
    /\ pc[t] = "unlink"
    /\ chain' = Cancel(chain, EventOf(arg[t]))
    /\ elock' = "none"
    /\ Goto(t, "erase")
    /\ UNCHANGED <<mDatas, qlock, arg, alarm, lease>>

\* Del erases the first entry its loop reaches and releases the mutex.
Erase(t) ==
    /\ pc[t] = "erase"
    /\ mDatas' = Del(mDatas, arg[t][1], arg[t][2])
    /\ qlock' = "none"
    /\ Goto(t, IF t = "main" THEN "idle" ELSE "check")
    /\ UNCHANGED <<chain, elock, arg, alarm, lease>>

-----------------------------------------------------------------------------
(***************************************************************************)
(* The timer thread, EventChain::Run.                                      *)
(***************************************************************************)

\* A NULL or freed pointer is dereferenced: the process dies.
Crash ==
    /\ pc' = [t \in Thread |-> "dead"]
    /\ UNCHANGED <<mDatas, chain, qlock, elock, arg, alarm, lease>>

\* The condition of the loop, while(head!=NULL), read without the mutex.
Top ==
    /\ pc["timer"] = "top"
    /\ Goto("timer", IF Empty THEN "idlelock" ELSE "lock")
    /\ UNCHANGED <<mDatas, chain, qlock, elock, arg, alarm, lease>>

\* pthread_mutex_lock on the chain, at three places, also on the way out of
\* the two waits.
TimerLock ==
    /\ \E step \in {<<"lock", "left">>, <<"again", "left2">>,
                   <<"idlelock", "idlehead">>} :
        /\ pc["timer"] = step[1]
        /\ Goto("timer", step[2])
    /\ elock = "none"
    /\ elock' = "timer"
    /\ UNCHANGED <<mDatas, chain, qlock, arg, alarm, lease>>

\* left is computed from head, which nobody has tested since the mutex was
\* taken (or taken back by pthread_cond_timedwait).
Left ==
    /\ pc["timer"] = "left"
    /\ IF Empty THEN Crash
       ELSE LET wait == Head(chain).left > 0
            IN /\ Goto("timer", IF wait THEN "timedwait" ELSE "fire")
               /\ alarm' = IF wait THEN Head(chain).left ELSE alarm
               /\ elock' = "none"
               /\ UNCHANGED <<mDatas, chain, qlock, arg, lease>>

\* pthread_cond_timedwait returns at its deadline.
WaitTimesOut ==
    /\ pc["timer"] = "timedwait"
    /\ alarm = 0
    /\ Goto("timer", "lock")
    /\ UNCHANGED <<mDatas, chain, qlock, elock, arg, alarm, lease>>

\* A wait on a condition variable may return for no reason.
SpuriousWakeup ==
    /\ pc["timer"] \in {"timedwait", "condwait"}
    /\ pc' = Woken(pc)
    /\ UNCHANGED <<mDatas, chain, qlock, elock, arg, alarm, lease>>

\* The callback's parameters are read from whatever head is by now: nothing
\* is locked.
Fire ==
    /\ pc["timer"] = "fire"
    /\ IF Empty THEN Crash
       ELSE /\ arg' = [arg EXCEPT !["timer"] =
                          <<Head(chain).queue, Head(chain).msgId>>]
            /\ Goto("timer", "reload")
            /\ UNCHANGED <<mDatas, chain, qlock, elock, alarm, lease>>

\* The call loads head once for each parameter, in an order that the language
\* leaves open: either may come from a later head.
Reload ==
    /\ pc["timer"] = "reload"
    /\ IF Empty THEN Crash
       ELSE /\ \E q \in {arg["timer"][1], Head(chain).queue},
                  i \in {arg["timer"][2], Head(chain).msgId} :
                  arg' = [arg EXCEPT !["timer"] = <<q, i>>]
            /\ Goto("timer", "call")
            /\ UNCHANGED <<mDatas, chain, qlock, elock, alarm, lease>>

\* The main thread may have freed the event between the read of head and the
\* reads through it: the process dies or goes on with what the event held.
CallFreed ==
    /\ pc["timer"] = "call"
    /\ Matches(chain, EventOf(arg["timer"])) = {}
    /\ Crash

\* ReleaseLock(arg, queue, msgId) calls Del.
Call ==
    /\ pc["timer"] = "call"
    /\ Goto("timer", "del")
    /\ UNCHANGED <<mDatas, chain, qlock, elock, arg, alarm, lease>>

\* Del takes the mutex of the table.
TimerDel ==
    /\ pc["timer"] = "del"
    /\ qlock = "none"
    /\ qlock' = "timer"
    /\ Goto("timer", "cancel")
    /\ UNCHANGED <<mDatas, chain, elock, arg, alarm, lease>>

\* Mutant: the break on an empty chain is missing.
CheckNothing ==
    /\ pc["timer"] = "check"
    /\ Goto("timer", "again")
    /\ UNCHANGED <<mDatas, chain, qlock, elock, arg, alarm, lease>>

\* After the callback: if(head==NULL) break, else take the mutex again.
Check ==
    /\ pc["timer"] = "check"
    /\ Goto("timer", IF Empty THEN "unheld" ELSE "again")
    /\ UNCHANGED <<mDatas, chain, qlock, elock, arg, alarm, lease>>

\* The break leads to an unlock of a mutex this thread does not hold.  It is
\* a default mutex: the unlock takes it from whoever has it.
UnheldUnlock ==
    /\ pc["timer"] = "unheld"
    /\ elock' = "none"
    /\ Goto("timer", "top")
    /\ UNCHANGED <<mDatas, chain, qlock, arg, alarm, lease>>

\* while(left<=0): run the next link too, or unlock and start over.
LeftAgain ==
    /\ pc["timer"] = "left2"
    /\ IF Empty THEN Crash
       ELSE /\ Goto("timer", IF Head(chain).left = 0 THEN "fire" ELSE "top")
            /\ elock' = "none"
            /\ UNCHANGED <<mDatas, chain, qlock, arg, alarm, lease>>

\* while(head==NULL) pthread_cond_wait, else unlock and start over.
IdleHead ==
    /\ pc["timer"] = "idlehead"
    /\ Goto("timer", IF Empty THEN "condwait" ELSE "top")
    /\ elock' = "none"
    /\ UNCHANGED <<mDatas, chain, qlock, arg, alarm, lease>>

-----------------------------------------------------------------------------
\* One second passes.
Minus1(n) == IF n = 0 THEN 0 ELSE n - 1

Tick ==
    /\ chain' = Elapse(chain)
    /\ alarm' = Minus1(alarm)
    /\ lease' = [m \in Message |-> Minus1(lease[m])]
    /\ UNCHANGED <<mDatas, qlock, elock, pc, arg>>

DelStep(t) == CancelNothing(t) \/ CancelLock(t) \/ CancelUnlink(t) \/ Erase(t)

Main ==
    \/ \E m \in Gettable : LockMsg(m)
    \/ ScheduleLock
    \/ ScheduleLink
    \/ \E m \in Deletable : UnLock(m)
    \/ DelStep("main")

Timer ==
    \/ Top \/ TimerLock \/ Left \/ WaitTimesOut \/ SpuriousWakeup
    \/ Fire \/ Reload \/ CallFreed \/ Call \/ TimerDel \/ DelStep("timer")
    \/ Check \/ UnheldUnlock \/ LeftAgain \/ IdleHead

Next == Main \/ Timer \/ Tick

Spec == Init /\ [][Next]_vars

\* Requests come when they like, but the operating system runs both threads:
\* a thread that can go on does, and one that waits for a mutex that is free
\* again and again gets it in the end.  Nothing is assumed of spurious wakeups.
Fairness ==
    /\ WF_vars(Tick)
    /\ WF_vars(ScheduleLink \/ CancelNothing("main") \/ CancelUnlink("main")
                             \/ Erase("main"))
    /\ SF_vars(ScheduleLock \/ CancelLock("main"))
    /\ WF_vars(\/ Top \/ Left \/ WaitTimesOut \/ Fire \/ Reload \/ Call
               \/ Check \/ UnheldUnlock \/ LeftAgain \/ IdleHead
               \/ CancelNothing("timer") \/ CancelUnlink("timer")
               \/ Erase("timer"))
    /\ SF_vars(TimerLock)
    /\ SF_vars(TimerDel \/ CancelLock("timer"))

FairSpec == Spec /\ Fairness

-----------------------------------------------------------------------------
(***************************************************************************)
(* Properties.                                                             *)
(***************************************************************************)

\* Every variable has a value of its type.
TypeOK ==
    /\ mDatas \subseteq Message
    /\ chain \in Seq(Event)
    /\ qlock \in Thread \cup {"none"}
    /\ elock \in Thread \cup {"none"}
    /\ pc \in [Thread -> MainPC \cup TimerPC \cup {"dead"}]
    /\ arg \in [Thread -> Message]
    /\ alarm \in Nat
    /\ lease \in [Message -> Nat]

\* m has an event in the chain.
HasEvent(m) == \E i \in DOMAIN chain : SameEvent(chain[i], EventOf(m))

\* A locked message without an event would stay locked for ever.  The table
\* and the chain are changed one after the other, Del erases entries of other
\* queues than the one whose event it cancelled, equal events pile up in the
\* chain and the two have different mutexes; yet whenever nobody is inside
\* Lock or Del, every locked message has its event.
LockedHasEvent ==
    qlock = "none" /\ pc["main"] # "dead" => \A m \in mDatas : HasEvent(m)

\* To be inductive LockedHasEvent has to say what holds while a thread is
\* inside Lock or Del: which thread that is (TableMutex), and that a locked
\* message without an event is the one it works on (NoneForgotten).

\* The thread is between the lock and the unlock of MsgLock::qlock.
InTable(t) == pc[t] \in {"schedule", "link", "cancel", "unlink", "erase"}

\* The thread inside holds the mutex, so there is one at most.
TableMutex == \A t \in Thread : pc[t] # "dead" => (InTable(t) <=> qlock = t)

\* The main thread has inserted m and not yet scheduled its event.
BeingLocked(m) == pc["main"] \in {"schedule", "link"} /\ arg["main"] = m

\* A thread has cancelled the event of m and not yet erased m.
BeingErased(m) == \E t \in Thread : pc[t] = "erase" /\ arg[t] = m

NoneForgotten ==
    pc["main"] # "dead" =>
        \A m \in mDatas : HasEvent(m) \/ BeingLocked(m) \/ BeingErased(m)

\* The inductive invariant of MsgLock_proofs.
IInv == TypeOK /\ TableMutex /\ NoneForgotten

\* The timer decides how long to sleep from the head it sees and gives the mutex
\* up; events are scheduled and cancelled while it sleeps, and Cancel wakes
\* nobody.  It must never sleep beyond the deadline of any event that is in the
\* chain by now, nor without a deadline while there is one: the message would
\* stay locked until another one is locked, perhaps for ever.
NeverOversleeps ==
    /\ pc["timer"] = "condwait" => Empty
    /\ pc["timer"] = "timedwait" => \A i \in DOMAIN chain : alarm <= chain[i].left

\* Every lock is released in the end, by a request or by the timer, as long
\* as the process lives ("It can handle time out event automatically",
\* MsgLock.h:151).
LockReleased == \A m \in Message : (m \in mDatas) ~> (m \notin mDatas \/ pc["main"] = "dead")

\* The timer thread never dereferences a NULL or freed event.
TimerSurvives == pc["timer"] # "dead"

=============================================================================
