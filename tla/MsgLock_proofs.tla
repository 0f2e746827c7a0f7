--------------------------- MODULE MsgLock_proofs ----------------------------
(***************************************************************************)
(* Proofs about MsgLock, for any queues, ids, duration and requests, and   *)
(* of the lease, MCMsgLock's abstraction, that it implements.              *)
(***************************************************************************)
EXTENDS MCMsgLock, WellFoundedInduction, TLAPS

-----------------------------------------------------------------------------
(***************************************************************************)
(* What Schedule, Cancel and Elapse do to the links of a chain.            *)
(***************************************************************************)

\* Min of a non-empty set of positions is one of them (used for the position
\* at which EventChain::Schedule links and EventChain::Cancel unlinks).
LEMMA MinIsMember ==
    ASSUME NEW S \in SUBSET Nat, S # {}
    PROVE  Min(S) \in S
<1>1. IsWellFoundedOn(OpToRel(<, Nat), Nat)
  BY NatLessThanWellFounded
<1>2. PICK x \in S : \A y \in S : ~(<<y, x>> \in OpToRel(<, Nat))
  BY <1>1, WFMin
<1>3. \A y \in S : x =< y
  <2> SUFFICES ASSUME NEW y \in S, y < x
               PROVE  FALSE
    OBVIOUS
  <2>1. <<y, x>> \in Nat \X Nat /\ <<y, x>>[1] < <<y, x>>[2]
    OBVIOUS
  <2>2. <<y, x>> \in OpToRel(<, Nat)
    BY <2>1, Zenon DEF OpToRel
  <2> QED BY <1>2, <2>2
<1> QED BY <1>3 DEF Min

\* EventChain::Schedule adds the event and keeps every link.
LEMMA ScheduleKeeps ==
    ASSUME NEW S, NEW c \in Seq(S), NEW e \in S
    PROVE  /\ Schedule(c, e) \in Seq(S)
           /\ \E j \in DOMAIN Schedule(c, e) : Schedule(c, e)[j] = e
           /\ \A i \in DOMAIN c : \E j \in DOMAIN Schedule(c, e) :
                Schedule(c, e)[j] = c[i]
<1>1. CASE Later(c, e) = {}
  <2>1. Schedule(c, e) = Append(c, e)
    BY <1>1 DEF Schedule
  <2>2. Append(c, e)[Len(c) + 1] = e /\ Len(c) + 1 \in DOMAIN Append(c, e)
    OBVIOUS
  <2>3. \A i \in DOMAIN c : i \in DOMAIN Append(c, e) /\ Append(c, e)[i] = c[i]
    OBVIOUS
  <2> QED BY <2>1, <2>2, <2>3
<1>2. CASE Later(c, e) # {}
  <2> DEFINE k == Min(Later(c, e))
             d == SubSeq(c, 1, k-1) \o <<e>> \o SubSeq(c, k, Len(c))
  <2>1. Later(c, e) \in SUBSET Nat /\ Later(c, e) \subseteq 1..Len(c)
    BY DEF Later
  <2>2. k \in 1..Len(c)
    BY <1>2, <2>1, MinIsMember
  <2>3. Schedule(c, e) = d
    BY <1>2 DEF Schedule, InsertAt
  <2> HIDE DEF k
  <2>4. /\ d \in Seq(S)
        /\ Len(d) = Len(c) + 1
        /\ d[k] = e
        /\ \A i \in 1..Len(c) : i < k => d[i] = c[i]
        /\ \A i \in 1..Len(c) : i >= k => d[i+1] = c[i]
    BY <2>2
  <2> HIDE DEF d
  <2>5. k \in DOMAIN d
    BY <2>2, <2>4
  <2>6. \A i \in DOMAIN c : \E j \in DOMAIN d : d[j] = c[i]
    <3> TAKE i \in DOMAIN c
    <3>1. CASE i < k
      BY <2>4, <3>1
    <3>2. CASE i >= k
      <4>1. i + 1 \in DOMAIN d /\ d[i+1] = c[i]
        BY <2>4, <3>2
      <4> QED BY <4>1
    <3> QED BY <2>2, <3>1, <3>2
  <2> QED BY <2>3, <2>4, <2>5, <2>6
<1> QED BY <1>1, <1>2

\* EventChain::Cancel takes off nothing but a link equal to its argument.
LEMMA CancelKeeps ==
    ASSUME NEW S, NEW c \in Seq(S), NEW e
    PROVE  /\ Cancel(c, e) \in Seq(S)
           /\ \A i \in DOMAIN c : ~SameEvent(c[i], e) =>
                \E j \in DOMAIN Cancel(c, e) : Cancel(c, e)[j] = c[i]
<1>1. CASE Matches(c, e) = {}
  BY <1>1 DEF Cancel
<1>2. CASE Matches(c, e) # {}
  <2> DEFINE k == Min(Matches(c, e))
             d == SubSeq(c, 1, k-1) \o SubSeq(c, k+1, Len(c))
  <2>1. Matches(c, e) \in SUBSET Nat
    BY DEF Matches
  <2>2. k \in Matches(c, e)
    BY <1>2, <2>1, MinIsMember
  <2>3. k \in 1..Len(c) /\ SameEvent(c[k], e)
    BY <2>2 DEF Matches
  <2>4. Cancel(c, e) = d
    BY <1>2 DEF Cancel, RemoveAt
  <2> HIDE DEF k
  <2>5. /\ d \in Seq(S)
        /\ Len(d) = Len(c) - 1
        /\ \A i \in 1..Len(c) : i < k => d[i] = c[i]
        /\ \A i \in 1..Len(c) : i > k => d[i-1] = c[i]
    <3> DEFINE p == SubSeq(c, 1, k-1)
               q == SubSeq(c, k+1, Len(c))
    <3>1. p \in Seq(S) /\ Len(p) = k - 1 /\ \A i \in 1..(k-1) : p[i] = c[i]
      BY <2>3
    <3>2. q \in Seq(S) /\ Len(q) = Len(c) - k
      BY <2>3
    <3>3. \A i \in 1..(Len(c) - k) : q[i] = c[k + i]
      BY <2>3
    <3> HIDE DEF p, q
    <3>4. /\ p \o q \in Seq(S)
          /\ Len(p \o q) = Len(c) - 1
      BY <2>3, <3>1, <3>2
    <3>5. \A i \in 1..Len(c) : i < k => (p \o q)[i] = c[i]
      BY <2>3, <3>1, <3>2
    <3>6. \A i \in 1..Len(c) : i > k => (p \o q)[i-1] = c[i]
      <4> SUFFICES ASSUME NEW i \in 1..Len(c), i > k
                   PROVE  (p \o q)[i-1] = c[i]
        OBVIOUS
      <4>1. (p \o q)[i-1] = q[i - k]
        BY <2>3, <3>1, <3>2
      <4>2. q[i - k] = c[k + (i - k)]
        BY <2>3, <3>3
      <4> QED BY <2>3, <4>1, <4>2
    <3> QED BY <3>4, <3>5, <3>6 DEF p, q
  <2> HIDE DEF d
  <2>6. \A i \in DOMAIN c : ~SameEvent(c[i], e) =>
            \E j \in DOMAIN d : d[j] = c[i]
    <3> SUFFICES ASSUME NEW i \in DOMAIN c, ~SameEvent(c[i], e)
                 PROVE  \E j \in DOMAIN d : d[j] = c[i]
      OBVIOUS
    <3>1. CASE i < k
      BY <2>3, <2>5, <3>1
    <3>2. CASE i > k
      <4>1. i - 1 \in DOMAIN d /\ d[i-1] = c[i]
        BY <2>3, <2>5, <3>2
      <4> QED BY <4>1
    <3>3. i # k
      BY <2>3
    <3> QED BY <2>3, <3>1, <3>2, <3>3
  <2> QED BY <2>4, <2>5, <2>6
<1> QED BY <1>1, <1>2

\* The passing of time changes no link but for the time it has left.
LEMMA ElapseKeeps ==
    ASSUME NEW c \in Seq(Event)
    PROVE  /\ Elapse(c) \in Seq(Event)
           /\ DOMAIN Elapse(c) = DOMAIN c
           /\ \A i \in DOMAIN c : \A e :
                SameEvent(Elapse(c)[i], e) <=> SameEvent(c[i], e)
<1> DEFINE less(n) == IF n = 0 THEN 0 ELSE n - 1
<1>1. \A r \in Event, n \in Nat :
        LET u == [r EXCEPT !.left = n]
        IN /\ u \in Event
           /\ u.queue = r.queue
           /\ u.msgId = r.msgId
           /\ u.sched = r.sched
  BY DEF Event, EventSet
<1>2. Elapse(c) = [i \in 1..Len(c) |-> [c[i] EXCEPT !.left = less(c[i].left)]]
  BY DEF Elapse
<1>3. \A i \in DOMAIN c : c[i] \in Event /\ less(c[i].left) \in Nat
  <2> TAKE i \in DOMAIN c
  <2>1. c[i] \in Event
    OBVIOUS
  <2>2. c[i].left \in Nat
    BY <2>1 DEF Event, EventSet
  <2> QED BY <2>1, <2>2
<1> HIDE DEF less
<1>4. \A i \in DOMAIN c :
        /\ Elapse(c)[i] \in Event
        /\ Elapse(c)[i].queue = c[i].queue
        /\ Elapse(c)[i].msgId = c[i].msgId
        /\ Elapse(c)[i].sched = c[i].sched
  <2> TAKE i \in DOMAIN c
  <2>1. Elapse(c)[i] = [c[i] EXCEPT !.left = less(c[i].left)]
    BY <1>2
  <2> QED BY <1>1, <1>3, <2>1
<1>5. Elapse(c) \in [1..Len(c) -> Event]
  <2>1. \A i \in 1..Len(c) : Elapse(c)[i] \in Event
    BY <1>4
  <2> QED BY <1>2, <2>1
<1>6. Elapse(c) \in Seq(Event) /\ DOMAIN Elapse(c) = DOMAIN c
  BY <1>5
<1> QED BY <1>4, <1>6 DEF SameEvent

-----------------------------------------------------------------------------
(***************************************************************************)
(* Type correctness.                                                       *)
(***************************************************************************)

\* The result of Woken is a control state when its argument is one.
LEMMA WokenType ==
    ASSUME NEW P, {"lock", "idlelock"} \subseteq P, NEW p \in [Thread -> P]
    PROVE  /\ Woken(p) \in [Thread -> P]
           /\ Woken(p)["main"] = p["main"]
           /\ \/ Woken(p)["timer"] = p["timer"]
              \/ /\ p["timer"] \in {"timedwait", "condwait"}
                 /\ Woken(p)["timer"] \in {"lock", "idlelock"}
BY DEF Woken, Thread

\* Every variable keeps its type (the state of class MsgLock and of the two
\* threads that use it).
THEOREM TypeCorrect == Spec => []TypeOK
<1>1. Init => TypeOK
  <2> SUFFICES ASSUME Init
               PROVE  TypeOK
    OBVIOUS
  <2>1. (CHOOSE m \in Message : TRUE) \in Message
    <3>1. PICK q \in Queues, i \in MsgIds : TRUE
      BY MsgLockAssumption
    <3>2. <<q, i>> \in Message
      BY DEF Message
    <3> QED BY <3>2
  <2>2. pc \in [Thread -> MainPC \cup TimerPC \cup {"dead"}]
    BY DEF Init, Thread, MainPC, TimerPC
  <2>3. lease \in [Message -> Nat]
    BY DEF Init
  <2>4. arg \in [Thread -> Message]
    BY <2>1 DEF Init
  <2> QED BY <2>2, <2>3, <2>4 DEF Init, TypeOK
<1>2. TypeOK /\ [Next]_vars => TypeOK'
  <2> SUFFICES ASSUME TypeOK, [Next]_vars
               PROVE  TypeOK'
    OBVIOUS
  <2> DEFINE PC == MainPC \cup TimerPC \cup {"dead"}
  <2>0. \A t \in Thread, l \in PC : [pc EXCEPT ![t] = l] \in [Thread -> PC]
    BY DEF TypeOK
  <2>1. ASSUME NEW m \in Gettable, LockMsg(m)
        PROVE  TypeOK'
    <3>1. m \in Message
      BY MsgLockAssumption DEF Message
    <3>2. lease' \in [Message -> Nat]
      BY <2>1, <3>1, MsgLockAssumption DEF LockMsg, TypeOK
    <3> QED BY <2>0, <2>1, <3>1, <3>2 DEF LockMsg, TypeOK, Goto, Thread, MainPC
  <2>2. CASE ScheduleLock
    BY <2>0, <2>2 DEF ScheduleLock, TypeOK, Goto, Thread, MainPC
  <2>3. CASE ScheduleLink
    <3> DEFINE e == EventOf(arg["main"])
               p == [pc EXCEPT !["main"] = "idle"]
    <3>1. arg["main"] \in Message
      BY DEF TypeOK, Thread
    <3>2. e \in Event
      BY <3>1, MsgLockAssumption DEF EventOf, NewEvent, Event, EventSet, Message
    <3>3. chain' \in Seq(Event)
      BY <2>3, <3>2, ScheduleKeeps DEF ScheduleLink, TypeOK
    <3>4. p \in [Thread -> PC]
      BY <2>0 DEF Thread, MainPC
    <3>5. Woken(p) \in [Thread -> PC]
      BY <3>4, WokenType DEF TimerPC
    <3>6. pc' \in [Thread -> PC]
      BY <2>3, <3>4, <3>5 DEF ScheduleLink
    <3> QED BY <2>3, <3>3, <3>6 DEF ScheduleLink, TypeOK
  <2>4. ASSUME NEW m \in Deletable, UnLock(m)
        PROVE  TypeOK'
    <3>1. m \in Message
      BY MsgLockAssumption DEF Message
    <3> QED BY <2>0, <2>4, <3>1 DEF UnLock, TypeOK, Goto, Thread, MainPC
  <2>5. ASSUME NEW t \in Thread, DelStep(t)
        PROVE  TypeOK'
    <3>1. CASE CancelNothing(t)
      BY <2>0, <3>1 DEF CancelNothing, TypeOK, Goto, MainPC
    <3>2. CASE CancelLock(t)
      BY <2>0, <3>2 DEF CancelLock, TypeOK, Goto, MainPC
    <3>3. CASE CancelUnlink(t)
      <4>1. chain' \in Seq(Event)
        BY <3>3, CancelKeeps DEF CancelUnlink, TypeOK
      <4> QED BY <2>0, <3>3, <4>1 DEF CancelUnlink, TypeOK, Goto, MainPC
    <3>4. CASE Erase(t)
      <4>1. mDatas' \subseteq Message
        BY <3>4 DEF Erase, Del, TypeOK
      <4> QED BY <2>0, <3>4, <4>1 DEF Erase, TypeOK, Goto, MainPC, TimerPC
    <3> QED BY <2>5, <3>1, <3>2, <3>3, <3>4 DEF DelStep
  <2>6. ASSUME Crash
        PROVE  TypeOK'
    BY <2>6 DEF Crash, TypeOK
  <2>7. CASE Top
    BY <2>0, <2>7 DEF Top, TypeOK, Goto, Thread, TimerPC
  <2>8. CASE TimerLock
    BY <2>0, <2>8 DEF TimerLock, TypeOK, Goto, Thread, TimerPC
  <2>9. CASE Left
    <3>1. CASE Empty
      BY <2>6, <2>9, <3>1 DEF Left
    <3>2. CASE ~Empty
      <4>1. Head(chain) \in Event
        BY <3>2 DEF TypeOK, Empty
      <4>2. Head(chain).left \in Nat
        BY <4>1 DEF Event, EventSet
      <4> QED BY <2>0, <2>9, <3>2, <4>2 DEF Left, TypeOK, Goto, Thread, TimerPC
    <3> QED BY <3>1, <3>2
  <2>10. CASE WaitTimesOut
    BY <2>0, <2>10 DEF WaitTimesOut, TypeOK, Goto, Thread, TimerPC
  <2>11. CASE SpuriousWakeup
    <3>1. Woken(pc) \in [Thread -> PC]
      BY WokenType DEF TypeOK, TimerPC
    <3> QED BY <2>11, <3>1 DEF SpuriousWakeup, TypeOK
  <2>12. CASE Fire
    <3>1. CASE Empty
      BY <2>6, <2>12, <3>1 DEF Fire
    <3>2. CASE ~Empty
      <4>1. Head(chain) \in Event
        BY <3>2 DEF TypeOK, Empty
      <4>2. <<Head(chain).queue, Head(chain).msgId>> \in Message
        BY <4>1 DEF Event, EventSet, Message
      <4>3. arg' \in [Thread -> Message]
        BY <2>12, <3>2, <4>2 DEF Fire, TypeOK
      <4> QED BY <2>0, <2>12, <3>2, <4>3 DEF Fire, TypeOK, Goto, Thread, TimerPC
    <3> QED BY <3>1, <3>2
  <2>22. CASE Reload
    <3>1. CASE Empty
      BY <2>6, <2>22, <3>1 DEF Reload
    <3>2. CASE ~Empty
      <4>1. Head(chain) \in Event
        BY <3>2 DEF TypeOK, Empty
      <4>2. Head(chain).queue \in Queues /\ Head(chain).msgId \in MsgIds
        BY <4>1 DEF Event, EventSet
      <4>3. arg["timer"] \in Queues \X MsgIds
        BY DEF TypeOK, Thread, Message
      <4>4. arg' \in [Thread -> Message]
        BY <2>22, <3>2, <4>2, <4>3 DEF Reload, TypeOK, Message
      <4> QED BY <2>0, <2>22, <3>2, <4>4 DEF Reload, TypeOK, Goto, Thread, TimerPC
    <3> QED BY <3>1, <3>2
  <2>13. CASE CallFreed
    BY <2>6, <2>13 DEF CallFreed
  <2>14. CASE Call
    BY <2>0, <2>14 DEF Call, TypeOK, Goto, Thread, TimerPC
  <2>15. CASE TimerDel
    BY <2>0, <2>15 DEF TimerDel, TypeOK, Goto, Thread, TimerPC
  <2>16. CASE Check
    BY <2>0, <2>16 DEF Check, TypeOK, Goto, Thread, TimerPC
  <2>17. CASE UnheldUnlock
    BY <2>0, <2>17 DEF UnheldUnlock, TypeOK, Goto, Thread, TimerPC
  <2>18. CASE LeftAgain
    <3>1. CASE Empty
      BY <2>6, <2>18, <3>1 DEF LeftAgain
    <3>2. CASE ~Empty
      BY <2>0, <2>18, <3>2 DEF LeftAgain, TypeOK, Goto, Thread, TimerPC
    <3> QED BY <3>1, <3>2
  <2>19. CASE IdleHead
    BY <2>0, <2>19 DEF IdleHead, TypeOK, Goto, Thread, TimerPC
  <2>20. CASE Tick
    <3>1. chain' \in Seq(Event)
      BY <2>20, ElapseKeeps DEF Tick, TypeOK
    <3>2. \A n \in Nat : Minus1(n) \in Nat
      BY DEF Minus1
    <3>3. alarm' \in Nat /\ lease' \in [Message -> Nat]
      BY <2>20, <3>2 DEF Tick, TypeOK
    <3> QED BY <2>20, <3>1, <3>3 DEF Tick, TypeOK
  <2>21. CASE UNCHANGED vars
    BY <2>21 DEF vars, TypeOK
  <2> QED
    BY <2>1, <2>2, <2>3, <2>4, <2>5, <2>7, <2>8, <2>9, <2>10, <2>11, <2>12,
       <2>13, <2>14, <2>15, <2>16, <2>17, <2>18, <2>19, <2>20, <2>21, <2>22
    DEF Next, Main, Timer, Thread
<1> QED BY <1>1, <1>2, PTL DEF Spec

-----------------------------------------------------------------------------
(***************************************************************************)
(* Every locked message has an event.                                      *)
(*                                                                         *)
(* The property speaks of the moments when nobody is inside Lock or Del.   *)
(* To be inductive it has to say what holds in between: which thread is    *)
(* inside (TableMutex), and that a locked message without an event is the  *)
(* one this thread works on (NoneForgotten).                               *)
(***************************************************************************)

\* Two messages with equal events are the same message: Cancel takes off
\* nothing that belongs to another message.
LEMMA EventNamesMessage ==
    ASSUME NEW m \in Message, NEW n \in Message, NEW e,
           SameEvent(e, EventOf(m)), SameEvent(e, EventOf(n))
    PROVE  m = n
  BY DEF SameEvent, EventOf, NewEvent, Message

\* MsgLock::Del erases the message it is asked to if that is locked: an entry
\* of the queue itself comes before those of the queues behind it.
LEMMA DelErases ==
    ASSUME NEW locked \in SUBSET Message, NEW m \in Message
    PROVE  m \notin Del(locked, m[1], m[2])
<1> SUFFICES ASSUME m \in locked
             PROVE  m \in Erased(locked, m[1], m[2])
  BY DEF Del
<1>1. m[1] \in Nat
  BY MsgLockAssumption DEF Message
<1>2. m \in Reached(locked, m[1], m[2])
  BY <1>1 DEF Reached, Found
<1>3. \A l \in Reached(locked, m[1], m[2]) : m[1] <= l[1]
  BY <1>1, MsgLockAssumption DEF Reached, Message
<1> QED BY <1>2, <1>3 DEF Erased

\* A step of one thread that moves it neither into nor out of the table, and
\* leaves table, chain and mutex alone, preserves the two invariants.
LEMMA Elsewhere ==
    ASSUME TypeOK, TableMutex, NoneForgotten,
           NEW P, pc' \in [Thread -> P],
           pc'["main"] = pc["main"],
           pc["timer"] \notin {"schedule", "link", "cancel", "unlink", "erase"},
           pc'["timer"] \notin {"schedule", "link", "cancel", "unlink", "erase"},
           pc["timer"] # "dead",
           arg'["main"] = arg["main"],
           UNCHANGED <<mDatas, chain, qlock>>
    PROVE  TableMutex' /\ NoneForgotten'
<1>1. TableMutex'
  BY DEF TableMutex, InTable, Thread
<1>2. ASSUME pc'["main"] # "dead", NEW m \in mDatas'
      PROVE  HasEvent(m)' \/ BeingLocked(m)' \/ BeingErased(m)'
  <2>1. HasEvent(m) \/ BeingLocked(m) \/ BeingErased(m)
    BY <1>2 DEF NoneForgotten
  <2>2. CASE HasEvent(m)
    BY <2>2 DEF HasEvent
  <2>3. CASE BeingLocked(m)
    BY <2>3 DEF BeingLocked
  <2>4. CASE BeingErased(m)
    BY <2>4 DEF BeingErased, Thread
  <2> QED BY <2>1, <2>2, <2>3, <2>4
<1> QED BY <1>1, <1>2 DEF NoneForgotten

\* Lock and Del enter the table one at a time and leave no locked message
\* behind without an event.
LEMMA TableStep ==
    ASSUME TypeOK, TypeOK', TableMutex, NoneForgotten, [Next]_vars
    PROVE  TableMutex' /\ NoneForgotten'
<1> DEFINE PC == MainPC \cup TimerPC \cup {"dead"}
<1>0. pc \in [Thread -> PC] /\ pc' \in [Thread -> PC]
  BY DEF TypeOK
<1>1. ASSUME NEW m \in Gettable, LockMsg(m)
      PROVE  TableMutex' /\ NoneForgotten'
  <2>1. TableMutex'
    BY <1>0, <1>1 DEF LockMsg, Goto, TableMutex, InTable, Thread
  <2>2. ASSUME NEW n \in mDatas'
        PROVE  HasEvent(n)' \/ BeingLocked(n)' \/ BeingErased(n)'
    <3>1. CASE n = m
      BY <1>0, <1>1, <3>1 DEF LockMsg, Goto, BeingLocked, Thread, TypeOK
    <3>2. CASE n # m
      <4>1. pc["main"] = "idle" /\ n \in mDatas
        BY <1>1, <3>2 DEF LockMsg
      <4>2. HasEvent(n) \/ BeingErased(n)
        BY <4>1 DEF NoneForgotten, BeingLocked
      <4>3. CASE HasEvent(n)
        BY <1>1, <4>3 DEF LockMsg, HasEvent
      <4>4. CASE BeingErased(n)
        BY <1>0, <1>1, <4>1, <4>4
        DEF LockMsg, Goto, BeingErased, Thread, TypeOK
      <4> QED BY <4>2, <4>3, <4>4
    <3> QED BY <3>1, <3>2
  <2> QED BY <2>1, <2>2 DEF NoneForgotten
<1>2. CASE ScheduleLock
  <2>1. TableMutex'
    BY <1>0, <1>2 DEF ScheduleLock, Goto, TableMutex, InTable, Thread
  <2>2. ASSUME NEW n \in mDatas'
        PROVE  HasEvent(n)' \/ BeingLocked(n)' \/ BeingErased(n)'
    <3>1. HasEvent(n) \/ BeingLocked(n) \/ BeingErased(n)
      BY <1>2 DEF ScheduleLock, NoneForgotten
    <3>2. HasEvent(n) => HasEvent(n)'
      BY <1>2 DEF ScheduleLock, HasEvent
    <3>3. BeingLocked(n) => BeingLocked(n)'
      BY <1>0, <1>2 DEF ScheduleLock, Goto, BeingLocked, Thread
    <3>4. BeingErased(n) => BeingErased(n)'
      BY <1>0, <1>2 DEF ScheduleLock, Goto, BeingErased, Thread
    <3> QED BY <3>1, <3>2, <3>3, <3>4
  <2> QED BY <2>1, <2>2 DEF NoneForgotten
<1>3. CASE ScheduleLink
  <2> DEFINE a == arg["main"]
             p == [pc EXCEPT !["main"] = "idle"]
  <2>1. /\ p \in [Thread -> PC]
        /\ p["main"] = "idle"
        /\ p["timer"] = pc["timer"]
    BY <1>0 DEF Thread, MainPC
  <2>2. /\ Woken(p)["main"] = "idle"
        /\ \/ Woken(p)["timer"] = pc["timer"]
           \/ /\ pc["timer"] \in {"timedwait", "condwait"}
              /\ Woken(p)["timer"] \in {"lock", "idlelock"}
    <3>1. {"lock", "idlelock"} \subseteq PC
      BY DEF TimerPC
    <3> HIDE DEF PC, p
    <3> QED BY <2>1, <3>1, WokenType
  <2>3. /\ pc'["main"] = "idle"
        /\ \/ pc'["timer"] = pc["timer"]
           \/ /\ pc["timer"] \in {"timedwait", "condwait"}
              /\ pc'["timer"] \in {"lock", "idlelock"}
    BY <1>3, <2>1, <2>2 DEF ScheduleLink
  <2>4. pc["main"] = "link" /\ qlock' = "none" /\ mDatas' = mDatas /\ arg' = arg
    BY <1>3 DEF ScheduleLink
  <2>5. qlock = "main" /\ ~InTable("timer")
    BY <2>4 DEF TableMutex, InTable, Thread
  <2>6. TableMutex'
    BY <2>3, <2>4, <2>5 DEF TableMutex, InTable, Thread
  <2>7. a \in Message /\ EventOf(a) \in Event
    BY MsgLockAssumption
    DEF TypeOK, Thread, EventOf, NewEvent, Event, EventSet, Message
  <2>8. /\ \E j \in DOMAIN chain' : chain'[j] = EventOf(a)
        /\ \A i \in DOMAIN chain : \E j \in DOMAIN chain' : chain'[j] = chain[i]
    <3>1. chain' = Schedule(chain, EventOf(a)) /\ chain \in Seq(Event)
      BY <1>3 DEF ScheduleLink, TypeOK
    <3>2. ASSUME NEW e \in Event
          PROVE  \E j \in DOMAIN Schedule(chain, e) : Schedule(chain, e)[j] = e
      BY <3>1, ScheduleKeeps
    <3>3. ASSUME NEW e \in Event
          PROVE  \A i \in DOMAIN chain : \E j \in DOMAIN Schedule(chain, e) :
                      Schedule(chain, e)[j] = chain[i]
      BY <3>1, ScheduleKeeps
    <3> QED BY <2>7, <3>1, <3>2, <3>3
  <2>9. ASSUME NEW n \in mDatas'
        PROVE  HasEvent(n)'
    <3>1. HasEvent(n) \/ BeingLocked(n) \/ BeingErased(n)
      BY <2>4 DEF NoneForgotten
    <3>2. CASE HasEvent(n)
      BY <2>8, <3>2 DEF HasEvent
    <3>3. CASE BeingLocked(n)
      BY <2>8, <3>3 DEF HasEvent, BeingLocked, SameEvent
    <3>4. ~BeingErased(n)
      BY <2>4, <2>5 DEF BeingErased, InTable, Thread
    <3> QED BY <3>1, <3>2, <3>3, <3>4
  <2> QED BY <2>6, <2>9 DEF NoneForgotten
<1>4. ASSUME NEW m \in Deletable, UnLock(m)
      PROVE  TableMutex' /\ NoneForgotten'
  <2>1. TableMutex'
    BY <1>0, <1>4 DEF UnLock, Goto, TableMutex, InTable, Thread
  <2>2. ASSUME NEW n \in mDatas'
        PROVE  HasEvent(n)' \/ BeingErased(n)'
    <3>1. pc["main"] = "idle"
      BY <1>4 DEF UnLock
    <3>2. HasEvent(n) \/ BeingErased(n)
      BY <1>4, <3>1 DEF UnLock, NoneForgotten, BeingLocked
    <3>3. HasEvent(n) => HasEvent(n)'
      BY <1>4 DEF UnLock, HasEvent
    <3>4. BeingErased(n) => BeingErased(n)'
      BY <1>0, <1>4, <3>1 DEF UnLock, Goto, BeingErased, Thread, TypeOK
    <3> QED BY <3>2, <3>3, <3>4
  <2> QED BY <2>1, <2>2 DEF NoneForgotten
<1>5. ASSUME NEW t \in Thread, DelStep(t)
      PROVE  TableMutex' /\ NoneForgotten'
  <2>1. CASE CancelNothing(t)
    <3>1. TableMutex'
      BY <1>0, <2>1 DEF CancelNothing, Goto, TableMutex, InTable, Thread
    <3>2. ASSUME NEW n \in mDatas', pc'["main"] # "dead"
          PROVE  HasEvent(n)' \/ BeingLocked(n)' \/ BeingErased(n)'
      <4>1. HasEvent(n) \/ BeingLocked(n) \/ BeingErased(n)
        BY <1>0, <2>1, <3>2 DEF CancelNothing, Goto, NoneForgotten, Thread
      <4>2. ~HasEvent(n)
        BY <2>1 DEF CancelNothing, Empty, HasEvent
      <4>3. BeingLocked(n) => BeingLocked(n)'
        BY <1>0, <2>1 DEF CancelNothing, Goto, BeingLocked, Thread
      <4>4. BeingErased(n) => BeingErased(n)'
        BY <1>0, <2>1 DEF CancelNothing, Goto, BeingErased, Thread
      <4> QED BY <4>1, <4>2, <4>3, <4>4
    <3> QED BY <3>1, <3>2 DEF NoneForgotten
  <2>2. CASE CancelLock(t)
    <3>1. TableMutex'
      BY <1>0, <2>2 DEF CancelLock, Goto, TableMutex, InTable, Thread
    <3>2. ASSUME NEW n \in mDatas', pc'["main"] # "dead"
          PROVE  HasEvent(n)' \/ BeingLocked(n)' \/ BeingErased(n)'
      <4>1. HasEvent(n) \/ BeingLocked(n) \/ BeingErased(n)
        BY <1>0, <2>2, <3>2 DEF CancelLock, Goto, NoneForgotten, Thread
      <4>2. HasEvent(n) => HasEvent(n)'
        BY <2>2 DEF CancelLock, HasEvent
      <4>3. BeingLocked(n) => BeingLocked(n)'
        BY <1>0, <2>2 DEF CancelLock, Goto, BeingLocked, Thread
      <4>4. BeingErased(n) => BeingErased(n)'
        BY <1>0, <2>2 DEF CancelLock, Goto, BeingErased, Thread
      <4> QED BY <4>1, <4>2, <4>3, <4>4
    <3> QED BY <3>1, <3>2 DEF NoneForgotten
  <2>3. CASE CancelUnlink(t)
    <3>1. TableMutex'
      BY <1>0, <2>3 DEF CancelUnlink, Goto, TableMutex, InTable, Thread
    <3>2. ASSUME NEW n \in mDatas', pc'["main"] # "dead"
          PROVE  HasEvent(n)' \/ BeingLocked(n)' \/ BeingErased(n)'
      <4>0. n \in Message /\ arg[t] \in Message
        BY DEF TypeOK
      <4>1. HasEvent(n) \/ BeingLocked(n) \/ BeingErased(n)
        BY <1>0, <2>3, <3>2 DEF CancelUnlink, Goto, NoneForgotten, Thread
      <4>2. CASE n = arg[t]
        BY <1>0, <2>3, <4>2 DEF CancelUnlink, Goto, BeingErased, Thread
      <4>3. CASE n # arg[t] /\ HasEvent(n)
        <5>1. PICK i \in DOMAIN chain : SameEvent(chain[i], EventOf(n))
          BY <4>3 DEF HasEvent
        <5>2. ~SameEvent(chain[i], EventOf(arg[t]))
          BY <4>0, <4>3, <5>1, EventNamesMessage
        <5>3. \E j \in DOMAIN chain' : chain'[j] = chain[i]
          BY <2>3, <5>2, CancelKeeps DEF CancelUnlink, TypeOK
        <5> QED BY <5>1, <5>3 DEF HasEvent
      <4>4. BeingLocked(n) => BeingLocked(n)'
        BY <1>0, <2>3 DEF CancelUnlink, Goto, BeingLocked, Thread
      <4>5. BeingErased(n) => BeingErased(n)'
        BY <1>0, <2>3 DEF CancelUnlink, Goto, BeingErased, Thread
      <4> QED BY <4>1, <4>2, <4>3, <4>4, <4>5
    <3> QED BY <3>1, <3>2 DEF NoneForgotten
  <2>4. CASE Erase(t)
    <3>1. TableMutex'
      BY <1>0, <2>4 DEF Erase, Goto, TableMutex, InTable, Thread
    <3>2. ASSUME NEW n \in mDatas', pc'["main"] # "dead"
          PROVE  HasEvent(n)' \/ BeingLocked(n)' \/ BeingErased(n)'
      <4>0. n \in Message /\ arg[t] \in Message /\ n \in mDatas
        BY <2>4 DEF TypeOK, Erase, Del
      <4>1. HasEvent(n) \/ BeingLocked(n) \/ BeingErased(n)
        BY <1>0, <2>4, <3>2, <4>0 DEF Erase, Goto, NoneForgotten, Thread
      <4>2. HasEvent(n) => HasEvent(n)'
        BY <2>4 DEF Erase, HasEvent
      <4>3. BeingLocked(n) => BeingLocked(n)'
        BY <1>0, <2>4 DEF Erase, Goto, BeingLocked, Thread
      <4>4. n # arg[t]
        BY <2>4, <4>0, DelErases DEF Erase, TypeOK
      <4>5. BeingErased(n) => BeingErased(n)'
        BY <1>0, <2>4, <4>4 DEF Erase, Goto, BeingErased, Thread
      <4> QED BY <4>1, <4>2, <4>3, <4>5
    <3> QED BY <3>1, <3>2 DEF NoneForgotten
  <2> QED BY <1>5, <2>1, <2>2, <2>3, <2>4 DEF DelStep
<1>6. ASSUME Crash
      PROVE  TableMutex' /\ NoneForgotten'
  BY <1>6 DEF Crash, TableMutex, NoneForgotten, Thread
<1>7. CASE Top \/ TimerLock \/ WaitTimesOut \/ Call \/ Check \/ UnheldUnlock
           \/ IdleHead
  <2> DEFINE outside == {"top", "lock", "left", "timedwait", "call", "del",
                         "check", "again", "left2", "unheld", "idlelock",
                         "idlehead", "condwait"}
  <2>1. /\ pc["timer"] \in outside \/ pc["timer"] = "call"
        /\ \E l \in outside : Goto("timer", l)
        /\ UNCHANGED <<mDatas, chain, qlock, arg>>
    BY <1>7 DEF Top, TimerLock, WaitTimesOut, Call, Check, UnheldUnlock,
                IdleHead
  <2>2. pc'["main"] = pc["main"] /\ pc'["timer"] \in outside
    BY <1>0, <2>1 DEF Goto, Thread
  <2> QED BY <1>0, <2>1, <2>2, Elsewhere
<1>8. CASE SpuriousWakeup
  <2>1. /\ pc'["main"] = pc["main"]
        /\ pc["timer"] \in {"timedwait", "condwait"}
        /\ pc'["timer"] \in {"lock", "idlelock"}
    BY <1>0, <1>8 DEF SpuriousWakeup, Woken, Thread
  <2> QED BY <1>0, <1>8, <2>1, Elsewhere DEF SpuriousWakeup
<1>9. CASE Left \/ Fire \/ Reload \/ LeftAgain
  <2>1. CASE Empty
    BY <1>6, <1>9, <2>1 DEF Left, Fire, Reload, LeftAgain
  <2>2. CASE ~Empty
    <3>1. /\ pc'["main"] = pc["main"]
          /\ pc["timer"] \in {"left", "fire", "reload", "left2"}
          /\ pc'["timer"] \in {"timedwait", "fire", "reload", "call", "top"}
          /\ arg'["main"] = arg["main"]
          /\ UNCHANGED <<mDatas, chain, qlock>>
      BY <1>0, <1>9, <2>2 DEF Left, Fire, Reload, LeftAgain, Goto, Thread, TypeOK
    <3> QED BY <1>0, <3>1, Elsewhere
  <2> QED BY <2>1, <2>2
<1>10. CASE CallFreed
  BY <1>6, <1>10 DEF CallFreed
<1>11. CASE TimerDel
  <2>1. TableMutex'
    BY <1>0, <1>11 DEF TimerDel, Goto, TableMutex, InTable, Thread
  <2>2. ASSUME NEW n \in mDatas', pc'["main"] # "dead"
        PROVE  HasEvent(n)' \/ BeingLocked(n)' \/ BeingErased(n)'
    <3>1. HasEvent(n) \/ BeingLocked(n) \/ BeingErased(n)
      BY <1>0, <1>11, <2>2 DEF TimerDel, Goto, NoneForgotten, Thread
    <3>2. HasEvent(n) => HasEvent(n)'
      BY <1>11 DEF TimerDel, HasEvent
    <3>3. BeingLocked(n) => BeingLocked(n)'
      BY <1>0, <1>11 DEF TimerDel, Goto, BeingLocked, Thread
    <3>4. BeingErased(n) => BeingErased(n)'
      BY <1>0, <1>11 DEF TimerDel, Goto, BeingErased, Thread
    <3> QED BY <3>1, <3>2, <3>3, <3>4
  <2> QED BY <2>1, <2>2 DEF NoneForgotten
<1>12. CASE Tick
  <2>1. TableMutex'
    BY <1>12 DEF Tick, TableMutex, InTable
  <2>2. ASSUME NEW n \in mDatas', pc'["main"] # "dead"
        PROVE  HasEvent(n)' \/ BeingLocked(n)' \/ BeingErased(n)'
    <3>1. HasEvent(n) \/ BeingLocked(n) \/ BeingErased(n)
      BY <1>12, <2>2 DEF Tick, NoneForgotten
    <3>2. HasEvent(n) => HasEvent(n)'
      BY <1>12, ElapseKeeps DEF Tick, HasEvent, TypeOK
    <3> QED BY <1>12, <3>1, <3>2 DEF Tick, BeingLocked, BeingErased
  <2> QED BY <2>1, <2>2 DEF NoneForgotten
<1>13. CASE UNCHANGED vars
  BY <1>13 DEF vars, TableMutex, InTable, NoneForgotten, HasEvent,
               BeingLocked, BeingErased
<1> QED
  BY <1>1, <1>2, <1>3, <1>4, <1>5, <1>7, <1>8, <1>9, <1>10, <1>11, <1>12,
     <1>13
  DEF Next, Main, Timer, Thread
\* The inductive invariant holds all along.
LEMMA TableAlways == Spec => [](TableMutex /\ NoneForgotten)
<1>1. Init => TableMutex /\ NoneForgotten
  BY DEF Init, TableMutex, InTable, NoneForgotten, Thread
<1>2. TypeOK /\ TypeOK' /\ (TableMutex /\ NoneForgotten) /\ [Next]_vars
        => (TableMutex /\ NoneForgotten)'
  BY TableStep
<1> QED BY <1>1, <1>2, TypeCorrect, PTL DEF Spec

\* Whenever nobody is inside Lock or Del, each locked message has an event in
\* the chain, so that the timer will come to release it.
THEOREM LockedHasEventAlways == Spec => []LockedHasEvent
<1>1. TableMutex /\ NoneForgotten => LockedHasEvent
  BY DEF TableMutex, NoneForgotten, LockedHasEvent, InTable, BeingLocked,
         BeingErased, Thread
<1> QED BY <1>1, TableAlways, PTL

-----------------------------------------------------------------------------
(***************************************************************************)
(* Where the links of a chain are after Schedule, Cancel and Elapse.       *)
(***************************************************************************)

\* e is linked at some position, and those behind it move up; not before a
\* head that has no more time left than e.
LEMMA Scheduled ==
    ASSUME NEW S, NEW c \in Seq(S), NEW e \in S
    PROVE  \E k \in 1..(Len(c) + 1) :
              /\ Schedule(c, e) \in Seq(S) /\ Len(Schedule(c, e)) = Len(c) + 1
              /\ \A i \in 1..(Len(c) + 1) :
                    Schedule(c, e)[i] = IF i = k THEN e ELSE c[IF i < k THEN i ELSE i - 1]
              /\ c # << >> /\ ~(c[1].left > e.sched) => k # 1
<1>1. CASE Later(c, e) = {}
  <2>1. Schedule(c, e) = Append(c, e)
    BY <1>1 DEF Schedule
  <2>2. PICK d : d = Append(c, e)
    OBVIOUS
  <2>3. /\ d \in Seq(S) /\ Len(d) = Len(c) + 1 /\ Len(c) \in Nat
        /\ d[Len(c) + 1] = e /\ \A i \in 1..Len(c) : d[i] = c[i]
    BY <2>2
  <2>4. \A i \in 1..(Len(c) + 1) :
            d[i] = IF i = Len(c) + 1 THEN e ELSE c[IF i < Len(c) + 1 THEN i ELSE i - 1]
    BY <2>3
  <2>5. c # << >> => Len(c) + 1 # 1
    OBVIOUS
  <2>6. Len(c) + 1 \in 1..(Len(c) + 1)
    BY <2>3
  <2> QED
    BY <2>1, <2>2, <2>3, <2>4, <2>5, <2>6
<1>2. CASE Later(c, e) # {}
  <2>1. PICK k : k = Min(Later(c, e))
    OBVIOUS
  <2>2. Later(c, e) \in SUBSET Nat /\ Later(c, e) \subseteq 1..Len(c)
    BY DEF Later
  <2>3. k \in Later(c, e) /\ k \in 1..Len(c)
    BY <1>2, <2>1, <2>2, MinIsMember
  <2> DEFINE d == SubSeq(c, 1, k-1) \o <<e>> \o SubSeq(c, k, Len(c))
  <2>5. Schedule(c, e) = d
    BY <1>2, <2>1 DEF Schedule, InsertAt
  <2>4. k \in 1..Len(c)
    BY <2>3
  <2>6. /\ d \in Seq(S) /\ Len(d) = Len(c) + 1 /\ d[k] = e
        /\ \A i \in 1..Len(c) : i < k => d[i] = c[i]
        /\ \A i \in 1..Len(c) : i >= k => d[i+1] = c[i]
    BY <2>4
  <2> HIDE DEF d
  <2>11. Len(c) \in Nat
    OBVIOUS
  <2>7. ASSUME NEW i \in 1..(Len(c) + 1)
        PROVE  d[i] = IF i = k THEN e ELSE c[IF i < k THEN i ELSE i - 1]
    <3>1. CASE i < k
      BY <2>3, <2>6, <2>11, <3>1
    <3>2. CASE i > k
      <4>1. i - 1 \in 1..Len(c) /\ i - 1 >= k /\ (i - 1) + 1 = i
        BY <2>3, <2>6, <2>11, <3>2
      <4>2. d[(i - 1) + 1] = c[i - 1]
        BY <2>6, <4>1
      <4> QED
        BY <2>3, <3>2, <4>1, <4>2
    <3>3. CASE i = k
      BY <2>6, <3>3
    <3> QED
      BY <2>3, <2>6, <2>11, <3>1, <3>2, <3>3
  <2>8. c[k].left > e.sched
    BY <2>3 DEF Later
  <2>9. ~(c[1].left > e.sched) => k # 1
    BY <2>8
  <2>10. k \in 1..(Len(c) + 1)
    BY <2>3, <2>6, <2>11
  <2> QED
    BY <2>5, <2>6, <2>7, <2>9, <2>10
<1> QED
  BY <1>1, <1>2

\* A link equal to e is unlinked, and those behind it move down.
LEMMA Cancelled ==
    ASSUME NEW S, NEW c \in Seq(S), NEW e, Matches(c, e) # {}
    PROVE  \E k \in Matches(c, e) :
              /\ Cancel(c, e) \in Seq(S) /\ Len(Cancel(c, e)) = Len(c) - 1
              /\ \A i \in 1..(Len(c) - 1) : Cancel(c, e)[i] = c[IF i < k THEN i ELSE i + 1]
<1>1. PICK k : k = Min(Matches(c, e))
  OBVIOUS
<1>2. Matches(c, e) \in SUBSET Nat /\ Matches(c, e) \subseteq 1..Len(c)
  BY DEF Matches
<1>3. k \in Matches(c, e) /\ k \in 1..Len(c) /\ Len(c) \in Nat
  BY <1>1, <1>2, MinIsMember
<1> DEFINE p == SubSeq(c, 1, k-1)
           q == SubSeq(c, k+1, Len(c))
<1>5. Cancel(c, e) = p \o q
  BY <1>1 DEF Cancel, RemoveAt
<1>6. /\ p \in Seq(S) /\ Len(p) = k - 1 /\ \A i \in 1..(k-1) : p[i] = c[i]
      /\ q \in Seq(S) /\ Len(q) = Len(c) - k
  BY <1>3
<1>7. \A i \in 1..(Len(c) - k) : q[i] = c[k + i]
  BY <1>3
<1> HIDE DEF p, q
<1>4. PICK d : d = p \o q
  OBVIOUS
<1>8. /\ d \in Seq(S) /\ Len(d) = Len(c) - 1
      /\ \A i \in 1..(k-1) : d[i] = p[i]
      /\ \A i \in 1..(Len(c) - k) : d[(k - 1) + i] = q[i]
  <2>1. /\ d \in Seq(S) /\ Len(d) = Len(p) + Len(q)
        /\ \A i \in 1..Len(p) : d[i] = p[i]
        /\ \A i \in 1..Len(q) : d[Len(p) + i] = q[i]
    <3>1. ASSUME NEW a \in Seq(S), NEW b \in Seq(S)
          PROVE  /\ a \o b \in Seq(S) /\ Len(a \o b) = Len(a) + Len(b)
                 /\ \A i \in 1..Len(a) : (a \o b)[i] = a[i]
                 /\ \A i \in 1..Len(b) : (a \o b)[Len(a) + i] = b[i]
      OBVIOUS
    <3> QED
      BY <1>4, <1>6, <3>1
  <2> QED
    BY <1>3, <1>6, <2>1
<1>9. ASSUME NEW i \in 1..(Len(c) - 1) PROVE d[i] = c[IF i < k THEN i ELSE i + 1]
  <2>1. CASE i < k
    BY <1>3, <1>6, <1>8, <2>1
  <2>2. CASE i >= k
    <3>1. i - (k - 1) \in 1..(Len(c) - k) /\ (k - 1) + (i - (k - 1)) = i
          /\ k + (i - (k - 1)) = i + 1
      BY <1>3, <2>2
    <3>2. d[(k - 1) + (i - (k - 1))] = q[i - (k - 1)] /\ q[i - (k - 1)] = c[k + (i - (k - 1))]
      BY <1>7, <1>8, <3>1
    <3> QED
      BY <1>3, <2>2, <3>1, <3>2
  <2> QED
    BY <1>3, <2>1, <2>2
<1> QED
  BY <1>3, <1>4, <1>5, <1>8, <1>9

\* What is left of the time of each link after a second.
LEMMA Elapsed ==
    ASSUME NEW c \in Seq(Event), NEW i \in DOMAIN c
    PROVE  /\ Elapse(c)[i].left = Minus1(c[i].left) /\ c[i].left \in Nat
           /\ Len(Elapse(c)) = Len(c)
<1>1. c[i] \in Event
  OBVIOUS
<1>2. \A n : [c[i] EXCEPT !.left = n].left = n
  BY <1>1 DEF Event, EventSet
<1>3. Elapse(c) \in Seq(Event) /\ DOMAIN Elapse(c) = DOMAIN c
  BY ElapseKeeps
<1>4. PICK d \in Seq(Event) : d = Elapse(c) /\ DOMAIN d = DOMAIN c
  BY <1>3
<1>5. Len(d) = Len(c)
  BY <1>4
<1> QED
  BY <1>1, <1>2, <1>4, <1>5 DEF Elapse, Minus1, Event, EventSet

-----------------------------------------------------------------------------
(***************************************************************************)
(* How long the timer sleeps.                                              *)
(***************************************************************************)

\* What NeverOversleeps rests on: no event has more time left than a new one, so
\* none is put before another, and the chain is in the order of the times left.
Wakeful ==
    /\ NeverOversleeps
    /\ pc["timer"] = "timedwait" => alarm <= Timeout
    /\ \A i, j \in DOMAIN chain : i < j => chain[i].left <= chain[j].left
    /\ \A i \in DOMAIN chain : chain[i].left <= Timeout

\* The numbers involved, and the head.
LEMMA WakefulTypes ==
    ASSUME TypeOK
    PROVE  /\ alarm \in Nat /\ Timeout \in Nat
           /\ chain \in Seq(Event) /\ DOMAIN chain = 1..Len(chain) /\ Len(chain) \in Nat
           /\ \A i \in DOMAIN chain : chain[i].left \in Nat
           /\ chain # << >> => Head(chain) = chain[1] /\ 1 \in DOMAIN chain
<1>1. chain \in Seq(Event)
  BY DEF TypeOK
<1>2. \A i \in DOMAIN chain : chain[i].left \in Nat
  <2> TAKE i \in DOMAIN chain
  <2>1. chain[i] \in Event
    BY <1>1
  <2> QED
    BY <2>1 DEF Event, EventSet
<1>3. /\ DOMAIN chain = 1..Len(chain) /\ Len(chain) \in Nat
      /\ chain # << >> => Head(chain) = chain[1] /\ 1 \in DOMAIN chain
  BY <1>1
<1> QED
  BY <1>1, <1>2, <1>3, MsgLockAssumption DEF TypeOK

\* The timer waits as it did before, or does not wait.
LEMMA WakefulKept ==
    ASSUME Wakeful, UNCHANGED chain,
           \/ pc'["timer"] \notin {"timedwait", "condwait"}
           \/ pc'["timer"] = pc["timer"] /\ alarm' = alarm
    PROVE  Wakeful'
BY DEF Wakeful, NeverOversleeps, Empty

\* A new event goes to the end, and the timer is woken if it slept without a
\* deadline.
LEMMA WakefulLink ==
    ASSUME TypeOK, Wakeful, ScheduleLink
    PROVE  Wakeful'
<1>1. PICK a \in Message : a = arg["main"]
  BY DEF TypeOK, Thread
<1>2. PICK e \in Event : e = EventOf(a)
  BY <1>1, MsgLockAssumption DEF EventOf, NewEvent, Event, EventSet, Message
<1>3. e.sched = Timeout /\ e.left = Timeout
  BY <1>2 DEF EventOf, NewEvent
<1>4. Later(chain, e) = {}
  BY <1>3, WakefulTypes DEF Later, Wakeful
<1>5. chain' = Append(chain, e)
  BY <1>1, <1>2, <1>4 DEF ScheduleLink, Schedule
<1>6. /\ DOMAIN chain' = 1..(Len(chain) + 1) /\ chain'[Len(chain) + 1] = e
      /\ \A i \in DOMAIN chain : chain'[i] = chain[i]
  BY <1>2, <1>5, WakefulTypes
<1>7. \A i \in DOMAIN chain' : chain'[i].left <= Timeout
  BY <1>3, <1>6, WakefulTypes DEF Wakeful
<1>8. \A i, j \in DOMAIN chain' : i < j => chain'[i].left <= chain'[j].left
  <2> TAKE i, j \in DOMAIN chain'
  <2> HAVE i < j
  <2>1. i \in DOMAIN chain
    BY <1>6, WakefulTypes
  <2>2. CASE j = Len(chain) + 1
    BY <1>3, <1>6, <2>1, <2>2, WakefulTypes DEF Wakeful
  <2>3. CASE j # Len(chain) + 1
    <3>1. j \in DOMAIN chain
      BY <1>6, <2>3, WakefulTypes
    <3> QED
      BY <1>6, <2>1, <3>1 DEF Wakeful
  <2> QED
    BY <2>2, <2>3
\* In an empty chain the event becomes the head.
<1>9. CASE chain = << >>
  <2> DEFINE p == [pc EXCEPT !["main"] = "idle"]
  <2>1. BecomesHead(chain, EventOf(arg["main"])) /\ pc' = Woken(p)
    BY <1>9 DEF BecomesHead, ScheduleLink
  <2>2. Woken(p)["timer"] \notin {"timedwait", "condwait"}
    BY DEF Woken, TypeOK, Thread
  <2> QED
    BY <1>7, <1>8, <2>1, <2>2 DEF Wakeful, NeverOversleeps
<1>10. CASE chain # << >>
  <2>1. pc'["timer"] = pc["timer"] /\ alarm' = alarm
    BY <1>1, <1>2, <1>4, <1>10 DEF ScheduleLink, BecomesHead, TypeOK, Thread
  <2>2. pc["timer"] # "condwait"
    BY <1>10 DEF Wakeful, NeverOversleeps, Empty
  <2>3. pc["timer"] = "timedwait" => \A i \in DOMAIN chain' : alarm <= chain'[i].left
    BY <1>3, <1>6, WakefulTypes DEF Wakeful, NeverOversleeps
  <2> QED
    BY <1>7, <1>8, <2>1, <2>2, <2>3 DEF Wakeful, NeverOversleeps
<1> QED
  BY <1>9, <1>10

\* Cancel leaves links that were there, in their order.
LEMMA WakefulUnlink ==
    ASSUME TypeOK, Wakeful, NEW t \in Thread, CancelUnlink(t)
    PROVE  Wakeful'
<1>1. PICK e : e = EventOf(arg[t]) /\ chain' = Cancel(chain, e)
  BY DEF CancelUnlink
<1>2. \/ pc'["timer"] \notin {"timedwait", "condwait"}
      \/ pc'["timer"] = pc["timer"] /\ alarm' = alarm
  BY DEF CancelUnlink, Goto, TypeOK, Thread
<1>3. CASE Matches(chain, e) = {}
  BY <1>1, <1>2, <1>3, WakefulKept DEF Cancel
<1>4. CASE Matches(chain, e) # {}
  <2>1. chain \in Seq(Event) /\ Len(chain) \in Nat /\ DOMAIN chain = 1..Len(chain)
    BY WakefulTypes
  <2>2. PICK k \in Matches(chain, e) :
          /\ chain' \in Seq(Event) /\ Len(chain') = Len(chain) - 1
          /\ \A i \in 1..(Len(chain) - 1) : chain'[i] = chain[IF i < k THEN i ELSE i + 1]
    <3>1. \E k \in Matches(chain, e) :
            /\ Cancel(chain, e) \in Seq(Event) /\ Len(Cancel(chain, e)) = Len(chain) - 1
            /\ \A i \in 1..(Len(chain) - 1) :
                  Cancel(chain, e)[i] = chain[IF i < k THEN i ELSE i + 1]
      BY <1>4, <2>1, Cancelled
    <3> QED
      BY <1>1, <3>1, Zenon
  <2> DEFINE from(i) == IF i < k THEN i ELSE i + 1
  <2>3. k \in DOMAIN chain
    BY DEF Matches
  <2>4. DOMAIN chain' = 1..(Len(chain) - 1)
    BY <2>1, <2>2
  <2>5. ASSUME NEW i \in DOMAIN chain'
        PROVE  from(i) \in DOMAIN chain /\ chain'[i] = chain[from(i)]
    BY <2>1, <2>2, <2>3, <2>4, <2>5
  <2>6. ASSUME NEW i \in DOMAIN chain', NEW j \in DOMAIN chain', i < j
        PROVE  from(i) < from(j)
    BY <2>1, <2>3, <2>4, <2>6
  <2> HIDE DEF from
  <2>7. pc["timer"] # "condwait"
    BY <2>1, <2>3 DEF Wakeful, NeverOversleeps, Empty
  <2> QED
    BY <1>2, <2>5, <2>6, <2>7 DEF Wakeful, NeverOversleeps
<1> QED
  BY <1>3, <1>4

LEMMA WakefulTick ==
    ASSUME TypeOK, Wakeful, Tick
    PROVE  Wakeful'
<1>1. chain' = Elapse(chain) /\ alarm' = Minus1(alarm) /\ pc' = pc
  BY DEF Tick
<1>2. DOMAIN chain' = DOMAIN chain
  BY <1>1, WakefulTypes, ElapseKeeps
<1>3. \A i \in DOMAIN chain : chain'[i].left = Minus1(chain[i].left)
  BY <1>1, WakefulTypes, Elapsed
<1>4. \A n, k \in Nat : n <= k => Minus1(n) <= Minus1(k)
  BY DEF Minus1
<1>5. \A n, k \in Nat : n <= k => Minus1(n) <= k
  BY DEF Minus1
<1>6. Empty => chain' = << >>
  <2> SUFFICES ASSUME Empty PROVE chain' = << >>
    OBVIOUS
  <2>1. chain' \in Seq(Event)
    BY <1>1, WakefulTypes, ElapseKeeps
  <2>2. DOMAIN chain' = {}
    BY <1>2 DEF Empty
  <2> QED
    BY <2>1, <2>2
<1> QED
  BY <1>1, <1>2, <1>3, <1>4, <1>5, <1>6, WakefulTypes DEF Wakeful, NeverOversleeps, Empty

LEMMA WakefulStep == TypeOK /\ Wakeful /\ [Next]_vars => Wakeful'
<1> SUFFICES ASSUME TypeOK, Wakeful, [Next]_vars PROVE Wakeful'
  OBVIOUS
<1>1. \A l : \A t \in Thread :
        Goto(t, l) => /\ t = "timer" => pc'["timer"] = l
                      /\ t = "main" => pc'["timer"] = pc["timer"]
  BY DEF Goto, TypeOK, Thread
<1>2. Crash => UNCHANGED chain /\ pc'["timer"] = "dead"
  BY DEF Crash, Thread
<1>3. ASSUME Main PROVE Wakeful'
  <2>1. CASE (\E m \in Gettable : LockMsg(m)) \/ ScheduleLock \/ \E m \in Deletable : UnLock(m)
    BY <1>1, <2>1, WakefulKept DEF LockMsg, ScheduleLock, UnLock, Thread
  <2>2. CASE CancelNothing("main") \/ CancelLock("main") \/ Erase("main")
    BY <1>1, <2>2, WakefulKept DEF CancelNothing, CancelLock, Erase, Thread
  <2> QED
    BY <1>3, <2>1, <2>2, WakefulLink, WakefulUnlink DEF Main, DelStep, Thread
\* The timer sleeps with a deadline: that of the head, the earliest.
<1>4. CASE Left
  <2>1. CASE Empty
    BY <1>2, <1>4, <2>1, WakefulKept DEF Left
  <2>2. CASE ~Empty
    <3>1. /\ UNCHANGED chain /\ pc'["timer"] # "condwait"
          /\ pc'["timer"] = "timedwait" => alarm' = chain[1].left
      BY <1>1, <1>4, <2>2, WakefulTypes DEF Left, Empty, Thread
    <3>2. 1 \in DOMAIN chain /\ \A i \in DOMAIN chain : i = 1 \/ 1 < i
      BY <2>2, WakefulTypes DEF Empty
    <3>3. \A i \in DOMAIN chain : chain[1].left <= chain[i].left
      BY <3>2, WakefulTypes DEF Wakeful
    <3> QED
      BY <3>1, <3>2, <3>3, WakefulTypes DEF Wakeful, NeverOversleeps
  <2> QED
    BY <2>1, <2>2
\* It sleeps without one: there is no event.
<1>5. CASE IdleHead
  <2>1. /\ UNCHANGED chain /\ pc'["timer"] # "timedwait"
        /\ pc'["timer"] = "condwait" => chain' = << >>
    BY <1>1, <1>5 DEF IdleHead, Empty, Thread
  <2> QED
    BY <2>1 DEF Wakeful, NeverOversleeps, Empty
<1>6. CASE SpuriousWakeup
  <2>1. pc'["timer"] \notin {"timedwait", "condwait"}
    BY <1>6 DEF SpuriousWakeup, Woken, TypeOK, Thread
  <2> QED
    BY <1>6, <2>1, WakefulKept DEF SpuriousWakeup
<1>7. CASE Fire \/ Reload \/ LeftAgain \/ CallFreed
  <2>1. UNCHANGED chain /\ pc'["timer"] \in {"reload", "call", "fire", "top", "dead"}
    BY <1>1, <1>2, <1>7 DEF Fire, Reload, LeftAgain, CallFreed, Thread
  <2> QED
    BY <2>1, WakefulKept
<1>8. CASE Top \/ TimerLock \/ WaitTimesOut \/ Call \/ TimerDel \/ Check \/ UnheldUnlock
  <2>1. /\ UNCHANGED chain
        /\ pc'["timer"] \in {"idlelock", "lock", "left", "left2", "idlehead", "del",
                             "cancel", "unheld", "again", "top"}
    BY <1>1, <1>8 DEF Top, TimerLock, WaitTimesOut, Call, TimerDel, Check, UnheldUnlock,
                      Thread
  <2> QED
    BY <2>1, WakefulKept
<1>9. CASE CancelNothing("timer") \/ CancelLock("timer") \/ Erase("timer")
  <2>1. UNCHANGED chain /\ pc'["timer"] \in {"erase", "unlink", "check"}
    BY <1>1, <1>9 DEF CancelNothing, CancelLock, Erase, Thread
  <2> QED
    BY <2>1, WakefulKept
<1>10. ASSUME UNCHANGED vars PROVE Wakeful'
  BY <1>10, WakefulKept DEF vars
<1> QED
  BY <1>3, <1>4, <1>5, <1>6, <1>7, <1>8, <1>9, <1>10, WakefulTick, WakefulUnlink
     DEF Next, Timer, DelStep, Thread

\* Whatever is locked and deleted while the timer sleeps, it never sleeps past
\* the deadline of an event in the chain, nor without a deadline while there is
\* one.
THEOREM NeverOversleepsAlways == Spec => []NeverOversleeps
<1>1. Init => Wakeful
  <2>1. Init => DOMAIN chain = {}
    BY DEF Init
  <2> QED
    BY <2>1 DEF Init, Wakeful, NeverOversleeps, Empty
<1>2. Wakeful => NeverOversleeps
  BY DEF Wakeful
<1> QED
  BY <1>1, <1>2, WakefulStep, TypeCorrect, PTL DEF Spec

-----------------------------------------------------------------------------
(***************************************************************************)
(* Without requests to delete.                                             *)
(*                                                                         *)
(* Only the timer releases locks then, and it does so for messages whose   *)
(* event it has seen run out.  Serving says, for each place of the two     *)
(* threads, what there is in the chain and in the table.                   *)
(***************************************************************************)

\* No DELETE_MSG request comes.
NoRequests == Deletable = {}

\* The message whose event the i-th link is.
Of(i) == <<chain[i].queue, chain[i].msgId>>

\* The events of locked messages, one of each at most, none of which runs out
\* before the lease it stands for.
Leased ==
    /\ \A i \in DOMAIN chain : Of(i) \in mDatas /\ lease[Of(i)] <= chain[i].left
    /\ \A i, j \in DOMAIN chain : Of(i) = Of(j) => i = j
    /\ \A m \in Message : lease[m] <= Timeout

\* The main thread is idle or locks a message that has no event yet.
Locking ==
    /\ pc["main"] \in {"idle", "schedule", "link"}
    /\ pc["main"] # "idle" =>
          /\ arg["main"] \in mDatas
          /\ \A i \in DOMAIN chain : Of(i) # arg["main"]

\* The timer reads head where there is one, and releases a message whose event
\* and lease have run out.
Releasing ==
    /\ pc["timer"] \in TimerPC
    /\ pc["timer"] \in {"lock", "left", "timedwait", "fire", "reload", "again",
                        "left2"} =>
          chain # << >>
    /\ pc["timer"] \in {"fire", "reload"} => chain[1].left = 0
    /\ pc["timer"] = "reload" => arg["timer"] = Of(1)
    /\ pc["timer"] \in {"call", "del", "cancel", "unlink"} =>
          \E i \in DOMAIN chain : Of(i) = arg["timer"] /\ chain[i].left = 0
    /\ pc["timer"] = "erase" =>
          /\ arg["timer"] \in mDatas /\ lease[arg["timer"]] = 0
          /\ \A i \in DOMAIN chain : Of(i) # arg["timer"]

Serving == Leased /\ Locking /\ Releasing

\* A link is the event of one message, that of EventOf among them.
LEMMA OfMessage ==
    ASSUME TypeOK, NEW i \in DOMAIN chain
    PROVE  /\ chain[i] \in Event /\ Of(i) \in Message
           /\ \A m \in Message : SameEvent(chain[i], EventOf(m)) <=> Of(i) = m
<1>1. chain[i] \in Event
  BY DEF TypeOK
<1> QED
  BY <1>1 DEF Event, EventSet, Of, Message, SameEvent, EventOf, NewEvent

\* A locked message is found, and Del erases it and nothing else.
LEMMA DelOne ==
    ASSUME NEW locked \in SUBSET Message, NEW m \in locked
    PROVE  IsExist(locked, m[1], m[2]) /\ Del(locked, m[1], m[2]) = locked \ {m}
<1>1. ASSUME NEW k \in locked PROVE k[1] \in Nat /\ k = <<k[1], k[2]>>
  <2>1. k \in Queues \X MsgIds
    BY DEF Message
  <2>2. k[1] \in Queues /\ k = <<k[1], k[2]>>
    BY <2>1
  <2> QED
    BY <2>2, MsgLockAssumption
<1>2. m \in Reached(locked, m[1], m[2])
  BY <1>1 DEF Reached, Found
<1>3. m \in Erased(locked, m[1], m[2])
  BY <1>1, <1>2 DEF Erased, Reached
<1>4. ASSUME NEW k \in Erased(locked, m[1], m[2]) PROVE k = m
  <2>1. k \in locked /\ k[1] >= m[1] /\ k[2] = m[2] /\ k[1] <= m[1]
    BY <1>2, <1>4 DEF Erased, Reached
  <2>2. k[1] = m[1]
    BY <1>1, <2>1
  <2> QED
    BY <1>1, <2>1, <2>2
<1> QED
  BY <1>2, <1>3, <1>4 DEF IsExist, Del

\* A step that touches neither table nor chain nor leases.
LEMMA LeasedKept ==
    ASSUME Leased, UNCHANGED <<mDatas, chain, lease>>
    PROVE  Leased' /\ [Lease!Next]_Lease!vars
BY DEF Leased, Of, Lease!vars

\* Nor the main thread.
LEMMA LockingKept ==
    ASSUME Locking, UNCHANGED <<mDatas, chain>>, pc'["main"] = pc["main"],
           arg'["main"] = arg["main"]
    PROVE  Locking'
BY DEF Locking, Of

\* A step of the main thread that leaves table and chain alone.
LEMMA ReleasingKept ==
    ASSUME Releasing, UNCHANGED <<mDatas, chain, lease>>, pc'["timer"] = pc["timer"],
           arg'["timer"] = arg["timer"]
    PROVE  Releasing'
BY DEF Releasing, Of

\* The main thread inserts a message that nobody has locked.
LEMMA LockMsgServing ==
    ASSUME TypeOK, TableMutex, Serving, NEW m \in Message, LockMsg(m)
    PROVE  Serving' /\ [Lease!Next]_Lease!vars
<1> USE DEF Serving
<1>1. m \notin mDatas
  BY DelOne DEF LockMsg, TypeOK
<1>2. /\ mDatas' = mDatas \cup {m} /\ lease' = [lease EXCEPT ![m] = Timeout] /\ chain' = chain
      /\ arg'["main"] = m /\ arg'["timer"] = arg["timer"]
      /\ pc'["main"] = "schedule" /\ pc'["timer"] = pc["timer"]
  BY DEF LockMsg, TypeOK, Goto, Thread
<1>3. \A n \in Message : n # m => lease'[n] = lease[n]
  BY <1>2 DEF TypeOK
<1>4. lease'[m] = Timeout /\ lease' \in [Message -> Nat] /\ Timeout \in Nat
  BY <1>2, MsgLockAssumption DEF TypeOK
<1>5. \A i \in DOMAIN chain : Of(i)' = Of(i) /\ Of(i) # m /\ Of(i) \in Message
  BY <1>1, <1>2, OfMessage DEF Leased, Of
<1>6. Leased'
  BY <1>2, <1>3, <1>4, <1>5 DEF Leased
<1>7. Locking'
  BY <1>2, <1>5 DEF Locking
<1>8. pc["timer"] # "erase"
  BY DEF LockMsg, TableMutex, InTable, Thread
<1>11. Of(1)' = Of(1)
  BY <1>2 DEF Of
<1>9. Releasing'
  BY <1>2, <1>5, <1>8, <1>11 DEF Releasing
<1>10. Lease!Acquire(m)
  BY <1>1, <1>2 DEF Lease!Acquire
<1> QED
  BY <1>6, <1>7, <1>9, <1>10 DEF Lease!Next

\* The main thread links the event of the message it has inserted: never before
\* a head that has run out.
LEMMA LinkServing ==
    ASSUME TypeOK, TableMutex, Serving, ScheduleLink
    PROVE  Serving' /\ [Lease!Next]_Lease!vars
<1> USE DEF Serving
<1>1. PICK a \in Message : a = arg["main"]
  BY DEF TypeOK, Thread
<1>2. PICK e \in Event : e = EventOf(a)
  BY <1>1, MsgLockAssumption DEF EventOf, NewEvent, Event, EventSet, Message
<1>3. /\ chain \in Seq(Event) /\ Len(chain) \in Nat /\ DOMAIN chain = 1..Len(chain)
      /\ Timeout \in Nat
  BY MsgLockAssumption DEF TypeOK
<1>4. /\ chain' = Schedule(chain, e) /\ UNCHANGED <<mDatas, lease, arg>>
      /\ pc["main"] = "link"
  BY <1>1, <1>2 DEF ScheduleLink
<1>5. PICK k \in 1..(Len(chain) + 1) :
        /\ chain' \in Seq(Event) /\ Len(chain') = Len(chain) + 1
        /\ \A i \in 1..(Len(chain) + 1) :
              chain'[i] = IF i = k THEN e ELSE chain[IF i < k THEN i ELSE i - 1]
        /\ chain # << >> /\ ~(chain[1].left > e.sched) => k # 1
  <2>1. \E k \in 1..(Len(chain) + 1) :
          /\ Schedule(chain, e) \in Seq(Event) /\ Len(Schedule(chain, e)) = Len(chain) + 1
          /\ \A i \in 1..(Len(chain) + 1) :
                Schedule(chain, e)[i] = IF i = k THEN e ELSE chain[IF i < k THEN i ELSE i - 1]
          /\ chain # << >> /\ ~(chain[1].left > e.sched) => k # 1
    BY <1>3, Scheduled
  <2> QED
    BY <1>4, <2>1, Zenon
<1>6. /\ pc'["main"] = "idle"
      /\ \/ pc'["timer"] = pc["timer"]
         \/ pc["timer"] = "timedwait" /\ pc'["timer"] = "lock"
         \/ pc["timer"] = "condwait" /\ pc'["timer"] = "idlelock"
  BY DEF ScheduleLink, Woken, TypeOK, Thread
<1>7. <<e.queue, e.msgId>> = a /\ e.left = Timeout /\ e.sched = Timeout
  BY <1>2 DEF EventOf, NewEvent, Message
<1>8. DOMAIN chain' = 1..(Len(chain) + 1)
  BY <1>5
<1>9. ASSUME NEW i \in DOMAIN chain'
      PROVE  \/ i = k /\ Of(i)' = a /\ chain'[i].left = Timeout
             \/ \E j \in DOMAIN chain : /\ j = (IF i < k THEN i ELSE i - 1) /\ i # k
                                        /\ chain'[i] = chain[j] /\ Of(i)' = Of(j)
  <2>1. CASE i = k
    BY <1>5, <1>7, <1>8, <2>1 DEF Of
  <2>2. CASE i < k
    BY <1>3, <1>5, <1>8, <2>2 DEF Of
  <2>3. CASE i > k
    <3>1. i - 1 \in DOMAIN chain /\ i - 1 = (IF i < k THEN i ELSE i - 1)
      BY <1>3, <1>8, <2>3
    <3>2. chain'[i] = chain[i - 1]
      BY <1>5, <1>8, <2>3
    <3> QED
      BY <2>3, <3>1, <3>2 DEF Of
  <2> QED
    BY <1>3, <1>8, <2>1, <2>2, <2>3
<1>10. a \in mDatas /\ \A i \in DOMAIN chain : Of(i) # a
  BY <1>1, <1>4 DEF Locking
<1>11. \A i \in DOMAIN chain' : Of(i)' \in mDatas' /\ lease'[Of(i)'] <= chain'[i].left
  BY <1>1, <1>4, <1>9, <1>10 DEF Leased
<1>12. ASSUME NEW i \in DOMAIN chain', NEW j \in DOMAIN chain', Of(i)' = Of(j)'
       PROVE  i = j
  <2>1. CASE i = k \/ j = k
    BY <1>9, <1>10, <1>12, <2>1
  <2>2. CASE i # k /\ j # k
    <3>1. (IF i < k THEN i ELSE i - 1) = (IF j < k THEN j ELSE j - 1)
      BY <1>9, <1>12, <2>2 DEF Leased
    <3> QED
      BY <1>3, <1>8, <2>2, <3>1
  <2> QED
    BY <2>1, <2>2
<1>13. Leased'
  BY <1>4, <1>11, <1>12 DEF Leased
<1>14. Locking'
  BY <1>6 DEF Locking
<1>15. \A i \in DOMAIN chain : \E j \in DOMAIN chain' : chain'[j] = chain[i] /\ Of(j)' = Of(i)
  <2> TAKE i \in DOMAIN chain
  <2>1. CASE i < k
    <3>1. i \in DOMAIN chain' /\ chain'[i] = chain[i]
      BY <1>3, <1>5, <1>8, <2>1
    <3> QED
      BY <3>1 DEF Of
  <2>2. CASE i >= k
    <3>1. i + 1 \in DOMAIN chain' /\ chain'[i + 1] = chain[i]
      <4>1. i + 1 \in 1..(Len(chain) + 1) /\ i + 1 # k /\ ~(i + 1 < k) /\ (i + 1) - 1 = i
        BY <1>3, <2>2
      <4> QED
        BY <1>5, <1>8, <4>1
    <3> QED
      BY <3>1 DEF Of
  <2> QED
    BY <1>3, <2>1, <2>2
<1>16. chain' # << >>
  BY <1>3, <1>5
<1>17. pc["timer"] \in {"fire", "reload"} => chain'[1].left = 0 /\ Of(1)' = Of(1)
  <2> SUFFICES ASSUME pc["timer"] \in {"fire", "reload"}
               PROVE  chain'[1].left = 0 /\ Of(1)' = Of(1)
    OBVIOUS
  <2>1. chain # << >> /\ chain[1].left = 0
    BY DEF Releasing
  <2>2. k # 1
    BY <1>3, <1>5, <1>7, <2>1
  <2>3. 1 \in 1..(Len(chain) + 1) /\ 1 < k
    BY <1>3, <2>2
  <2>4. chain'[1] = chain[1]
    BY <1>5, <2>3
  <2> QED
    BY <2>1, <2>4 DEF Of
<1>18. pc["timer"] # "erase"
  BY <1>4 DEF TableMutex, InTable, Thread
<1>19. Releasing'
  BY <1>4, <1>6, <1>15, <1>16, <1>17, <1>18 DEF Releasing, TimerPC
<1>20. UNCHANGED Lease!vars
  BY <1>4 DEF Lease!vars
<1> QED
  BY <1>13, <1>14, <1>19, <1>20

\* The timer unlinks the event of the message it releases: the only one.
LEMMA UnlinkServing ==
    ASSUME TypeOK, Serving, CancelUnlink("timer")
    PROVE  Serving' /\ [Lease!Next]_Lease!vars
<1> USE DEF Serving
<1>1. PICK a \in Message : a = arg["timer"]
  BY DEF TypeOK, Thread
<1>2. /\ chain' = Cancel(chain, EventOf(a)) /\ UNCHANGED <<mDatas, lease, arg>>
      /\ pc["timer"] = "unlink" /\ pc'["timer"] = "erase" /\ pc'["main"] = pc["main"]
  BY <1>1 DEF CancelUnlink, Goto, TypeOK, Thread
<1>3. chain \in Seq(Event) /\ Len(chain) \in Nat /\ DOMAIN chain = 1..Len(chain)
  BY DEF TypeOK
<1>4. PICK h \in DOMAIN chain : Of(h) = a /\ chain[h].left = 0
  BY <1>1, <1>2 DEF Releasing
<1>5. Matches(chain, EventOf(a)) = {h}
  <2>1. \A i \in DOMAIN chain : SameEvent(chain[i], EventOf(a)) <=> Of(i) = a
    BY OfMessage
  <2>2. \A i \in DOMAIN chain : Of(i) = a <=> i = h
    BY <1>4 DEF Leased
  <2> QED
    BY <2>1, <2>2 DEF Matches
<1>6. /\ chain' \in Seq(Event) /\ Len(chain') = Len(chain) - 1
      /\ \A i \in 1..(Len(chain) - 1) : chain'[i] = chain[IF i < h THEN i ELSE i + 1]
  <2>1. \E k \in Matches(chain, EventOf(a)) :
          /\ Cancel(chain, EventOf(a)) \in Seq(Event)
          /\ Len(Cancel(chain, EventOf(a))) = Len(chain) - 1
          /\ \A i \in 1..(Len(chain) - 1) :
                Cancel(chain, EventOf(a))[i] = chain[IF i < k THEN i ELSE i + 1]
    <3>1. Matches(chain, EventOf(a)) # {}
      BY <1>5
    <3> QED
      BY <1>3, <3>1, Cancelled
  <2> QED
    BY <1>2, <1>5, <2>1, Zenon
<1>7. DOMAIN chain' = 1..(Len(chain) - 1)
  BY <1>3, <1>6
<1>8. ASSUME NEW i \in DOMAIN chain'
      PROVE  \E j \in DOMAIN chain : /\ j = (IF i < h THEN i ELSE i + 1) /\ j # h
                                     /\ chain'[i] = chain[j] /\ Of(i)' = Of(j)
  <2>1. CASE i < h
    BY <1>3, <1>6, <1>7, <2>1 DEF Of
  <2>2. CASE i >= h
    <3>1. i + 1 \in DOMAIN chain /\ i + 1 = (IF i < h THEN i ELSE i + 1) /\ i + 1 # h
      BY <1>3, <1>7, <2>2
    <3>2. chain'[i] = chain[i + 1]
      BY <1>6, <1>7, <3>1
    <3> QED
      BY <3>1, <3>2 DEF Of
  <2> QED
    BY <1>3, <1>7, <2>1, <2>2
<1>9. \A i \in DOMAIN chain' : Of(i)' \in mDatas' /\ lease'[Of(i)'] <= chain'[i].left
  BY <1>2, <1>8 DEF Leased
<1>10. ASSUME NEW i \in DOMAIN chain', NEW j \in DOMAIN chain', Of(i)' = Of(j)'
       PROVE  i = j
  <2>1. (IF i < h THEN i ELSE i + 1) = (IF j < h THEN j ELSE j + 1)
    BY <1>8, <1>10 DEF Leased
  <2> QED
    BY <1>3, <1>7, <2>1
<1>11. Leased'
  BY <1>2, <1>9, <1>10 DEF Leased
<1>12. Locking'
  BY <1>2, <1>8 DEF Locking
<1>13. \A i \in DOMAIN chain' : Of(i)' # a
  BY <1>4, <1>8 DEF Leased
<1>14. a \in mDatas /\ lease[a] = 0
  <2>1. a \in mDatas /\ lease[a] <= 0
    BY <1>4 DEF Leased
  <2> QED
    BY <2>1 DEF TypeOK
<1>15. Releasing'
  BY <1>1, <1>2, <1>13, <1>14 DEF Releasing, TimerPC
<1>16. UNCHANGED Lease!vars
  BY <1>2 DEF Lease!vars
<1> QED
  BY <1>11, <1>12, <1>15, <1>16

\* The timer erases the message, whose lease has run out.
LEMMA EraseServing ==
    ASSUME TypeOK, TableMutex, Serving, Erase("timer")
    PROVE  Serving' /\ [Lease!Next]_Lease!vars
<1> USE DEF Serving
<1>1. PICK a \in Message : a = arg["timer"]
  BY DEF TypeOK, Thread
<1>2. /\ mDatas' = Del(mDatas, a[1], a[2]) /\ UNCHANGED <<chain, lease, arg>>
      /\ pc["timer"] = "erase" /\ pc'["timer"] = "check" /\ pc'["main"] = pc["main"]
  BY <1>1 DEF Erase, Goto, TypeOK, Thread
<1>3. a \in mDatas /\ lease[a] = 0 /\ \A i \in DOMAIN chain : Of(i) # a
  BY <1>1, <1>2 DEF Releasing
<1>4. mDatas' = mDatas \ {a}
  BY <1>2, <1>3, DelOne DEF TypeOK
<1>5. \A i \in DOMAIN chain : Of(i)' = Of(i)
  BY <1>2 DEF Of
<1>6. Leased'
  BY <1>2, <1>3, <1>4, <1>5 DEF Leased
<1>7. pc["main"] = "idle"
  BY <1>2 DEF Locking, TableMutex, InTable, Thread
<1>8. Locking'
  BY <1>2, <1>7 DEF Locking
<1>9. Releasing'
  BY <1>2 DEF Releasing, TimerPC
<1>10. Lease!Expire(a)
  BY <1>2, <1>3, <1>4 DEF Lease!Expire
<1> QED
  BY <1>6, <1>8, <1>9, <1>10 DEF Lease!Next

\* A second passes for the chain and for the leases.
LEMMA TickServing ==
    ASSUME TypeOK, Serving, Tick
    PROVE  Serving' /\ [Lease!Next]_Lease!vars
<1> USE DEF Serving
<1>1. /\ chain' = Elapse(chain) /\ UNCHANGED <<mDatas, pc, arg>>
      /\ lease' = [m \in Message |-> Minus1(lease[m])]
  BY DEF Tick
<1>2. chain \in Seq(Event) /\ DOMAIN chain' = DOMAIN chain /\ Len(chain') = Len(chain)
  <2>1. chain \in Seq(Event)
    BY DEF TypeOK
  <2>2. chain' \in Seq(Event) /\ DOMAIN chain' = DOMAIN chain
    BY <1>1, <2>1, ElapseKeeps
  <2> QED
    BY <2>1, <2>2
<1>3. \A n \in Nat : Minus1(n) \in Nat /\ Minus1(n) <= n
  BY DEF Minus1
<1>4. \A n, k \in Nat : n <= k => Minus1(n) <= Minus1(k)
  BY DEF Minus1
<1>5. ASSUME NEW i \in DOMAIN chain
      PROVE  /\ Of(i)' = Of(i) /\ Of(i) \in Message
             /\ chain[i].left \in Nat /\ chain'[i].left = Minus1(chain[i].left)
  <2>1. chain[i] \in Event /\ Of(i) \in Message
    BY OfMessage
  <2>2. chain[i].left \in Nat /\ chain'[i].left = Minus1(chain[i].left)
    BY <1>1, <1>2, Elapsed
  <2>3. chain'[i] = [chain[i] EXCEPT !.left = IF chain[i].left = 0 THEN 0
                                              ELSE chain[i].left - 1]
    BY <1>1, <1>2 DEF Elapse
  <2>4. \A n : /\ [chain[i] EXCEPT !.left = n].queue = chain[i].queue
               /\ [chain[i] EXCEPT !.left = n].msgId = chain[i].msgId
    BY <2>1 DEF Event, EventSet
  <2> QED
    BY <2>1, <2>2, <2>3, <2>4 DEF Of
<1>6. \A m \in Message : lease[m] \in Nat /\ lease'[m] = Minus1(lease[m])
  BY <1>1 DEF TypeOK
<1>7. ASSUME NEW i \in DOMAIN chain'
      PROVE  Of(i)' \in mDatas' /\ lease'[Of(i)'] <= chain'[i].left
  <2>1. i \in DOMAIN chain
    BY <1>2, <1>7
  <2>2. Of(i) \in mDatas /\ lease[Of(i)] <= chain[i].left
    BY <2>1 DEF Leased
  <2> QED
    BY <1>1, <1>4, <1>5, <1>6, <2>1, <2>2
<1>8. \A m \in Message : lease'[m] <= Timeout
  <2> TAKE m \in Message
  <2>1. lease[m] \in Nat /\ lease[m] <= Timeout /\ Timeout \in Nat
    BY <1>6, MsgLockAssumption DEF Leased
  <2> QED
    BY <1>3, <1>6, <2>1
<1>9. \A i, j \in DOMAIN chain' : Of(i)' = Of(j)' => i = j
  BY <1>2, <1>5 DEF Leased
<1>10. Leased'
  BY <1>7, <1>8, <1>9 DEF Leased
<1>11. Locking'
  BY <1>1, <1>2, <1>5 DEF Locking
<1>12. chain # << >> => chain' # << >>
  BY <1>2
<1>13. Minus1(0) = 0
  BY DEF Minus1
<1>14. chain # << >> => 1 \in DOMAIN chain
  BY <1>2
<1>15. pc["timer"] \in {"fire", "reload"} => chain'[1].left = 0 /\ Of(1)' = Of(1)
  BY <1>5, <1>13, <1>14 DEF Releasing
<1>16. pc["timer"] \in {"call", "del", "cancel", "unlink"} =>
          \E i \in DOMAIN chain' : Of(i)' = arg'["timer"] /\ chain'[i].left = 0
  BY <1>1, <1>2, <1>5, <1>13 DEF Releasing
<1>17. pc["timer"] = "erase" =>
          /\ arg'["timer"] \in mDatas' /\ lease'[arg'["timer"]] = 0
          /\ \A i \in DOMAIN chain' : Of(i)' # arg'["timer"]
  <2>1. arg["timer"] \in Message
    BY DEF TypeOK, Thread
  <2> QED
    BY <1>1, <1>2, <1>5, <1>6, <1>13, <2>1 DEF Releasing
<1>18. Releasing'
  BY <1>1, <1>12, <1>15, <1>16, <1>17 DEF Releasing
<1>19. Lease!Tick
  BY <1>1 DEF Lease!Tick, Minus1
<1> QED
  BY <1>10, <1>11, <1>18, <1>19 DEF Lease!Next

\* The steps of the timer thread that leave table and chain alone.
LEMMA RunServing ==
    ASSUME TypeOK, Serving, Timer, ~CancelUnlink("timer"), ~Erase("timer")
    PROVE  Serving' /\ [Lease!Next]_Lease!vars
<1> USE DEF Serving
<1>1. chain # << >> => Head(chain) = chain[1] /\ 1 \in DOMAIN chain
  BY DEF TypeOK
<1>2. ~CallFreed
  <2> SUFFICES ASSUME pc["timer"] = "call"
               PROVE  Matches(chain, EventOf(arg["timer"])) # {}
    BY DEF CallFreed
  <2>1. PICK i \in DOMAIN chain : Of(i) = arg["timer"]
    BY DEF Releasing
  <2>2. arg["timer"] \in Message
    BY DEF TypeOK, Thread
  <2>3. SameEvent(chain[i], EventOf(arg["timer"]))
    BY <2>1, <2>2, OfMessage
  <2> QED
    BY <2>3 DEF Matches
<1>3. pc["timer"] \in {"left", "fire", "reload", "left2", "cancel"} => ~Empty
  BY DEF Releasing, Empty
<1>4. \A l : Goto("timer", l) => pc'["timer"] = l /\ pc'["main"] = pc["main"]
  BY DEF Goto, TypeOK, Thread
<1>5. /\ UNCHANGED <<mDatas, chain, lease>> /\ pc'["main"] = pc["main"]
      /\ arg'["main"] = arg["main"] /\ Releasing'
  <2>1. CASE Top
    BY <1>4, <2>1 DEF Top, Empty, Releasing, TimerPC
  <2>2. CASE TimerLock
    BY <1>4, <2>2 DEF TimerLock, Releasing, TimerPC
  <2>3. CASE Left
    <3>1. chain # << >> /\ Head(chain).left \in Nat
      BY <1>1, <1>3, <2>3, OfMessage DEF Left, Empty, Event, EventSet
    <3> QED
      BY <1>1, <1>4, <2>3, <3>1 DEF Left, Empty, Releasing, TimerPC
  <2>4. CASE WaitTimesOut
    BY <1>4, <2>4 DEF WaitTimesOut, Releasing, TimerPC
  <2>5. CASE SpuriousWakeup
    <3>1. /\ pc'["main"] = pc["main"] /\ UNCHANGED <<mDatas, chain, lease, arg>>
          /\ \/ pc["timer"] = "timedwait" /\ pc'["timer"] = "lock"
             \/ pc["timer"] = "condwait" /\ pc'["timer"] = "idlelock"
      BY <2>5 DEF SpuriousWakeup, Woken, TypeOK, Thread
    <3> QED
      BY <3>1 DEF Releasing, TimerPC
  <2>6. CASE Fire
    <3>1. /\ chain # << >> /\ arg' = [arg EXCEPT !["timer"] = <<chain[1].queue, chain[1].msgId>>]
          /\ Goto("timer", "reload") /\ UNCHANGED <<mDatas, chain, lease>>
          /\ chain[1].left = 0
      BY <1>1, <1>3, <2>6 DEF Fire, Empty, Releasing
    <3>2. arg'["timer"] = Of(1) /\ arg'["main"] = arg["main"]
      BY <3>1 DEF Of, TypeOK, Thread
    <3>3. Of(1)' = Of(1)
      BY <3>1 DEF Of
    <3>4. pc'["timer"] = "reload" /\ pc'["main"] = pc["main"]
      BY <1>4, <3>1
    <3> QED
      BY <1>1, <3>1, <3>2, <3>3, <3>4 DEF Releasing, TimerPC
  <2>14. CASE Reload
    <3>1. /\ chain # << >> /\ Head(chain) = chain[1] /\ chain[1].left = 0
          /\ arg["timer"] = Of(1)
      BY <1>1, <1>3, <2>14 DEF Reload, Empty, Releasing
    <3>2. arg' = [arg EXCEPT !["timer"] = Of(1)]
      BY <2>14, <3>1 DEF Reload, Empty, Of
    <3>3. arg'["timer"] = Of(1) /\ arg'["main"] = arg["main"] /\ Of(1)' = Of(1)
      BY <2>14, <3>1, <3>2 DEF Reload, Empty, Of, TypeOK, Thread
    <3>4. /\ UNCHANGED <<mDatas, chain, lease>>
          /\ pc'["timer"] = "call" /\ pc'["main"] = pc["main"]
      BY <1>4, <2>14, <3>1 DEF Reload, Empty
    <3> QED
      BY <1>1, <3>1, <3>3, <3>4 DEF Releasing, TimerPC
  <2>7. CASE Call
    BY <1>4, <2>7 DEF Call, Releasing, TimerPC, Of
  <2>8. CASE TimerDel
    BY <1>4, <2>8 DEF TimerDel, Releasing, TimerPC, Of
  <2>9. CASE DelStep("timer")
    <3>1. CancelLock("timer")
      BY <1>3, <2>9 DEF DelStep, CancelNothing
    <3> QED
      BY <1>4, <3>1 DEF CancelLock, Releasing, TimerPC, Of
  <2>10. CASE Check
    BY <1>4, <2>10 DEF Check, Empty, Releasing, TimerPC
  <2>11. CASE UnheldUnlock
    BY <1>4, <2>11 DEF UnheldUnlock, Releasing, TimerPC
  <2>12. CASE LeftAgain
    BY <1>1, <1>3, <1>4, <2>12 DEF LeftAgain, Empty, Releasing, TimerPC
  <2>13. CASE IdleHead
    BY <1>4, <2>13 DEF IdleHead, Empty, Releasing, TimerPC
  <2> QED
    BY <1>2, <2>1, <2>2, <2>3, <2>4, <2>5, <2>6, <2>7, <2>8, <2>9, <2>10, <2>11, <2>12, <2>13,
       <2>14 DEF Timer
<1> QED
  BY <1>5, LeasedKept, LockingKept

\* Every step does what a lease allows.
LEMMA ServingStep ==
    ASSUME NoRequests, TypeOK, TableMutex, Serving, [Next]_vars
    PROVE  Serving' /\ [Lease!Next]_Lease!vars
<1>1. CASE \E m \in Gettable : LockMsg(m)
  <2>1. PICK m \in Gettable : LockMsg(m)
    BY <1>1
  <2>2. m \in Message
    BY MsgLockAssumption DEF Message
  <2> QED
    BY <2>1, <2>2, LockMsgServing
<1>2. CASE ScheduleLock
  <2>1. /\ UNCHANGED <<mDatas, chain, lease, arg>> /\ pc["main"] = "schedule"
        /\ pc'["main"] = "link" /\ pc'["timer"] = pc["timer"]
    BY <1>2 DEF ScheduleLock, Goto, TypeOK, Thread
  <2>2. Locking'
    BY <2>1 DEF Serving, Locking, Of
  <2> QED
    BY <2>1, <2>2, LeasedKept, ReleasingKept DEF Serving
<1>3. CASE ScheduleLink
  BY <1>3, LinkServing
<1>4. ~(\E m \in Deletable : UnLock(m)) /\ ~DelStep("main")
  BY DEF NoRequests, Serving, Locking, DelStep, CancelNothing, CancelLock, CancelUnlink, Erase
<1>5. CASE Timer
  BY <1>5, UnlinkServing, EraseServing, RunServing
<1>6. CASE Tick
  BY <1>6, TickServing
<1>7. CASE UNCHANGED vars
  BY <1>7, LeasedKept, LockingKept, ReleasingKept DEF vars, Serving
<1> QED
  BY <1>1, <1>2, <1>3, <1>4, <1>5, <1>6, <1>7 DEF Next, Main

\* The threads begin with nothing locked.
LEMMA ServingInit == Init => Serving /\ Lease!Init
<1> SUFFICES ASSUME Init
             PROVE  Serving /\ Lease!Init
  OBVIOUS
<1>1. DOMAIN chain = {} /\ chain = << >>
  BY DEF Init
<1>2. Leased
  BY <1>1, MsgLockAssumption DEF Leased, Init
<1> QED
  BY <1>1, <1>2 DEF Init, Serving, Locking, Releasing, TimerPC, Lease!Init

\* While no request deletes a message, the timer thread never dereferences a
\* head that is NULL or freed: what it has seen in the chain without the mutex,
\* the main thread only adds to.
THEOREM TimerSurvivesAlways == NoRequests /\ Spec => []TimerSurvives
<1>1. Serving => TimerSurvives
  BY DEF Serving, Releasing, TimerPC, TimerSurvives
<1>2. NoRequests /\ TypeOK /\ (TableMutex /\ NoneForgotten) /\ Serving /\ [Next]_vars => Serving'
  BY ServingStep
<1>3. NoRequests => NoRequests'
  BY DEF NoRequests
<1> QED
  BY <1>1, <1>2, <1>3, ServingInit, TypeCorrect, TableAlways, PTL DEF Spec

\* While no request deletes a message, a lock is a lease: nobody else gets the
\* message before its Timeout seconds are over.
THEOREM LeaseImplemented == NoRequests /\ Spec => ImplementsLease
<1>1. NoRequests /\ TypeOK /\ (TableMutex /\ NoneForgotten) /\ Serving /\ [Next]_vars
        => Serving' /\ [Lease!Next]_Lease!vars
  BY ServingStep
<1>2. NoRequests => NoRequests'
  BY DEF NoRequests
<1> QED
  BY <1>1, <1>2, ServingInit, TypeCorrect, TableAlways, PTL DEF Spec, ImplementsLease, Lease!Spec

=============================================================================
