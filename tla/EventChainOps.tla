---------------------------- MODULE EventChainOps ----------------------------
(***************************************************************************)
(* The timeout chain of SQSMaster (class EventChain, MsgLock.h/.cpp) as    *)
(* pure operators on a sequence of events.                                 *)
(*                                                                         *)
(* The code stores sched_time and join_time and computes, wherever it      *)
(* needs it, left = sched_time - (now - join_time).  Only left is kept     *)
(* here, as a countdown that Elapse decrements when a second passes.  The  *)
(* code compares left with 0 and with a non-negative sched_time only, so a *)
(* negative left and 0 are the same and the countdown stops at 0.          *)
(***************************************************************************)
EXTENDS Naturals, Sequences, SequencesExt

\* One link of the chain.  sched is sched_time, left is the time that remains.
EventSet(Queues, MsgIds, Times) ==
    [queue : Queues, msgId : MsgIds, sched : Times, left : Nat]

\* Mutant: sched_time is kept in milliseconds and left in seconds.
NewEventMillis(q, m, t) ==
    [queue |-> q, msgId |-> m, sched |-> 1000 * t, left |-> t]

\* new Event(tmout, ReleaseLock, this, queue, id); Schedule stamps join_time,
\* so that all of sched_time remains.
NewEvent(q, m, t) == [queue |-> q, msgId |-> m, sched |-> t, left |-> t]

\* Mutant: the comparison forgets the queue.
SameMsgId(e, f) == e.msgId = f.msgId /\ e.sched = f.sched

\* Event::operator== ignores the join time.
SameEvent(e, f) ==
    /\ e.msgId = f.msgId
    /\ e.queue = f.queue
    /\ e.sched = f.sched

\* The links an event to be scheduled must precede.
Later(c, e) == {i \in DOMAIN c : c[i].left > e.sched}

\* Mutant: every event goes to the end of the chain.
ScheduleLast(c, e) == Append(c, e)

\* EventChain::Schedule: e goes before the first link that has more time left
\* than e, at the end when there is none.
Schedule(c, e) ==
    IF Later(c, e) = {} THEN Append(c, e)
    ELSE InsertAt(c, Min(Later(c, e)), e)

\* Schedule signals the timer thread when e becomes the head.
BecomesHead(c, e) == c = << >> \/ 1 \in Later(c, e)

\* The links that EventChain::Cancel compares equal to e.
Matches(c, e) == {i \in DOMAIN c : SameEvent(c[i], e)}

\* Mutant: the search goes on to the last link equal to e.
CancelLast(c, e) ==
    IF Matches(c, e) = {} THEN c ELSE RemoveAt(c, Max(Matches(c, e)))

\* EventChain::Cancel: unlinks the first link equal to e, if there is one.
Cancel(c, e) ==
    IF Matches(c, e) = {} THEN c ELSE RemoveAt(c, Min(Matches(c, e)))

\* A second passes.
Elapse(c) ==
    [i \in DOMAIN c |->
        [c[i] EXCEPT !.left = IF c[i].left = 0 THEN 0 ELSE c[i].left - 1]]

\* The head is the only link the timer thread looks at: the chain is of use
\* only if no other link runs out before it.
Sorted(c) == \A i, j \in DOMAIN c : i < j => c[i].left <= c[j].left

=============================================================================
