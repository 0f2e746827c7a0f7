----------------------------- MODULE EventChain ------------------------------
(***************************************************************************)
(* The interface of class EventChain, for events of different durations.   *)
(* MsgLock gives all its events the same one, but the class is documented  *)
(* as a general timer ("the timeout process core", MsgLock.h:72), and the  *)
(* order of the chain is interesting only when durations differ.           *)
(*                                                                         *)
(* Every operation runs under the mutex of the chain and is one step here; *)
(* MsgLock.tla has the steps of the two threads.                           *)
(***************************************************************************)
EXTENDS EventChainOps

CONSTANTS Queues, MsgIds,
          Times,        \* the sched_time values in use, in seconds
          MaxChain      \* bound on the length of the chain

ASSUME EventChainAssumption ==
    /\ Times \subseteq Nat
    /\ MaxChain \in Nat

VARIABLE chain      \* the links from head on
vars == chain

Event == EventSet(Queues, MsgIds, Times)

Init == chain = << >>

\* EventChain::Schedule.
ScheduleEvent(e) ==
    /\ Len(chain) < MaxChain
    /\ chain' = Schedule(chain, e)

\* EventChain::Cancel, called by somebody who knows queue, id and duration.
CancelEvent(e) ==
    /\ chain # << >>
    /\ chain' = Cancel(chain, e)

\* EventChain::Run: the head's time is up, its callback runs and, as the
\* documentation of do_schedule demands, cancels the event it runs for.
Fire ==
    /\ chain # << >>
    /\ Head(chain).left = 0
    /\ chain' = Cancel(chain, Head(chain))

\* One second passes.
Tick == chain # << >> /\ chain' = Elapse(chain)

Next ==
    \/ \E q \in Queues, m \in MsgIds, t \in Times :
        \/ ScheduleEvent(NewEvent(q, m, t))
        \/ CancelEvent(NewEvent(q, m, t))
    \/ Fire
    \/ Tick

Spec == Init /\ [][Next]_vars

-----------------------------------------------------------------------------
\* The timer looks at the head only (MsgLock.cpp:139, 146, 156), so whatever
\* was scheduled, cancelled or fired, in whatever order and however long ago,
\* no link may run out before the head: each would be released late.
ChainSorted == Sorted(chain)

\* The callback cancels "an event equal to the one that fired", not that very
\* link, and equality ignores when a link was scheduled.  It must nevertheless
\* be the head that goes, also when an equal one was scheduled later: else the
\* head would run again and the younger one never.
FiredLeaves == [][Fire => chain' = Tail(chain)]_vars

=============================================================================
