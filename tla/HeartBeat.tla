------------------------------ MODULE HeartBeat ------------------------------
(***************************************************************************)
(* Failure detection of the master (class HeartBeat, SQSMaster.cpp:24-171).*)
(*                                                                         *)
(* AddDataNode makes an entry for a node that joins and a thread,          *)
(* RegularCheck, that asks the node for a sign of life once a cycle.  An   *)
(* answer sets the clock of the entry back; six requests in a row without  *)
(* an answer end the entry, as does IsNodeAlive, which the event loop      *)
(* calls, when it finds the clock run out.  Entries of one node compare    *)
(* equal, whichever of its incarnations they were made for: CancelDataNode *)
(* ends the one that it finds.                                             *)
(*                                                                         *)
(* The request with which a node joins may be read late: when the node has *)
(* died, is busy, or has been started again.                               *)
(*                                                                         *)
(* A request to a node that runs is answered within the second, one to a   *)
(* node whose event loop is busy waits, one to a machine that is down is   *)
(* refused or, without an answer, given up some time later, when the node  *)
(* may be up again.                                                        *)
(***************************************************************************)
EXTENDS Naturals, Sequences

CONSTANTS
    Nodes,
    Cycle,      \* seconds between two requests (3 in the code)
    Timeout,    \* seconds until an entry runs out (10)
    Misses,     \* the thread ends after more than so many misses (5)
    MaxJoins    \* bound on entries, and on requests to join that wait

ASSUME HeartBeatAssumption ==
    /\ {Cycle, Misses, MaxJoins} \subseteq Nat
    /\ Timeout \in Nat /\ Timeout > Cycle

VARIABLES
    node,       \* "down", "up" or "busy"
    joins,      \* requests to join that the master has not read
    entries,    \* every DataNode that AddDataNode made, with its thread
    clients,    \* HeartBeat::clients, as the numbers of the entries in it
    steady,     \* history: nodes that answered ever since they joined
    silent,     \* history: seconds since a node last answered, or a request
                \* of its to join was read
    robbed      \* history: nodes that lost their entry to the thread of an
                \* earlier incarnation
vars == <<node, joins, entries, clients, steady, silent, robbed>>

\* pc: before the request, waiting for the answer to one that can be answered
\* or that is lost, behind it, sleeping, or gone.
ThreadPC == {"ask", "asked", "lost", "judge", "sleep", "gone"}
Entry == [node : Nodes, cancel : BOOLEAN, age : 0..Timeout, pc : ThreadPC,
          cnt : 0..(Misses + 1), nap : 0..Cycle]

Init ==
    /\ node = [n \in Nodes |-> "down"]
    /\ joins = [n \in Nodes |-> 0]
    /\ entries = << >>
    /\ clients = {}
    /\ steady = {}
    /\ silent = [n \in Nodes |-> 0]
    /\ robbed = {}

Answers(n) == node[n] = "up"

\* The entries in clients that compare equal to entry k.
Equal(k) == {j \in clients : entries[j].node = entries[k].node}

EntryOf(n) == {k \in clients : entries[k].node = n}

\* CancelDataNode(n), on the entries e.
Cancelled(e, n) ==
    [k \in DOMAIN e |-> IF k \in EntryOf(n) THEN [e[k] EXCEPT !.cancel = TRUE]
                        ELSE e[k]]

\* DataNode::IsAlive.
IsAlive(k) == entries[k].age < Timeout

-----------------------------------------------------------------------------
(***************************************************************************)
(* The event loop of the master, and the nodes.                            *)
(***************************************************************************)

\* A node that is started asks to join.
Start(n) ==
    /\ node[n] = "down"
    /\ joins[n] < MaxJoins
    /\ node' = [node EXCEPT ![n] = "up"]
    /\ joins' = [joins EXCEPT ![n] = @ + 1]
    /\ silent' = [silent EXCEPT ![n] = 0]
    /\ UNCHANGED <<entries, clients, steady, robbed>>

ReadJoin(n) ==
    /\ joins[n] > 0
    /\ Len(entries) < MaxJoins
    /\ joins' = [joins EXCEPT ![n] = @ - 1]

Fresh(n) == [node |-> n, cancel |-> FALSE, age |-> 0, pc |-> "ask", cnt |-> 0,
             nap |-> 0]

\* Mutant: the existing entry of the node is kept.
AddSecond(n) ==
    /\ ReadJoin(n)
    /\ entries' = Append(entries, Fresh(n))
    /\ clients' = clients \cup {Len(entries) + 1}
    /\ steady' = IF Answers(n) THEN steady \cup {n} ELSE steady
    /\ robbed' = robbed \ {n}
    /\ silent' = [silent EXCEPT ![n] = 0]
    /\ UNCHANGED node

\* AddDataNode: cancel the existing same node, add the new one, start its thread.
\* Nothing asks whether the node is still there.
AddDataNode(n) ==
    /\ ReadJoin(n)
    /\ entries' = Append(Cancelled(entries, n), Fresh(n))
    /\ clients' = (clients \ EntryOf(n)) \cup {Len(entries) + 1}
    /\ steady' = IF Answers(n) THEN steady \cup {n} ELSE steady
    /\ robbed' = robbed \ {n}
    /\ silent' = [silent EXCEPT ![n] = 0]
    /\ UNCHANGED node

\* IsNodeAlive(n), when it is not: the entry, if there is one, is cancelled.
FindDead(n) ==
    /\ \E k \in EntryOf(n) : ~IsAlive(k)
    /\ entries' = Cancelled(entries, n)
    /\ clients' = clients \ EntryOf(n)
    /\ UNCHANGED <<node, joins, steady, silent, robbed>>

\* A request that a node has not answered when it ends is lost; its own request
\* to join may have reached the master or not.
GoDown(n) ==
    /\ node[n] # "down"
    /\ node' = [node EXCEPT ![n] = "down"]
    /\ \/ joins' = joins
       \/ joins[n] > 0 /\ joins' = [joins EXCEPT ![n] = @ - 1]
    /\ steady' = steady \ {n}
    /\ entries' = [k \in DOMAIN entries |->
                    IF entries[k].node = n /\ entries[k].pc = "asked"
                    THEN [entries[k] EXCEPT !.pc = "lost"] ELSE entries[k]]
    /\ UNCHANGED <<clients, silent, robbed>>

\* The event loop of a node waits for the master, and goes on.
Block(n) ==
    /\ node[n] = "up"
    /\ node' = [node EXCEPT ![n] = "busy"]
    /\ steady' = steady \ {n}
    /\ UNCHANGED <<joins, entries, clients, silent, robbed>>

Unblock(n) ==
    /\ node[n] = "busy"
    /\ node' = [node EXCEPT ![n] = "up"]
    /\ silent' = [silent EXCEPT ![n] = 0]
    /\ UNCHANGED <<joins, entries, clients, steady, robbed>>

-----------------------------------------------------------------------------
(***************************************************************************)
(* RegularCheck, the thread of entry k.                                    *)
(***************************************************************************)

\* doRequest.
Ask(k) ==
    /\ entries[k].pc = "ask"
    /\ entries' = [entries EXCEPT ![k].pc =
                    IF node[entries[k].node] = "down" THEN "lost" ELSE "asked"]
    /\ UNCHANGED <<node, joins, clients, steady, silent, robbed>>

Answered(k) ==
    /\ entries[k].pc = "asked"
    /\ Answers(entries[k].node)
    /\ entries' = [entries EXCEPT ![k].pc = "judge", ![k].cnt = 0]
    /\ UNCHANGED <<node, joins, clients, steady, silent, robbed>>

\* Refused, broken off or timed out: rsp is NULL.
NotAnswered(k) ==
    /\ \/ entries[k].pc = "lost"
       \/ entries[k].pc = "asked" /\ ~Answers(entries[k].node)
    /\ entries' = [entries EXCEPT ![k].pc = "judge", ![k].cnt = @ + 1]
    /\ UNCHANGED <<node, joins, clients, steady, silent, robbed>>

\* Mutant: the thread ends without CancelDataNode.
GiveUpSilently(k) ==
    /\ entries[k].pc = "judge"
    /\ entries[k].cnt > Misses
    /\ entries' = [entries EXCEPT ![k].pc = "gone"]
    /\ UNCHANGED <<node, joins, clients, steady, silent, robbed>>

\* Too many misses: CancelDataNode(*node), before anybody asks whether this
\* entry has been cancelled itself.
GiveUp(k) ==
    /\ entries[k].pc = "judge"
    /\ entries[k].cnt > Misses
    /\ entries' = [Cancelled(entries, entries[k].node) EXCEPT ![k].pc = "gone"]
    /\ clients' = clients \ Equal(k)
    /\ robbed' = robbed \cup {entries[j].node : j \in Equal(k) \ {k}}
    /\ UNCHANGED <<node, joins, steady, silent>>

\* Mutant: nobody looks at cancel.
GoOnUncancelled(k) ==
    /\ entries[k].pc = "judge"
    /\ entries[k].cnt <= Misses
    /\ entries' = [entries EXCEPT ![k] =
            [@ EXCEPT !.pc = "sleep", !.nap = Cycle,
                             !.age = IF entries[k].cnt = 0 THEN 0
                                    ELSE entries[k].age]]
    /\ UNCHANGED <<node, joins, clients, steady, silent, robbed>>

\* Mutant: the clock is never set back.
GoOnAged(k) ==
    /\ entries[k].pc = "judge"
    /\ entries[k].cnt <= Misses
    /\ entries' = [entries EXCEPT ![k] =
            IF @.cancel THEN [@ EXCEPT !.pc = "gone"]
            ELSE [@ EXCEPT !.pc = "sleep", !.nap = Cycle]]
    /\ UNCHANGED <<node, joins, clients, steady, silent, robbed>>

\* Mutant: the clock is set back whether or not there was an answer.
GoOnYoung(k) ==
    /\ entries[k].pc = "judge"
    /\ entries[k].cnt <= Misses
    /\ entries' = [entries EXCEPT ![k] =
            IF @.cancel THEN [@ EXCEPT !.pc = "gone"]
            ELSE [@ EXCEPT !.pc = "sleep", !.nap = Cycle, !.age = 0]]
    /\ UNCHANGED <<node, joins, clients, steady, silent, robbed>>

\* Mutant: cycle is in milliseconds.
GoOnMillis(k) ==
    /\ entries[k].pc = "judge"
    /\ entries[k].cnt <= Misses
    /\ entries' = [entries EXCEPT ![k] =
            IF @.cancel THEN [@ EXCEPT !.pc = "gone"]
            ELSE [@ EXCEPT !.pc = "sleep", !.nap = 1000 * Cycle]]
    /\ UNCHANGED <<node, joins, clients, steady, silent, robbed>>

\* The thread ends when its entry has been cancelled; otherwise it sleeps,
\* after an answer with the clock set back (Recycle).
GoOn(k) ==
    /\ entries[k].pc = "judge"
    /\ entries[k].cnt <= Misses
    /\ entries' = [entries EXCEPT ![k] =
            IF @.cancel THEN [@ EXCEPT !.pc = "gone"]
            ELSE [@ EXCEPT !.pc = "sleep", !.nap = Cycle,
                           !.age = IF entries[k].cnt = 0 THEN 0
                                    ELSE entries[k].age]]
    /\ UNCHANGED <<node, joins, clients, steady, silent, robbed>>

Awake(k) ==
    /\ entries[k].pc = "sleep"
    /\ entries[k].nap = 0
    /\ entries' = [entries EXCEPT ![k].pc = "ask"]
    /\ UNCHANGED <<node, joins, clients, steady, silent, robbed>>

\* A second passes.  A thread that need not wait does not let it pass.
Waits(k) ==
    \/ entries[k].pc \in {"lost", "gone"}
    \/ entries[k].pc = "asked" /\ ~Answers(entries[k].node)
    \/ entries[k].pc = "sleep" /\ entries[k].nap > 0

Tick ==
    /\ \A k \in DOMAIN entries : Waits(k)
    /\ entries' = [k \in DOMAIN entries |->
            LET e == entries[k]
            IN [e EXCEPT !.age = IF e.age < Timeout THEN e.age + 1 ELSE e.age,
                         !.nap = IF e.pc = "sleep" THEN e.nap - 1 ELSE e.nap]]
    /\ silent' = [n \in Nodes |->
            IF Answers(n) THEN 0
            ELSE IF silent[n] < Timeout THEN silent[n] + 1 ELSE Timeout]
    /\ UNCHANGED <<node, joins, clients, steady, robbed>>

-----------------------------------------------------------------------------
RegularCheck(k) ==
    \/ Ask(k) \/ Answered(k) \/ NotAnswered(k)
    \/ GiveUp(k) \/ GoOn(k) \/ Awake(k)

Next ==
    \/ \E n \in Nodes : \/ Start(n) \/ AddDataNode(n) \/ FindDead(n)
                        \/ GoDown(n) \/ Block(n) \/ Unblock(n)
    \/ \E k \in DOMAIN entries : RegularCheck(k)
    \/ Tick

Spec == Init /\ [][Next]_vars

\* Every thread goes on, HTTP gives up at last, and time passes.  Nothing is
\* assumed of the nodes and of the questions of the event loop.
Fairness ==
    /\ \A k \in 1..MaxJoins : WF_vars(k \in DOMAIN entries /\ RegularCheck(k))
    /\ WF_vars(Tick)

FairSpec == Spec /\ Fairness

-----------------------------------------------------------------------------
(***************************************************************************)
(* Properties.                                                             *)
(***************************************************************************)

TypeOK ==
    /\ node \in [Nodes -> {"down", "up", "busy"}]
    /\ joins \in [Nodes -> 0..MaxJoins]
    /\ entries \in Seq(Entry)
    /\ clients \subseteq DOMAIN entries
    /\ steady \subseteq Nodes /\ robbed \subseteq Nodes
    /\ silent \in [Nodes -> 0..Timeout]

\* IsNodeAlive(n) would return true.
NodeAlive(n) == \E k \in EntryOf(n) : IsAlive(k)

\* A node that has answered every request since the master read that it joins is
\* found alive: the master would erase it for good.  The exception is a node that
\* a thread of its earlier incarnation has robbed of its entry.
SteadyNodesAlive == \A n \in steady \ robbed : NodeAlive(n)

\* "A data node is alive only if it is not time out" (SQSMaster.h:71): a node
\* that has not answered for the length of the timeout is not found alive,
\* whatever requests were under way when it fell silent, and whichever of its
\* incarnations the entry was made for.  The master would send it every operation
\* and wait.  The time counts from its last answer, or from when a request of its
\* to join was read: one that the master reads late makes a dead node alive.
SilentNodesDead ==
    \A n \in Nodes : silent[n] >= Timeout => ~NodeAlive(n)

\* Whatever the event loop and the threads of several incarnations do to the
\* vector, a node has one entry, which has not been cancelled and whose
\* thread is at work: no entry stays that nobody would ever remove.
ClientsWatched ==
    \A k \in clients :
        /\ EntryOf(entries[k].node) = {k}
        /\ ~entries[k].cancel
        /\ entries[k].pc # "gone"

\* A node that stays down loses its entry also if the event loop never asks.
DeadNodesDropped ==
    \A n \in Nodes : (node[n] = "down") ~> (node[n] # "down" \/ EntryOf(n) = {})

\* The thread of an entry that was cancelled ends; threads do not pile up.
ThreadsEnd ==
    \A k \in 1..MaxJoins :
        (k \in DOMAIN entries /\ entries[k].cancel)
            ~> (k \in DOMAIN entries /\ entries[k].pc = "gone")

=============================================================================
