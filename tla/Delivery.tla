------------------------------ MODULE Delivery -------------------------------
(***************************************************************************)
(* How a message reaches one client at a time: getMessage of a data node   *)
(* (DataNode.cpp:374-425, Database.cpp:99-122) with the locks of the       *)
(* master, next to deleteMessage, on a queue that every node has.          *)
(*                                                                         *)
(* The node goes through its rows by offset and asks the master for a lock *)
(* on each until it gets one.  While it waits it serves nobody.  A client  *)
(* that is done deletes the message at a node of its choice; the master    *)
(* tells the other nodes, one after the other, each time waiting for the   *)
(* answer, and then unlocks the message.  So a node may wait for a lock    *)
(* while the master waits for that node; only an HTTP timeout ends that.   *)
(* A node that the heart beat takes for dead by then is erased and not     *)
(* told.  The master may crash and be started again; a node that dies      *)
(* stays down.                                                             *)
(*                                                                         *)
(* The locks are those of one queue.  What the other queues, and the       *)
(* thread of the event chain, do to them is left open: a lock may be       *)
(* refused for an equal id of a later queue, and may end early.            *)
(***************************************************************************)
EXTENDS Naturals, FiniteSets

CONSTANTS
    Nodes, Clients, Ids,
    Host, Port,     \* nodeNameMaster and portMaster of each node
    MaxCalls,       \* bound on calls of clients
    MaxCrashes      \* bound on crashes of the master

ASSUME DeliveryAssumption ==
    /\ Ids \subseteq Nat /\ IsFiniteSet(Ids)
    /\ MaxCalls \in Nat /\ MaxCrashes \in Nat
    /\ "none" \notin Clients \cup Nodes

\* look: at row number skip; asked: waits for the answer about that row; yes,
\* no: the answer is there; wait: for the master to accept a deletion.
NodeState == {"idle", "look", "asked", "yes", "no", "wait", "dead"}
Call == [from : Nodes, kind : {"get", "delete"}, id : Ids, live : BOOLEAN]
NoJob == [kind |-> "none"]

VARIABLES
    (* nodes *)
    rows,       \* the ids in the table of each node
    st,         \* what its event loop is doing
    client,     \* for whom, or "none"
    skip,       \* how many rows the loop of getMessage has passed
    wanted,     \* the id it asks about, or deletes; 0 for none
    inbox,      \* deletions the master has sent and the node has not read
    (* master *)
    up,         \* it is running
    crashes,    \* how often it has crashed
    team,       \* mDataNodes
    silent,     \* HeartBeat: the nodes that IsNodeAlive does not find alive
    calls,      \* requests not yet read; a node has one that is live
    job,        \* the deletion it is passing on
    todo,       \* the nodes that its loop has still to come to
    check,      \* the loop asks whether the next one is alive
    mwait,      \* the node whose answer it waits for, or "none"
    held,       \* MsgLock: the locked messages of the queue
    (* history *)
    got,        \* what each client has been given
    reading,    \* who has been given a message under the present lock
    cut,        \* messages a lock of which ended before its time
    refused,    \* the ids for which the loop of a node got no lock
    acked,      \* messages whose deletion was reported to a client
    missed,     \* <<n, i>>: node n was not told of a deletion of i in time
    done        \* calls of clients so far
nodeVars == <<rows, st, client, skip, wanted, inbox>>
process == <<up, crashes, team, silent>>
deletion == <<job, todo, check, mwait>>
masterVars == <<process, deletion, calls, held>>
history == <<got, reading, cut, refused, acked, missed, done>>
vars == <<nodeVars, masterVars, history>>

\* Every node has every message and has joined; nobody has read any.
Init ==
    /\ rows = [n \in Nodes |-> Ids]
    /\ st = [n \in Nodes |-> "idle"]
    /\ client = [n \in Nodes |-> "none"]
    /\ skip = [n \in Nodes |-> 0]
    /\ wanted = [n \in Nodes |-> 0]
    /\ inbox = [n \in Nodes |-> {}]
    /\ up = TRUE
    /\ crashes = 0
    /\ team = Nodes
    /\ silent = {}
    /\ calls = {}
    /\ job = NoJob
    /\ todo = {}
    /\ check = TRUE
    /\ mwait = "none"
    /\ held = {}
    /\ got = [c \in Clients |-> {}]
    /\ reading = [i \in Ids |-> {}]
    /\ cut = {}
    /\ refused = [n \in Nodes |-> {}]
    /\ acked = {}
    /\ missed = {}
    /\ done = 0

\* The client gets its answer; the event loop of the node is free again.
Reply(n) ==
    /\ st' = [st EXCEPT ![n] = "idle"]
    /\ client' = [client EXCEPT ![n] = "none"]
    /\ skip' = [skip EXCEPT ![n] = 0]
    /\ wanted' = [wanted EXCEPT ![n] = 0]

Serve(n, c) ==
    /\ st[n] = "idle"
    /\ c \notin {client[m] : m \in Nodes}
    /\ done < MaxCalls
    /\ done' = done + 1
    /\ client' = [client EXCEPT ![n] = c]

-----------------------------------------------------------------------------
(***************************************************************************)
(* getMessage.                                                             *)
(***************************************************************************)

Get(n, c) ==
    /\ Serve(n, c)
    /\ st' = [st EXCEPT ![n] = "look"]
    /\ refused' = [refused EXCEPT ![n] = {}]
    /\ UNCHANGED <<rows, skip, wanted, inbox, masterVars, got, reading, cut,
                   acked, missed>>

\* Mutant: the loop always asks for the first row.
RowFirst(n, i) == \A j \in rows[n] : i <= j

\* Mutant: the loop starts at the second row.
RowNext(n, i) == Cardinality({j \in rows[n] : j < i}) = skip[n] + 1

\* SELECT * ... limit 1 offset skip: rows come in the order of the key.
RowAt(n, i) == Cardinality({j \in rows[n] : j < i}) = skip[n]

\* There is such a row: dispatchCheckLock.
AskLock(n) ==
    /\ st[n] = "look"
    /\ up
    /\ \E i \in rows[n] :
        /\ RowAt(n, i)
        /\ wanted' = [wanted EXCEPT ![n] = i]
        /\ calls' = calls \cup {[from |-> n, kind |-> "get", id |-> i,
                                 live |-> TRUE]}
    /\ st' = [st EXCEPT ![n] = "asked"]
    /\ UNCHANGED <<rows, client, skip, inbox, process, deletion, held, history>>

\* There is none: "Get message fail".
GetFails(n) ==
    /\ st[n] = "look"
    /\ ~ \E i \in rows[n] : RowAt(n, i)
    /\ Reply(n)
    /\ UNCHANGED <<rows, inbox, masterVars, history>>

\* checkLock sets unlock; the message goes to the client ...
Deliver(n) ==
    /\ st[n] = "yes"
    /\ got' = [got EXCEPT ![client[n]] = @ \cup {wanted[n]}]
    /\ reading' = [reading EXCEPT ![wanted[n]] = @ \cup {client[n]}]
    /\ Reply(n)
    /\ UNCHANGED <<rows, inbox, masterVars, cut, refused, acked, missed, done>>

\* ... or the loop goes on with the next row:
Pass(n, i) ==
    /\ st' = [st EXCEPT ![n] = "look"]
    /\ skip' = [skip EXCEPT ![n] = @ + 1]
    /\ refused' = [refused EXCEPT ![n] = @ \cup {i}]
    /\ UNCHANGED <<rows, client, wanted, inbox, masterVars, got, reading, cut,
                   acked, missed, done>>

\* the master has said no,
PassRow(n) == st[n] = "no" /\ Pass(n, wanted[n])

\* or there is none, which leaves checkLock an empty answer.
PassUnasked(n) ==
    /\ st[n] = "look"
    /\ ~up
    /\ \E i \in rows[n] : RowAt(n, i) /\ Pass(n, i)

GiveUp(n) == {[c EXCEPT !.live = @ /\ c.from # n] : c \in calls}

\* After a timeout, or when the connection breaks, checkLock is called with NULL
\* and reads it: the process dies.
LockTimeout(n) ==
    /\ st[n] = "asked"
    /\ st' = [st EXCEPT ![n] = "dead"]
    /\ client' = [client EXCEPT ![n] = "none"]
    /\ skip' = [skip EXCEPT ![n] = 0]
    /\ wanted' = [wanted EXCEPT ![n] = 0]
    /\ inbox' = [inbox EXCEPT ![n] = {}]
    /\ calls' = GiveUp(n)
    /\ mwait' = IF mwait = n THEN "none" ELSE mwait
    /\ UNCHANGED <<rows, process, job, todo, check, held, history>>

-----------------------------------------------------------------------------
(***************************************************************************)
(* deleteMessage.                                                          *)
(***************************************************************************)

\* A client deletes what it has been given, perhaps for the second time.  A
\* row that is not there may be deleted as well (hasMessage).
Delete(n, c, i) ==
    /\ i \in got[c]
    /\ Serve(n, c)
    /\ rows' = [rows EXCEPT ![n] = @ \ {i}]
    /\ wanted' = [wanted EXCEPT ![n] = i]
    /\ calls' = IF up THEN calls \cup {[from |-> n, kind |-> "delete", id |-> i,
                                        live |-> TRUE]}
                ELSE calls
    /\ st' = [st EXCEPT ![n] = "wait"]
    /\ UNCHANGED <<skip, inbox, process, deletion, held, got, reading, cut,
                   refused, acked, missed>>

\* The nodes that the node where i was deleted leaves untold.
NotTold(N, n, i) == (N \ {n}) \X {i}

\* dispatchMessage times out or finds no master; the client is told of success
\* all the same.
DeleteTimeout(n) ==
    /\ st[n] = "wait"
    /\ acked' = acked \cup {wanted[n]}
    /\ missed' = missed \cup NotTold(Nodes, n, wanted[n])
    /\ calls' = GiveUp(n)
    /\ job' = IF job # NoJob /\ job.from = n THEN [job EXCEPT !.live = FALSE]
              ELSE job
    /\ Reply(n)
    /\ UNCHANGED <<rows, inbox, process, todo, check, mwait, held, got, reading,
                   cut, refused, done>>

\* onMasterRecv, on a node that is told of a deletion.
Redo(n) ==
    /\ st[n] = "idle"
    /\ \E m \in inbox[n] :
        /\ rows' = [rows EXCEPT ![n] = @ \ {m.id}]
        /\ inbox' = [inbox EXCEPT ![n] = @ \ {m}]
        /\ mwait' = IF m.live THEN "none" ELSE mwait
    /\ UNCHANGED <<st, client, skip, wanted, process, calls, job, todo, check,
                   held, history>>

-----------------------------------------------------------------------------
(***************************************************************************)
(* The master: GET_MSG of onDataNodeRecv.                                  *)
(***************************************************************************)

Answered(c, s) == IF c.live THEN [st EXCEPT ![c.from] = s] ELSE st

\* Mutant: the answer does not depend on the lock.
LockAnyway(c) ==
    /\ job = NoJob
    /\ c.kind = "get"
    /\ calls' = calls \ {c}
    /\ held' = held \cup {c.id}
    /\ st' = Answered(c, "yes")
    /\ UNCHANGED <<rows, client, skip, wanted, inbox, process, deletion, history>>

\* MsgLock::Lock, "Success" or "Fail".  IsExist starts at the first lock of the
\* queue, if it has one, and goes on past its last: an equal id of a later queue
\* is found as well.
Lock(c) ==
    /\ job = NoJob
    /\ c.kind = "get"
    /\ calls' = calls \ {c}
    /\ \/ /\ c.id \notin held
          /\ held' = held \cup {c.id}
          /\ st' = Answered(c, "yes")
       \/ /\ held # {}
          /\ held' = held
          /\ st' = Answered(c, "no")
    /\ UNCHANGED <<rows, client, skip, wanted, inbox, process, deletion, history>>

\* The message is given out under its lock, or is about to be.
InUse(i) ==
    \/ reading[i] # {}
    \/ \E n \in Nodes : st[n] = "yes" /\ wanted[n] = i

\* A lock times out.  Who was given the message is through with it, but not who
\* is only about to be.
Expire(i) ==
    /\ i \in held
    /\ held' = held \ {i}
    /\ reading' = [reading EXCEPT ![i] = {}]
    /\ cut' = IF \E n \in Nodes : st[n] = "yes" /\ wanted[n] = i
              THEN cut \cup {i} ELSE cut
    /\ UNCHANGED <<nodeVars, process, deletion, calls, got, refused, acked,
                   missed, done>>

\* A lock ends before its time: the event chain runs the callback of a head that
\* is not due, or Del of a queue before this one goes on past its own locks.
EndEarly(i) ==
    /\ i \in held
    /\ held' = held \ {i}
    /\ cut' = IF InUse(i) THEN cut \cup {i} ELSE cut
    /\ UNCHANGED <<nodeVars, process, deletion, calls, got, reading, refused,
                   acked, missed, done>>

-----------------------------------------------------------------------------
(***************************************************************************)
(* The master: DELETE_MSG.                                                 *)
(***************************************************************************)

AcceptDelete(c) ==
    /\ job = NoJob
    /\ c.kind = "delete"
    /\ calls' = calls \ {c}
    /\ job' = c
    /\ todo' = team
    /\ check' = TRUE
    /\ missed' = missed \cup NotTold(Nodes \ team, c.from, c.id)
    /\ UNCHANGED <<nodeVars, process, mwait, held, got, reading, cut, refused,
                   acked, done>>

\* Where the loop over mDataNodes comes to.
Turn(n) ==
    /\ mwait = "none"
    /\ n \in todo
    /\ todo' = todo \ {n}

\* It is not alive.  The loop goes on with the next node, unchecked.
Erase(n) ==
    /\ Turn(n)
    /\ check
    /\ n \in silent
    /\ team' = team \ {n}
    /\ silent' = silent \ {n}
    /\ check' = FALSE
    /\ missed' = missed \cup NotTold({n}, job.from, job.id)
    /\ UNCHANGED <<nodeVars, up, crashes, calls, job, mwait, held, got, reading,
                   cut, refused, acked, done>>

Kept(n) ==
    /\ Turn(n)
    /\ check => n \notin silent
    /\ check' = TRUE

\* The node is told if both its name and its port differ from those given.
NotTheSender(n) == Host[n] # Host[job.from] /\ Port[n] # Port[job.from]

PassOver(n) ==
    /\ Kept(n)
    /\ ~NotTheSender(n)
    /\ missed' = missed \cup NotTold({n}, job.from, job.id)
    /\ UNCHANGED <<nodeVars, process, calls, job, mwait, held, got, reading, cut,
                   refused, acked, done>>

\* Mutant: the answer is not waited for.
TellOnly(n) ==
    /\ Kept(n)
    /\ NotTheSender(n)
    /\ inbox' = [inbox EXCEPT ![n] = @ \cup {[id |-> job.id, live |-> FALSE]}]
    /\ UNCHANGED <<rows, st, client, skip, wanted, process, calls, job, mwait,
                   held, history>>

\* dispatchMessage; a node that is dead refuses.
Tell(n) ==
    /\ Kept(n)
    /\ NotTheSender(n)
    /\ IF st[n] = "dead" THEN UNCHANGED <<inbox, mwait>>
       ELSE /\ inbox' = [inbox EXCEPT ![n] = @ \cup {[id |-> job.id, live |-> TRUE]}]
            /\ mwait' = n
    /\ UNCHANGED <<rows, st, client, skip, wanted, process, calls, job, held,
                   history>>

Unheard(ms) == {[m EXCEPT !.live = FALSE] : m \in ms}

\* It times out; the message stays where it is.
TellTimeout ==
    /\ mwait # "none"
    /\ inbox' = [inbox EXCEPT ![mwait] = Unheard(@)]
    /\ mwait' = "none"
    /\ missed' = missed \cup NotTold({mwait}, job.from, job.id)
    /\ UNCHANGED <<rows, st, client, skip, wanted, process, calls, job, todo,
                   check, held, got, reading, cut, refused, acked, done>>

\* pLock->UnLock, and the answer: "Delete message successfully".
FinishDelete ==
    /\ job # NoJob
    /\ mwait = "none"
    /\ todo = {}
    /\ held' = held \ {job.id}
    /\ reading' = [reading EXCEPT ![job.id] = {}]
    /\ job' = NoJob
    /\ IF job.live
       THEN Reply(job.from) /\ acked' = acked \cup {job.id}
       ELSE UNCHANGED <<st, client, skip, wanted, acked>>
    /\ UNCHANGED <<rows, inbox, process, calls, todo, check, mwait, got, cut,
                   refused, missed, done>>

-----------------------------------------------------------------------------
(***************************************************************************)
(* What happens to the master.                                             *)
(***************************************************************************)

\* A node that is busy, or dead, for so long that the heart beat gives it up.
FallSilent(n) ==
    /\ n \in team
    /\ st[n] # "idle"
    /\ silent' = silent \cup {n}
    /\ UNCHANGED <<nodeVars, up, crashes, team, deletion, calls, held, history>>

\* It is heard again, if it is still asked.
Recycle(n) ==
    /\ n \in silent
    /\ st[n] = "idle"
    /\ silent' = silent \ {n}
    /\ UNCHANGED <<nodeVars, up, crashes, team, deletion, calls, held, history>>

\* With the process goes all it knows.
MasterCrash ==
    /\ up /\ crashes < MaxCrashes
    /\ up' = FALSE
    /\ crashes' = crashes + 1
    /\ team' = {} /\ silent' = {}
    /\ calls' = {} /\ job' = NoJob /\ todo' = {} /\ mwait' = "none"
    /\ held' = {}
    /\ cut' = cut \cup {i \in held : InUse(i)}
    /\ inbox' = [n \in Nodes |-> Unheard(inbox[n])]
    /\ UNCHANGED <<rows, st, client, skip, wanted, check, got, reading, refused,
                   acked, missed, done>>

\* The nodes that run know nothing of it and do not join again.
MasterStart ==
    /\ ~up
    /\ up' = TRUE
    /\ UNCHANGED <<nodeVars, crashes, team, silent, deletion, calls, held, history>>

-----------------------------------------------------------------------------
Node(n) ==
    \/ AskLock(n) \/ GetFails(n) \/ Deliver(n) \/ PassRow(n) \/ PassUnasked(n)
    \/ LockTimeout(n) \/ DeleteTimeout(n) \/ Redo(n)

Master ==
    \/ \E c \in calls : Lock(c) \/ AcceptDelete(c)
    \/ \E n \in Nodes : Erase(n) \/ PassOver(n) \/ Tell(n)
    \/ TellTimeout \/ FinishDelete

Next ==
    \/ \E n \in Nodes, c \in Clients :
        Get(n, c) \/ \E i \in Ids : Delete(n, c, i)
    \/ \E n \in Nodes : Node(n) \/ FallSilent(n) \/ Recycle(n)
    \/ Master \/ MasterCrash \/ MasterStart
    \/ \E i \in Ids : Expire(i) \/ EndEarly(i)

Spec == Init /\ [][Next]_vars

-----------------------------------------------------------------------------
(***************************************************************************)
(* Properties.                                                             *)
(***************************************************************************)

TypeOK ==
    /\ rows \in [Nodes -> SUBSET Ids]
    /\ st \in [Nodes -> NodeState]
    /\ client \in [Nodes -> Clients \cup {"none"}]
    /\ skip \in [Nodes -> 0..Cardinality(Ids)]
    /\ wanted \in [Nodes -> Ids \cup {0}]
    /\ inbox \in [Nodes -> SUBSET [id : Ids, live : BOOLEAN]]
    /\ up \in BOOLEAN /\ crashes \in 0..MaxCrashes
    /\ team \subseteq Nodes /\ silent \subseteq team
    /\ calls \subseteq Call /\ job \in Call \cup {NoJob}
    /\ todo \subseteq Nodes /\ check \in BOOLEAN /\ mwait \in Nodes \cup {"none"}
    /\ held \subseteq Ids
    /\ got \in [Clients -> SUBSET Ids] /\ reading \in [Ids -> SUBSET Clients]
    /\ cut \subseteq Ids /\ refused \in [Nodes -> SUBSET Ids]
    /\ acked \subseteq Ids /\ missed \subseteq Nodes \X Ids
    /\ done \in 0..MaxCalls

\* Nobody who still has the row was left out when the message was deleted.
Together(i) == \A n \in Nodes : <<n, i>> \notin missed

\* A message is with one client at a time: until its lock times out or a deletion
\* ends it nobody else is given it, by any node, also when requests for it and
\* deletions cross.  Two things break that in the code, and are excused: a lock
\* that ended early, under a client or an answer on its way (cut), and a deletion
\* that some node was not told of in time: it unlocks what that node can still
\* give out, and then the message may go to two clients under two locks.
OneReader ==
    \A i \in Ids \ cut : Together(i) => Cardinality(reading[i]) <= 1

\* A node gives out a message that a client was told is deleted only if that node
\* was not told of the deletion in time: the wait for its answer or for the
\* master's timed out, or it was passed over, erased, or not in the team.  The
\* others do not, also if they were going through their rows meanwhile, if locks
\* ended early or if the master crashed half-way through its team.
DeletedStaysGone ==
    [][\A n \in Nodes :
        Deliver(n) /\ wanted[n] \in acked => <<n, wanted[n]>> \in missed]_vars

\* "Get message fail" means that for every message the node has a lock was
\* refused when its turn came, by the master or because there was none: counting
\* rows by offset skips none.  That relies on a node serving nobody, not even the
\* master's deletions, while it waits.
FailsOnlyIfRefused ==
    [][\A n \in Nodes : GetFails(n) => rows[n] = refused[n]]_vars

=============================================================================
