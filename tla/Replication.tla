----------------------------- MODULE Replication -----------------------------
(***************************************************************************)
(* The master (SQSMaster.cpp) and its data nodes (DataNode.cpp): how an    *)
(* operation that a client asks of one node reaches the others, and how a  *)
(* node that was down catches up.                                          *)
(*                                                                         *)
(* A client operation is stored and logged by the node that serves it and  *)
(* then passed to the master, which appends it to a queue in memory and    *)
(* sends it to the other nodes, one after the other, each time waiting for *)
(* the answer.  A thread moves the queue to the master's log file.  A node *)
(* that starts asks for the part of that file it lacks ("recovery"), and   *)
(* then joins, for which it is sent what is still in the queue.  Between   *)
(* the two the queue must not move: the node holds a lock of the           *)
(* SyncWorker.                                                             *)
(*                                                                         *)
(* Master and nodes are single-threaded servers: while they wait for an    *)
(* answer of the other side they serve nobody.  A wait ends with the       *)
(* answer, with the end of the other process or with the HTTP timeout; a   *)
(* request whose sender has given up is still served, late ("dead").       *)
(***************************************************************************)
EXTENDS Database

CONSTANTS
    Nodes, Queues, Msgs,
    Host, Port,     \* the address of each node, as functions of the node
    Team,           \* the nodes that have joined at the start, in order
    Prelude,        \* the operations that everybody has done at the start
    Writers,        \* the nodes that clients use
    Timeouts,       \* HTTP requests may time out
    Hangs,          \* a running node may be taken for dead
    PromptRestart,  \* a node may start before the master has dropped it
    CrashIn,        \* the states of a node in which it may crash; "master" if
                    \* the master may
    MaxOps,         \* bound on client operations
    MaxCrash,       \* bound on crashes, and on such heart beats
    MaxExpire       \* bound on SyncWorker locks that expire

NodeState == {"down", "idle", "stored", "logged", "wait", "redo"}
BootState == {"off", "start", "recovering", "recovered", "joining", "up"}

ASSUME ReplicationAssumption ==
    /\ Host \in [Nodes -> STRING] /\ Port \in [Nodes -> Nat]
    /\ Team \in Seq(Nodes) /\ Writers \subseteq Nodes
    /\ {Timeouts, Hangs, PromptRestart} \subseteq BOOLEAN
    /\ CrashIn \subseteq NodeState \cup {"master"}
    /\ MaxOps \in Nat /\ MaxCrash \in Nat /\ MaxExpire \in Nat
    /\ "none" \notin Nodes

Op == OpSet(Queues, Msgs)

ASSUME PreludeAssumption == Prelude \in Seq(Op)

\* An operation on its way; live while somebody waits for the answer.
Message == [op : Op, live : BOOLEAN]

\* A request to the master: an operation, or the number of lines in the log
\* of a node that recovers, or a node that joins.
BootKind == {"recovery", "join"}
NoOp == [kind |-> "none"]
Request ==
    [from : Nodes, kind : {"op"}, op : Op, size : {0}, live : BOOLEAN]
      \cup [from : Nodes, kind : BootKind, op : {NoOp}, size : Nat, live : BOOLEAN]

VARIABLES
    (* data nodes *)
    db,         \* the database of each node, on disk
    log,        \* the log of each node, on disk
    st,         \* what the event loop of each node is doing
    work,       \* the message it works on, at most one
    boot,       \* what the thread recover_and_join is doing
    inbox,      \* messages of the master that the node has not read
    (* master *)
    running,    \* the process is there
    calls,      \* requests that the master has not read
    job,        \* the request it works on, at most one
    mi,         \* its position in mDataNodes
    mlist,      \* what it has still to send to a node that recovers or joins
    mwait,      \* the node whose answer it waits for, or "none"
    mDataNodes, \* the nodes that joined
    watched,    \* the nodes that HeartBeat::clients has
    pQueue,     \* accepted operations not yet in the file
    mfile,      \* the log file
    paused,     \* the nodes that hold a lock of the SyncWorker
    (* history *)
    torn,       \* nodes that went down between storing and logging
    (* bounds *)
    ops, crashes, expired

nodeVars == <<db, log, st, work, boot, inbox>>
masterVars == <<calls, job, mi, mlist, mwait, mDataNodes, watched, pQueue,
                mfile, paused>>
\* What only crashes and starts change, and what bounds the model.
bounds == <<running, torn, ops, crashes, expired>>
vars == <<nodeVars, masterVars, bounds>>

InTeam(n) == n \in ToSet(Team)

\* The nodes of the team have joined; the prelude is in every database and log.
Init ==
    /\ db = [n \in Nodes |-> Replay(EmptyDb(Queues), Prelude)]
    /\ log = [n \in Nodes |-> Prelude]
    /\ st = [n \in Nodes |-> IF InTeam(n) THEN "idle" ELSE "down"]
    /\ work = [n \in Nodes |-> << >>]
    /\ boot = [n \in Nodes |-> IF InTeam(n) THEN "up" ELSE "off"]
    /\ inbox = [n \in Nodes |-> << >>]
    /\ running = TRUE
    /\ calls = << >>
    /\ job = << >>
    /\ mi = 1
    /\ mlist = << >>
    /\ mwait = "none"
    /\ mDataNodes = Team
    /\ watched = ToSet(Team)
    /\ pQueue = << >>
    /\ mfile = Prelude
    /\ paused = {}
    /\ torn = {}
    /\ ops = 0 /\ crashes = 0 /\ expired = 0

-----------------------------------------------------------------------------
(***************************************************************************)
(* A data node serves a client: DataNode::onClientRecv.                    *)
(***************************************************************************)

\* What a client may ask of n.  The node chooses the id of a new message.
ClientOps(n) ==
    UNION {{CreateOp(q), DropOp(q)}
             \cup {PutOp(q, NextId(db[n], q), m) : m \in Msgs}
             \cup {RemoveOp(q, id) : id \in 1..db[n][q].seq} : q \in Queues}

\* The change is stored.  When that fails the client is told so and nothing
\* else happens: a stuttering step.
ClientRequest(n, op) ==
    /\ st[n] = "idle"
    /\ ops < MaxOps
    /\ TRUE \in Results(db[n], op)
    /\ db' = [db EXCEPT ![n] = Apply(db[n], op)]
    /\ st' = [st EXCEPT ![n] = "stored"]
    /\ work' = [work EXCEPT ![n] = <<[op |-> op, live |-> TRUE]>>]
    /\ ops' = ops + 1
    /\ UNCHANGED <<log, boot, inbox, masterVars, running, torn, crashes, expired>>

\* The command is logged ...
ClientLog(n) ==
    /\ st[n] = "stored"
    /\ log' = [log EXCEPT ![n] = Append(@, work[n][1].op)]
    /\ st' = [st EXCEPT ![n] = "logged"]
    /\ UNCHANGED <<db, work, boot, inbox, masterVars, bounds>>

\* ... and sent to the master; dispatchMessage returns with the answer, or at
\* once when there is no master: the client gets its answer all the same.
ClientAlone(n) ==
    /\ st[n] = "logged" /\ ~running
    /\ st' = [st EXCEPT ![n] = "idle"]
    /\ work' = [work EXCEPT ![n] = << >>]
    /\ UNCHANGED <<db, log, boot, inbox, masterVars, bounds>>

ClientForward(n) ==
    /\ st[n] = "logged" /\ running
    /\ calls' = Append(calls, [from |-> n, kind |-> "op", op |-> work[n][1].op,
                               size |-> 0, live |-> TRUE])
    /\ st' = [st EXCEPT ![n] = "wait"]
    /\ UNCHANGED <<db, log, work, boot, inbox, job, mi, mlist, mwait,
                   mDataNodes, watched, pQueue, mfile, paused, bounds>>

\* Mutant: the callback of a request that timed out stays registered.
GiveUpNothing(s, n, kinds) == s

\* Node n gives up its requests of some kinds.
GiveUp(s, n, kinds) ==
    [i \in DOMAIN s |-> IF s[i].from = n /\ s[i].kind \in kinds
                        THEN [s[i] EXCEPT !.live = FALSE] ELSE s[i]]

\* dispatchMessage of the event loop times out; the client gets its answer.
ClientTimeout(n) ==
    /\ Timeouts
    /\ st[n] = "wait"
    /\ calls' = GiveUp(calls, n, {"op"}) /\ job' = GiveUp(job, n, {"op"})
    /\ st' = [st EXCEPT ![n] = "idle"]
    /\ work' = [work EXCEPT ![n] = << >>]
    /\ UNCHANGED <<db, log, boot, inbox, mi, mlist, mwait, mDataNodes, watched,
                   pQueue, mfile, paused, bounds>>

-----------------------------------------------------------------------------
(***************************************************************************)
(* A data node redoes what another one did: DataNode::onMasterRecv.        *)
(***************************************************************************)

\* A message is taken from the inbox and logged.  Each message comes on a
\* connection of its own: nothing orders those that wait.
RedoLog(n, i) ==
    /\ st[n] = "idle"
    /\ log' = [log EXCEPT ![n] = Append(@, inbox[n][i].op)]
    /\ st' = [st EXCEPT ![n] = "redo"]
    /\ work' = [work EXCEPT ![n] = <<inbox[n][i]>>]
    /\ inbox' = [inbox EXCEPT ![n] = RemoveAt(@, i)]
    /\ UNCHANGED <<db, boot, masterVars, bounds>>

\* Mutant: the id that the master sends is ignored.
RedoOwnId(n) ==
    LET op == work[n][1].op
        mine == IF op.kind = "putMessage"
                THEN [op EXCEPT !.id = NextId(db[n], op.q)] ELSE op
    IN /\ st[n] = "redo"
       /\ db' = [db EXCEPT ![n] = Apply(@, mine)]
       /\ st' = [st EXCEPT ![n] = "idle"]
       /\ work' = [work EXCEPT ![n] = << >>]
       /\ mwait' = IF work[n][1].live THEN "none" ELSE mwait
       /\ UNCHANGED <<log, boot, inbox, calls, job, mi, mlist, mDataNodes,
                      watched, pQueue, mfile, paused, bounds>>

\* The change is stored, or fails; either way the master gets an answer.
RedoStore(n) ==
    /\ st[n] = "redo"
    /\ db' = [db EXCEPT ![n] = Apply(@, work[n][1].op)]
    /\ st' = [st EXCEPT ![n] = "idle"]
    /\ work' = [work EXCEPT ![n] = << >>]
    /\ mwait' = IF work[n][1].live THEN "none" ELSE mwait
    /\ UNCHANGED <<log, boot, inbox, calls, job, mi, mlist, mDataNodes, watched,
                   pQueue, mfile, paused, bounds>>

-----------------------------------------------------------------------------
(***************************************************************************)
(* A data node starts: the thread recover_and_join, next to the event loop *)
(* that serves clients and the master at once.                             *)
(***************************************************************************)

\* DataNode::start.  By now RegularCheck may have cancelled the entry that the
\* node had when it went down.
Start(n) ==
    /\ st[n] = "down"
    /\ PromptRestart \/ n \notin ToSet(mDataNodes)
    /\ st' = [st EXCEPT ![n] = "idle"]
    /\ boot' = [boot EXCEPT ![n] = "start"]
    /\ watched' \in {watched, watched \ {n}}
    /\ UNCHANGED <<db, log, work, inbox, calls, job, mi, mlist, mwait,
                   mDataNodes, pQueue, mfile, paused, bounds>>

\* DataNode::recovery counts the lines of the node's own log.
SendRecovery(n) ==
    /\ boot[n] = "start" /\ running
    /\ calls' = Append(calls, [from |-> n, kind |-> "recovery", op |-> NoOp,
                               size |-> Len(log[n]), live |-> TRUE])
    /\ boot' = [boot EXCEPT ![n] = "recovering"]
    /\ UNCHANGED <<db, log, st, work, inbox, job, mi, mlist, mwait, mDataNodes,
                   watched, pQueue, mfile, paused, bounds>>

\* DataNode::join follows, whatever became of the recovery.
SendJoin(n) ==
    /\ boot[n] = "recovered" /\ running
    /\ calls' = Append(calls, [from |-> n, kind |-> "join", op |-> NoOp,
                               size |-> 0, live |-> TRUE])
    /\ boot' = [boot EXCEPT ![n] = "joining"]
    /\ UNCHANGED <<db, log, st, work, inbox, job, mi, mlist, mwait, mDataNodes,
                   watched, pQueue, mfile, paused, bounds>>

\* Without a master both requests end at once.  The node has not joined.
BootAlone(n) ==
    /\ boot[n] \in {"start", "recovered"} /\ ~running
    /\ boot' = [boot EXCEPT ![n] = IF @ = "start" THEN "recovered" ELSE "up"]
    /\ UNCHANGED <<db, log, st, work, inbox, masterVars, bounds>>

\* The answer to recovery or join, or the end of the wait for it.
BootDone(b) ==
    CASE b = "recovering" -> "recovered" [] b = "joining" -> "up" [] OTHER -> b

BootTimeout(n) ==
    /\ Timeouts
    /\ boot[n] \in {"recovering", "joining"}
    /\ calls' = GiveUp(calls, n, BootKind) /\ job' = GiveUp(job, n, BootKind)
    /\ boot' = [boot EXCEPT ![n] = BootDone(@)]
    /\ UNCHANGED <<db, log, st, work, inbox, mi, mlist, mwait, mDataNodes,
                   watched, pQueue, mfile, paused, bounds>>

\* The requests of other nodes than n.
OfOthers(s, n) ==
    LET f[i \in 0..Len(s)] ==
            IF i = 0 THEN << >>
            ELSE IF s[i].from = n THEN f[i - 1] ELSE Append(f[i - 1], s[i])
    IN f[Len(s)]

\* The process of a node ends.  Its disk stays; its requests that the master
\* has not read may be lost.  A master that waits for it sees the end.
Crash(n) ==
    /\ st[n] \in CrashIn \ {"down"}
    /\ crashes < MaxCrash
    /\ LET all == {"op"} \cup BootKind
       IN /\ calls' \in {GiveUp(calls, n, all), OfOthers(calls, n)}
          /\ job' = GiveUp(job, n, all)
    /\ st' = [st EXCEPT ![n] = "down"]
    /\ boot' = [boot EXCEPT ![n] = "off"]
    /\ work' = [work EXCEPT ![n] = << >>]
    /\ inbox' = [inbox EXCEPT ![n] = << >>]
    /\ mwait' = IF mwait = n THEN "none" ELSE mwait
    /\ torn' = IF st[n] \in {"stored", "redo"} THEN torn \cup {n} ELSE torn
    /\ crashes' = crashes + 1
    /\ UNCHANGED <<db, log, mi, mlist, mDataNodes, watched, pQueue, mfile,
                   paused, running, ops, expired>>

\* Messages that nobody waits for any more.
Dead(s) == [i \in DOMAIN s |-> [s[i] EXCEPT !.live = FALSE]]

\* The process of the master ends, perhaps in the middle of a Flush, which
\* writes line by line.  Its log file stays; the queue, the team, locks and
\* requests go.  Nodes that wait for it see the end; what it has sent them is
\* still there.
MasterCrash ==
    /\ "master" \in CrashIn
    /\ running
    /\ crashes < MaxCrash
    /\ running' = FALSE
    /\ calls' = << >> /\ job' = << >>
    /\ mi' = 1 /\ mlist' = << >> /\ mwait' = "none"
    /\ mDataNodes' = << >> /\ watched' = {}
    /\ \E k \in 0..Len(pQueue) :
        /\ k > 0 => paused = {}
        /\ mfile' = mfile \o SubSeq(pQueue, 1, k)
    /\ pQueue' = << >> /\ paused' = {}
    /\ st' = [n \in Nodes |-> IF st[n] = "wait" THEN "idle" ELSE st[n]]
    /\ work' = [n \in Nodes |-> IF st[n] = "wait" THEN << >> ELSE
                                IF st[n] = "redo" THEN Dead(work[n]) ELSE work[n]]
    /\ boot' = [n \in Nodes |-> BootDone(boot[n])]
    /\ inbox' = [n \in Nodes |-> Dead(inbox[n])]
    /\ crashes' = crashes + 1
    /\ UNCHANGED <<db, log, torn, ops, expired>>

\* It starts again, with the log file and nothing else.
MasterStart ==
    /\ ~running
    /\ running' = TRUE
    /\ UNCHANGED <<nodeVars, masterVars, torn, ops, crashes, expired>>

-----------------------------------------------------------------------------
(***************************************************************************)
(* The master: SQSMaster::onDataNodeRecv.  One request at a time.          *)
(***************************************************************************)

\* A request is read.  Each has a connection of its own: no order among them.
Read(i) ==
    /\ job = << >>
    /\ job' = <<calls[i]>>
    /\ calls' = RemoveAt(calls, i)

\* createQueue, deleteQueue, putMessage, deleteMessage: queued for the log,
\* then dispatched from the first node on.
AcceptOp(i) ==
    /\ calls[i].kind = "op"
    /\ Read(i)
    /\ pQueue' = Append(pQueue, calls[i].op)
    /\ mi' = 1
    /\ UNCHANGED <<nodeVars, mlist, mwait, mDataNodes, watched, mfile, paused,
                   bounds>>

\* The last n lines of a log file.
TailList(file, n) == SubSeq(file, Len(file) - n + 1, Len(file))

\* The lines of the master's file that a log of the given size lacks, as far
\* as recovery can tell from the number of lines; none if the node has more.
Missing(size) ==
    LET sz == Len(mfile) - size
    IN IF sz < 0 THEN << >> ELSE TailList(mfile, sz)

\* Mutant: recovery does not lock the SyncWorker.
AcceptUnlocked(i) ==
    /\ calls[i].kind = "recovery"
    /\ Read(i)
    /\ mlist' = Missing(calls[i].size)
    /\ UNCHANGED <<nodeVars, mi, mwait, mDataNodes, watched, pQueue, mfile,
                   paused, bounds>>

\* recovery: IncrementLock, whatever the size; then the lines that are missing.
AcceptRecovery(i) ==
    /\ calls[i].kind = "recovery"
    /\ Read(i)
    /\ paused' = paused \cup {calls[i].from}
    /\ mlist' = Missing(calls[i].size)
    /\ UNCHANGED <<nodeVars, mi, mwait, mDataNodes, watched, pQueue, mfile,
                   bounds>>

\* join: the node is added, though it may be there already, and is to be sent
\* the queue.
AcceptJoin(i) ==
    /\ calls[i].kind = "join"
    /\ Read(i)
    /\ mDataNodes' = Append(mDataNodes, calls[i].from)
    /\ watched' = watched \cup {calls[i].from}
    /\ mlist' = pQueue
    /\ UNCHANGED <<nodeVars, mi, mwait, pQueue, mfile, paused, bounds>>

\* dispatchMessage up to the wait.  A node that is down refuses, which ends
\* dispatchMessage at once.
Send(n, op) ==
    IF st[n] = "down" THEN UNCHANGED <<inbox, mwait>>
    ELSE /\ inbox' = [inbox EXCEPT ![n] = Append(@, [op |-> op, live |-> TRUE])]
         /\ mwait' = n

\* What HeartBeat::IsNodeAlive may say: a node that is down is found out in
\* the end, within the 10 seconds of its timeout or by its RegularCheck.  A
\* node that runs may be taken for dead as well (Hangs): while it waits for the
\* master, up to the 50 seconds of HTTP, it answers no heart beat; and a thread
\* that checked it before it went down may cancel its new entry (HeartBeat).
SeenAlive(n) ==
    IF n \notin watched THEN {FALSE}
    ELSE IF st[n] = "down" \/ (Hangs /\ crashes < MaxCrash) THEN BOOLEAN
    ELSE {TRUE}

\* Mutant: dispatchMessage does not wait for the answer.
AtBackupAsync == job # << >> /\ job[1].kind = "op"

\* The master is in the dispatch loop and waits for nobody.
AtBackup == job # << >> /\ job[1].kind = "op" /\ mwait = "none"

\* Whom the loop passes over: not only the sender but every node that has its
\* name or its port.
NotTheSender(n) ==
    /\ Host[n] # Host[job[1].from]
    /\ Port[n] # Port[job[1].from]

\* One turn of the dispatch loop.  A node found dead is erased and the turn
\* goes on with the next one, if there is one; otherwise the loop ends.
Backup ==
    /\ AtBackup
    /\ mi <= Len(mDataNodes)
    /\ \E alive \in SeenAlive(mDataNodes[mi]) :
        LET n == mDataNodes[mi]
            left == IF alive THEN mDataNodes ELSE RemoveAt(mDataNodes, mi)
            hangs == ~alive /\ st[n] # "down" /\ n \in watched
        IN /\ mDataNodes' = left
           /\ watched' = IF alive THEN watched ELSE watched \ {n}
           /\ crashes' = IF hangs THEN crashes + 1 ELSE crashes
           /\ mi' = IF mi <= Len(left) THEN mi + 1 ELSE mi
           /\ IF mi <= Len(left) /\ NotTheSender(left[mi])
              THEN Send(left[mi], job[1].op)
              ELSE UNCHANGED <<inbox, mwait>>
    /\ UNCHANGED <<db, log, st, work, boot, calls, job, mlist, pQueue, mfile,
                   paused, running, torn, ops, expired>>

\* One turn of the loops of recovery and join.
AtReplay == job # << >> /\ job[1].kind \in BootKind /\ mwait = "none"

ReplayNext ==
    /\ AtReplay
    /\ mlist # << >>
    /\ Send(job[1].from, Head(mlist))
    /\ mlist' = Tail(mlist)
    /\ UNCHANGED <<db, log, st, work, boot, calls, job, mi, mDataNodes, watched,
                   pQueue, mfile, paused, bounds>>

\* Mutant: one path of the handler of recovery and join sends no reply.
AnswerOpsOnly(c) ==
    IF c.live /\ c.kind = "op"
    THEN /\ st' = [st EXCEPT ![c.from] = "idle"]
         /\ work' = [work EXCEPT ![c.from] = << >>]
         /\ UNCHANGED boot
    ELSE UNCHANGED <<st, work, boot>>

\* evhttp_send_reply, to a sender that has not given up.  The answer ends the
\* wait of the event loop or that of the thread recover_and_join.
Answer(c) ==
    LET n == c.from
    IN CASE c.live /\ c.kind = "op" ->
                /\ st' = [st EXCEPT ![n] = "idle"]
                /\ work' = [work EXCEPT ![n] = << >>]
                /\ UNCHANGED boot
         [] c.live /\ c.kind # "op" ->
                /\ boot' = [boot EXCEPT ![n] = BootDone(@)]
                /\ UNCHANGED <<st, work>>
         [] OTHER -> UNCHANGED <<st, work, boot>>

\* The loop is over; a join ends with DecrementLock.
Finish ==
    /\ \/ AtBackup /\ mi > Len(mDataNodes)
       \/ AtReplay /\ mlist = << >>
    /\ paused' = IF job[1].kind = "join" THEN paused \ {job[1].from} ELSE paused
    /\ Answer(job[1])
    /\ job' = << >>
    /\ UNCHANGED <<db, log, inbox, calls, mi, mlist, mwait, mDataNodes, watched,
                   pQueue, mfile, bounds>>

\* Mutant: the timeout does not end the event loop of dispatchMessage.
MasterStuck ==
    /\ Timeouts
    /\ mwait # "none"
    /\ inbox' = [inbox EXCEPT ![mwait] = Dead(@)]
    /\ UNCHANGED <<db, log, st, work, boot, calls, job, mi, mlist, mwait,
                   mDataNodes, watched, pQueue, mfile, paused, bounds>>

\* dispatchMessage times out; the message stays where it is.
MasterTimeout ==
    /\ Timeouts
    /\ mwait # "none"
    /\ inbox' = [inbox EXCEPT ![mwait] = Dead(@)]
    /\ work' = IF st[mwait] = "redo"
               THEN [work EXCEPT ![mwait] = Dead(@)] ELSE work
    /\ mwait' = "none"
    /\ UNCHANGED <<db, log, st, boot, calls, job, mi, mlist, mDataNodes, watched,
                   pQueue, mfile, paused, bounds>>

-----------------------------------------------------------------------------
(***************************************************************************)
(* The SyncWorker, a thread of the master.                                 *)
(***************************************************************************)

\* Mutant: the queue is cleared after one line has been written.
FlushOne ==
    /\ paused = {}
    /\ pQueue # << >>
    /\ mfile' = Append(mfile, Head(pQueue))
    /\ pQueue' = << >>
    /\ UNCHANGED <<nodeVars, calls, job, mi, mlist, mwait, mDataNodes, watched,
                   paused, bounds>>

\* SyncWorker::Run: the whole queue goes to the file, under the mutex.  If a
\* join is iterating over the queue (its lock has expired), the strings it
\* has not sent are destroyed: it sends some that are still in memory, and
\* then nonsense that the node does not recognize.
Flush ==
    /\ paused = {}
    /\ pQueue # << >>
    /\ mfile' = mfile \o pQueue
    /\ pQueue' = << >>
    /\ mlist' \in IF job # << >> /\ job[1].kind = "join"
                  THEN {SubSeq(mlist, 1, k) : k \in 0..Len(mlist)} ELSE {mlist}
    /\ UNCHANGED <<nodeVars, calls, job, mi, mwait, mDataNodes, watched, paused,
                   bounds>>

\* lockCheckCallback: ten seconds have passed.
Expire(n) ==
    /\ n \in paused
    /\ expired < MaxExpire
    /\ paused' = paused \ {n}
    /\ expired' = expired + 1
    /\ UNCHANGED <<nodeVars, calls, job, mi, mlist, mwait, mDataNodes, watched,
                   pQueue, mfile, running, torn, ops, crashes>>

-----------------------------------------------------------------------------
Client(n) ==
    \/ \E op \in ClientOps(n) : ClientRequest(n, op)
    \/ ClientLog(n)
    \/ ClientForward(n) \/ ClientAlone(n)
    \/ ClientTimeout(n)

Redo(n) == (\E i \in DOMAIN inbox[n] : RedoLog(n, i)) \/ RedoStore(n)

Boot(n) == SendRecovery(n) \/ SendJoin(n) \/ BootAlone(n) \/ BootTimeout(n)

Master ==
    \/ \E i \in DOMAIN calls :
        AcceptOp(i) \/ AcceptRecovery(i) \/ AcceptJoin(i)
    \/ Backup \/ ReplayNext \/ Finish \/ MasterTimeout

Next ==
    \/ \E n \in Writers : Client(n)
    \/ \E n \in Nodes : Redo(n) \/ Start(n) \/ Boot(n) \/ Crash(n) \/ Expire(n)
    \/ Master
    \/ Flush
    \/ MasterCrash \/ MasterStart

Spec == Init /\ [][Next]_vars

\* Every process and thread that can go on does.  Nothing is assumed of
\* clients, of crashes and starts, of the ten seconds of Expire, and of a node
\* that gives up a client's request: the master gives up too.  A node
\* reads every message in the end, though each one competes with clients for
\* the event loop, and the master reads every request.
Fairness ==
    /\ \A n \in Nodes :
        /\ WF_vars(ClientLog(n))
        /\ WF_vars(ClientForward(n) \/ ClientAlone(n))
        /\ SF_vars(\E i \in DOMAIN inbox[n] : RedoLog(n, i))
        /\ WF_vars(RedoStore(n))
        /\ WF_vars(Boot(n))
    /\ WF_vars(Master)
    /\ WF_vars(Flush)

FairSpec == Spec /\ Fairness

-----------------------------------------------------------------------------
(***************************************************************************)
(* Properties.                                                             *)
(***************************************************************************)

\* Every variable has a value of its type.
TypeOK ==
    /\ db \in [Nodes -> DbSet(Queues, Msgs)]
    /\ log \in [Nodes -> Seq(Op)]
    /\ st \in [Nodes -> NodeState]
    /\ work \in [Nodes -> Seq(Message)]
    /\ boot \in [Nodes -> BootState]
    /\ inbox \in [Nodes -> Seq(Message)]
    /\ calls \in Seq(Request)
    /\ job \in Seq(Request)
    /\ mi \in Nat \ {0}
    /\ mlist \in Seq(Op)
    /\ mwait \in Nodes \cup {"none"}
    /\ mDataNodes \in Seq(Nodes)
    /\ watched \subseteq Nodes
    /\ pQueue \in Seq(Op)
    /\ mfile \in Seq(Op)
    /\ paused \subseteq Nodes
    /\ running \in BOOLEAN /\ torn \subseteq Nodes
    /\ ops \in Nat /\ crashes \in Nat /\ expired \in Nat

\* Nothing is on its way or being done.
Quiescent ==
    /\ job = << >> /\ calls = << >>
    /\ \A n \in Nodes : /\ st[n] \in {"idle", "down"}
                        /\ boot[n] \in {"up", "off"}
                        /\ inbox[n] = << >>

\* "We currently consider backuping all the messages on all machines"
\* (proposal.tex:16): when nothing is on its way, the nodes that are in the
\* team have the same queues and messages.
BackupsAgree ==
    Quiescent => \A m, n \in Nodes :
                    boot[m] = "up" /\ boot[n] = "up" => db[m] = db[n]

\* A node redoes the operations of the node that clients use in the order in
\* which they were done there, each once and none left out, at any moment and
\* across all the queues between them, until a node goes down for the first
\* time.  Recovery by the length of the log rests on that.
BackupsTrail ==
    crashes = 0 =>
        \A w \in Writers, n \in Nodes : IsPrefix(log[n], log[w])

\* The database of a node that is between two requests is what its log says,
\* also when operations of its own clients and of other nodes alternate and
\* arrive late, twice or in the wrong order, and some fail, and across crashes
\* of the master and of the node, unless it goes down between storing and
\* logging.
LogTellsDb ==
    \A n \in Nodes \ torn : st[n] \in {"idle", "logged", "wait"} =>
        Replay(EmptyDb(Queues), log[n]) = db[n]

\* Where the live requests of n for the event loop or the boot thread are, and
\* the live messages for it.
Live(s, n, kinds) ==
    {i \in DOMAIN s : s[i].from = n /\ s[i].kind \in kinds /\ s[i].live}
LiveMessages(s) == {i \in DOMAIN s : s[i].live}

\* One of two places has exactly one thing, or neither has any.
OneOf(some, here, there) ==
    IF some
    THEN \/ (\E i \in here : here = {i}) /\ there = {}
         \/ (\E i \in there : there = {i}) /\ here = {}
    ELSE here = {} /\ there = {}

Redoing(n) == IF st[n] = "redo" THEN work[n] ELSE << >>

\* Who waits for an answer waits for one that is under way, and nobody else
\* gets it: a late answer to a request given up is never taken for the answer
\* to the next one, whatever crashed, restarted or timed out in between.
WaitersServed ==
    /\ \A n \in Nodes :
        /\ OneOf(st[n] = "wait", Live(calls, n, {"op"}), Live(job, n, {"op"}))
        /\ OneOf(boot[n] \in {"recovering", "joining"},
                 Live(calls, n, BootKind), Live(job, n, BootKind))
        /\ OneOf(mwait = n, LiveMessages(inbox[n]), LiveMessages(Redoing(n)))
    /\ mwait # "none" => job # << >> /\ st[mwait] # "down"

\* A node that waits for the master does not do so for ever, though the master
\* may wait for that node, or for another one that waits for the master: nobody
\* has to give up but the master, which then goes on with its team.
RequestsAnswered == \A n \in Nodes : (st[n] = "wait") ~> (st[n] # "wait")

\* A node that starts joins the team, or crashes again.
StartersJoin ==
    \A n \in Nodes : (boot[n] = "start") ~> (boot[n] \in {"up", "off"})

\* The master's log is the history: what it has once accepted it keeps in the
\* order of acceptance, in the file or in the queue before the file.  A crash
\* of the master loses the queue, but never what has been in the file.
History == mfile \o pQueue
HistoryGrows ==
    [][IsPrefix(IF running' THEN History ELSE mfile, History')]_vars

=============================================================================
