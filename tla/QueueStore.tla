----------------------------- MODULE QueueStore ------------------------------
(***************************************************************************)
(* What the log of a data node is good for.  The recovery protocol counts  *)
(* the lines of a node's log and sends the node a part of the master's log *)
(* that may begin earlier than where the node stopped.  That is of use     *)
(* only if a log, replayed from an empty database, gives the database, and *)
(* if replaying operations that were done already does no harm.            *)
(*                                                                         *)
(* One data node serves client requests (DataNode::onClientRecv): each is  *)
(* stored and, when that succeeded, logged.                                *)
(***************************************************************************)
EXTENDS Database

CONSTANTS Queues, Msgs,
          MaxLog        \* bound on the number of logged operations

VARIABLES db, log
vars == <<db, log>>

Init == db = EmptyDb(Queues) /\ log = << >>

\* The operations a client may ask for.  The node chooses the id of a message.
Requests ==
    UNION {{CreateOp(q), DropOp(q)}
             \cup {PutOp(q, NextId(db, q), m) : m \in Msgs}
             \cup {RemoveOp(q, id) : id \in 1..(NextId(db, q))} : q \in Queues}

\* Mutant: one of the four handlers forgets addLog.
HandleUnlogged(op) ==
    /\ Len(log) < MaxLog
    /\ TRUE \in Results(db, op)
    /\ db' = Apply(db, op)
    /\ log' = IF op.kind = "deleteMessage" THEN log ELSE Append(log, op)

\* The two halves of a handler of onClientRecv, storing and logging.
Handle(op) ==
    /\ Len(log) < MaxLog
    /\ TRUE \in Results(db, op)
    /\ db' = Apply(db, op)
    /\ log' = Append(log, op)

Next == \E op \in Requests : Handle(op)

Spec == Init /\ [][Next]_vars

-----------------------------------------------------------------------------
\* Database and log have their types.
TypeOK ==
    /\ db \in DbSet(Queues, Msgs)
    /\ log \in Seq(OpSet(Queues, Msgs))

\* The log tells everything: replayed from nothing it gives the database.
LogRestores == Replay(EmptyDb(Queues), log) = db

\* Replaying any tail of the log on top of the whole log changes nothing,
\* although on the way operations fail, messages that were deleted come back
\* and whole queues are dropped.  So a node may be sent too much of the log.
ReplayIsIdempotent ==
    \A k \in 1..(Len(log) + 1) :
        Replay(db, SubSeq(log, k, Len(log))) = db

\* AUTOINCREMENT: within the life of a queue an id is never used again, also
\* when its message is gone, so a late deleteMessage hits no other message.
IdsNotReused ==
    \A i, j \in DOMAIN log :
        /\ i < j
        /\ log[i].kind = "putMessage" /\ log[j].kind = "putMessage"
        /\ log[i].q = log[j].q /\ log[i].id = log[j].id
        => \E k \in i..j : log[k] = DropOp(log[i].q)

=============================================================================
