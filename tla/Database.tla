------------------------------ MODULE Database -------------------------------
(***************************************************************************)
(* The storage of a data node (class Database, Database.cpp) and the log   *)
(* records that describe changes of it (Logger.cpp), as operators.         *)
(*                                                                         *)
(* A queue is an SQLite table with an AUTOINCREMENT key.  Of a table we    *)
(* keep whether it exists, the largest id it has ever held (the row of     *)
(* sqlite_sequence, which DROP TABLE removes) and its rows.                *)
(***************************************************************************)
EXTENDS Naturals, Sequences, SequencesExt

NoTable == [made |-> FALSE, seq |-> 0, rows |-> {}]
EmptyTable == [NoTable EXCEPT !.made = TRUE]

\* A database without queues.
EmptyDb(Queues) == [q \in Queues |-> NoTable]

DbSet(Queues, Msgs) ==
    [Queues -> [made : BOOLEAN, seq : Nat, rows : SUBSET (Nat \X Msgs)]]

HasRow(d, q, id) == \E r \in d[q].rows : r[1] = id

-----------------------------------------------------------------------------
(***************************************************************************)
(* Operations.  An operation is the command that a data node logs and that *)
(* the master passes on; fields a command does not have are 0 and NoMsg.   *)
(***************************************************************************)
NoMsg == ""

CreateOp(q) == [kind |-> "createQueue", q |-> q, id |-> 0, msg |-> NoMsg]
DropOp(q) == [kind |-> "deleteQueue", q |-> q, id |-> 0, msg |-> NoMsg]
\* Mutant: the -1 that stands for "choose an id" is logged instead of the id.
PutOpNoId(q, id, m) == [kind |-> "putMessage", q |-> q, id |-> 0 - 1, msg |-> m]

PutOp(q, id, m) == [kind |-> "putMessage", q |-> q, id |-> id, msg |-> m]
RemoveOp(q, id) == [kind |-> "deleteMessage", q |-> q, id |-> id, msg |-> NoMsg]

OpSet(Queues, Msgs) ==
    [kind : {"createQueue", "deleteQueue"}, q : Queues, id : {0}, msg : {NoMsg}]
      \cup [kind : {"putMessage"}, q : Queues, id : Nat, msg : Msgs]
      \cup [kind : {"deleteMessage"}, q : Queues, id : Nat, msg : {NoMsg}]

\* Mutant: the key is not AUTOINCREMENT.
NextIdReused(d, q) ==
    LET ids == {r[1] : r \in d[q].rows}
    IN IF ids = {} THEN 1 ELSE Max(ids) + 1

\* INSERT INTO q values(NULL, m): the id that AUTOINCREMENT picks.
NextId(d, q) == d[q].seq + 1

\* Mutant: a message is stored under an id of the node's own choice, as
\* putMessage does when it is called without an id.
ChangedOwnId(d, op) ==
    CASE op.kind = "createQueue"   -> [d EXCEPT ![op.q] = EmptyTable]
      [] op.kind = "deleteQueue"   -> [d EXCEPT ![op.q] = NoTable]
      [] op.kind = "putMessage"    ->
            [d EXCEPT ![op.q].rows = @ \cup {<<NextId(d, op.q), op.msg>>},
                      ![op.q].seq = NextId(d, op.q)]
      [] op.kind = "deleteMessage" ->
            [d EXCEPT ![op.q].rows = {r \in @ : r[1] # op.id}]

\* What SQLite makes of the operation when it succeeds.
Changed(d, op) ==
    CASE op.kind = "createQueue"   -> [d EXCEPT ![op.q] = EmptyTable]
      [] op.kind = "deleteQueue"   -> [d EXCEPT ![op.q] = NoTable]
      [] op.kind = "putMessage"    ->
            [d EXCEPT ![op.q].rows = @ \cup {<<op.id, op.msg>>},
                      ![op.q].seq = IF op.id > @ THEN op.id ELSE @]
      [] op.kind = "deleteMessage" ->
            [d EXCEPT ![op.q].rows = {r \in @ : r[1] # op.id}]

\* SQLite accepts the statement: the table is there, or is not, and INSERT
\* does not repeat a key.
Legal(d, op) ==
    /\ d[op.q].made = (op.kind # "createQueue")
    /\ op.kind = "putMessage" => ~HasRow(d, op.q, op.id)

\* The operation done on a database, which a refused statement leaves alone.
Apply(d, op) == IF Legal(d, op) THEN Changed(d, op) ELSE d

\* What the method may return.  hasMessage returns an uninitialized bool when
\* it finds no row; deleteMessage then deletes nothing, successfully, or fails.
Results(d, op) ==
    IF op.kind = "deleteMessage" /\ Legal(d, op) /\ ~HasRow(d, op.q, op.id)
    THEN BOOLEAN
    ELSE {Legal(d, op)}

\* A database after the operations of a log, in the order of the log.
Replay(d, l) == FoldLeft(Apply, d, l)

=============================================================================
