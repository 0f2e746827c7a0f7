------------------------------ MODULE SQSClient -------------------------------
(***************************************************************************)
(* The client library (class SQSClient, SQSClient.cpp): how a call asks    *)
(* the master for a data node, sends its request, tries again and reports  *)
(* success or failure, next to other clients of the same queues.           *)
(*                                                                         *)
(* An answer may not come: because the node is not alive, which the master *)
(* does not test before it names one, or because it is slow, and then the  *)
(* request is served after the client has given it up.                     *)
(*                                                                         *)
(* The team has one data node, the store of QueueStore: another node that  *)
(* the master names is that one again.  What becomes of a request that is  *)
(* repeated at a node with a database of its own is not modelled here.     *)
(* Locks of messages are left to Delivery.                                 *)
(***************************************************************************)
EXTENDS Database

CONSTANTS Queues, Msgs,
          Blank,        \* the messages with a blank in them
          MaxLog,       \* bound on the number of logged operations
          MaxLate       \* bound on requests under way that nobody waits for

ASSUME SQSClientAssumption ==
    /\ Blank \subseteq Msgs /\ NoMsg \notin Blank
    /\ MaxLog \in Nat /\ MaxLate \in Nat

Kinds == {"createQueue", "listQueues", "deleteQueue", "putMessage",
          "getMessage", "deleteMessage"}
Request == [kind : Kinds, q : Queues, id : Nat, msg : Msgs \cup {NoMsg}]
NoCall == [kind |-> "none"]

VARIABLES
    db, log,    \* the store
    call,       \* the method that runs, with its arguments
    pc,         \* where it is
    ready,      \* isDataNodeReady
    cnt, total, \* the counters of the method
    result,     \* what the last call returned
    late,       \* requests under way that the client has given up
    asked       \* history: requests to data nodes in this call
clientVars == <<call, pc, ready, cnt, total, result>>
vars == <<db, log, clientVars, late, asked>>

Store == INSTANCE QueueStore

\* The constructor.
Init ==
    /\ Store!Init
    /\ call = NoCall
    /\ pc = "idle"
    /\ ready = FALSE
    /\ cnt = 0 /\ total = 0
    /\ result = FALSE
    /\ late = {}
    /\ asked = 0

-----------------------------------------------------------------------------
(***************************************************************************)
(* The other side.                                                         *)
(***************************************************************************)

\* SQSMaster::onClientReqRecv: a node that has joined, at random and alive or
\* not, or none; or there is no answer.  Only the first makes a node ready.
AvailableHost == {"nodeName", "No Data Node available", "no answer"}

\* The change that a request asks for.
Operation(r) ==
    CASE r.kind = "createQueue"   -> CreateOp(r.q)
      [] r.kind = "deleteQueue"   -> DropOp(r.q)
      [] r.kind = "putMessage"    -> PutOp(r.q, NextId(db, r.q), r.msg)
      [] r.kind = "deleteMessage" -> RemoveOp(r.q, r.id)

\* The library puts messages into the path of a request as they are.  HTTP has
\* no room for a blank there: the server answers by itself that it is no request.
Answer == {"success", "fail", "error page"}

\* DataNode::onClientRecv serves r, and says that it succeeded or that it failed.
ServeWell(r, ok) ==
    CASE r.kind = "listQueues" -> ok /\ UNCHANGED <<db, log>>
      [] r.kind = "getMessage" -> (ok => db[r.q].rows # {}) /\ UNCHANGED <<db, log>>
      [] OTHER -> /\ ok \in Results(db, Operation(r))
                  /\ IF ok THEN Store!Handle(Operation(r))
                     ELSE UNCHANGED <<db, log>>

Serve(r, rsp) ==
    IF r.msg \in Blank THEN rsp = "error page" /\ UNCHANGED <<db, log>>
    ELSE rsp # "error page" /\ ServeWell(r, rsp = "success")

-----------------------------------------------------------------------------
(***************************************************************************)
(* The methods.  They differ in the request, and in what they return.      *)
(***************************************************************************)

Call(c) ==
    /\ pc = "idle"
    /\ call' = c
    /\ pc' = IF ready THEN "ask" ELSE "host"
    /\ cnt' = 0 /\ total' = 0
    /\ asked' = 0
    /\ result' = FALSE
    /\ UNCHANGED <<db, log, ready, late>>

Return(value) ==
    /\ pc' = "idle"
    /\ call' = NoCall
    /\ result' = value

Proceed(label) == pc' = label /\ UNCHANGED <<call, result>>

\* getRemoteHost, when isDataNodeReady is false.
GetRemoteHost(rsp) == ready' = (rsp = "nodeName")

\* The loop at the start: four times at most.
FindHost ==
    /\ pc = "host"
    /\ \E rsp \in AvailableHost : GetRemoteHost(rsp)
    /\ CASE ready' -> Proceed("ask") /\ cnt' = 0
         [] ~ready' /\ cnt < 3 -> Proceed("host") /\ cnt' = cnt + 1
         [] OTHER -> Return(FALSE) /\ UNCHANGED cnt
    /\ UNCHANGED <<db, log, total, late, asked>>

\* What is sent: DeleteMessage repeats its request as one to delete the queue.
Path ==
    IF call.kind = "deleteMessage" /\ asked > 0
    THEN [call EXCEPT !.kind = "deleteQueue", !.id = 0] ELSE call

\* A call makes eleven requests; we count up to twelve.
Count(n) == IF n < 12 THEN n + 1 ELSE n

\* Mutant: any answer is a success.
ValueAny(rsp) == TRUE

\* What the method makes of an answer.  CreateQueue and DeleteMessage take any
\* for success, SendMessage all but those that it knows.
Value(rsp) ==
    CASE call.kind \in {"createQueue", "deleteMessage"} -> TRUE
      [] call.kind = "putMessage" -> rsp # "fail"
      [] OTHER -> rsp = "success"

Answered(rsp) ==
    /\ pc = "ask"
    /\ Serve(Path, rsp)
    /\ Return(Value(rsp))
    /\ asked' = Count(asked)
    /\ UNCHANGED <<ready, cnt, total, late>>

\* Mutant: the tries are not counted in all.
AgainForEver == Proceed("ask") /\ total' = 0

\* Mutant: one try too many.
AgainOnce ==
    /\ total' = total + 1
    /\ IF total <= 10 THEN Proceed("ask") ELSE Return(FALSE)

\* One more request, ten times at most.  SendMessage then reads the answer it
\* has not got, which ends the process; the other methods return false.
Again ==
    /\ total' = total + 1
    /\ CASE total < 10 -> Proceed("ask")
         [] total >= 10 /\ call.kind = "putMessage" -> Proceed("crashed")
         [] OTHER -> Return(FALSE)

\* The request may be lost or still on its way.
Leave(r) == late' \in {late} \cup {late \cup {r}} /\ Cardinality(late') <= MaxLate

\* doRequest returns NULL.  At the fourth time in a row another node is looked for.
Unanswered ==
    /\ pc = "ask"
    /\ Leave(Path)
    /\ asked' = Count(asked)
    /\ cnt' = cnt + 1
    /\ IF cnt < 3 THEN Again /\ UNCHANGED ready
       ELSE Proceed("rehost") /\ ready' = FALSE /\ UNCHANGED total
    /\ UNCHANGED <<db, log>>

FindOther ==
    /\ pc = "rehost"
    /\ \E rsp \in AvailableHost : GetRemoteHost(rsp)
    /\ IF ready' THEN cnt' = 0 /\ Again
       ELSE Return(FALSE) /\ UNCHANGED <<cnt, total>>
    /\ UNCHANGED <<db, log, late, asked>>

-----------------------------------------------------------------------------
\* A request that was given up is served after all.
ServeLate ==
    /\ \E r \in late, rsp \in Answer : Serve(r, rsp) /\ late' = late \ {r}
    /\ UNCHANGED <<clientVars, asked>>

\* Other clients.
Others ==
    /\ Store!Next
    /\ UNCHANGED <<clientVars, late, asked>>

\* The calls: an id is one that there has been.
Calls ==
    UNION {[kind : {"createQueue", "listQueues", "deleteQueue", "getMessage"},
            q : {q}, id : {0}, msg : {NoMsg}]
             \cup [kind : {"putMessage"}, q : {q}, id : {0}, msg : Msgs]
             \cup [kind : {"deleteMessage"}, q : {q}, id : 1..db[q].seq, msg : {NoMsg}]
           : q \in Queues}

Step ==
    \/ FindHost \/ FindOther
    \/ \E rsp \in Answer : Answered(rsp)
    \/ Unanswered

Next ==
    \/ \E c \in Calls : Call(c)
    \/ Step
    \/ ServeLate
    \/ Others

Spec == Init /\ [][Next]_vars

\* doRequest returns, with an answer or without: the HTTP client gives up.
FairSpec == Spec /\ WF_vars(Step)

-----------------------------------------------------------------------------
(***************************************************************************)
(* Properties.                                                             *)
(***************************************************************************)

TypeOK ==
    /\ Store!TypeOK
    /\ call \in Request \cup {NoCall}
    /\ pc \in {"idle", "host", "ask", "rehost", "crashed"}
    /\ ready \in BOOLEAN /\ result \in BOOLEAN
    /\ cnt \in 0..4 /\ total \in 0..11
    /\ late \subseteq Request
    /\ asked \in 0..12

\* What QueueStore promises of the log holds whatever clients repeat, give up
\* or have served late.
LogRestores == Store!LogRestores
ReplayIsIdempotent == Store!ReplayIsIdempotent
IdsNotReused == Store!IdsNotReused

\* A call ends after eleven requests at most, though two counters and two
\* loops decide about it, one of which starts again with every new node.
RequestsBounded == asked <= 11

\* SendMessage and DeleteQueue report success at the moment when a request of
\* theirs has changed the store, and at no other, whatever went unanswered and
\* whatever others did before; but for messages with a blank.
SuccessIsReal ==
    [][pc # "idle" /\ pc' = "idle" /\ result'
          /\ call.kind \in {"putMessage", "deleteQueue"}
       => call.msg \in Blank \/ log' # log]_vars

\* Every call returns or ends the process, whether or not there is a master,
\* whether or not the nodes it names are alive.
CallsReturn == (pc # "idle") ~> (pc \in {"idle", "crashed"})

\* "delete a message from a queue with a message id" (SQSClient.h:71): the
\* requests of DeleteMessage delete no other message.
DeletesOnlyNamed ==
    [][\A rsp \in Answer :
        Answered(rsp) /\ call.kind = "deleteMessage" =>
            \A r \in db[call.q].rows : r[1] # call.id => r \in db'[call.q].rows]_vars

=============================================================================
