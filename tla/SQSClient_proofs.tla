--------------------------- MODULE SQSClient_proofs ---------------------------
(***************************************************************************)
(* Proofs about SQSClient, for any queues and messages, whatever the data  *)
(* nodes answer and other clients do.                                      *)
(***************************************************************************)
EXTENDS SQSClient, Database_proofs

\* The requests of a call so far are its tries so far; while another node is
\* looked for, the last request is not yet counted as a try.
Tried ==
    /\ pc \in {"idle", "host", "ask", "rehost", "crashed"}
    /\ total \in 0..11 /\ asked \in 0..11 /\ cnt \in 0..4
    /\ pc = "host" => asked = 0 /\ total = 0 /\ cnt <= 3
    /\ pc = "ask" => asked = total /\ total <= 10 /\ cnt <= 3
    /\ pc = "rehost" => asked = total + 1 /\ total <= 10

\* The log is a sequence, of whatever.
IsLog == \E S : log \in Seq(S)

\* One more line makes a longer log.
LEMMA AppendIsLog ==
    ASSUME IsLog, NEW e, log' = Append(log, e)
    PROVE  IsLog' /\ log' # log
<1>1. PICK S : log \in Seq(S)
  BY DEF IsLog
<1>2. \A i \in 1..Len(log) : log[i] \in S
  BY <1>1
<1>3. log \in Seq(S \cup {e})
  BY <1>1, <1>2
<1>4. log' \in Seq(S \cup {e}) /\ Len(log') = Len(log) + 1 /\ Len(log) \in Nat
  BY <1>3
<1> QED
  BY <1>4 DEF IsLog

\* A data node that serves a request logs it or nothing; what it says was
\* done it has logged, but for requests that ask only.
LEMMA ServeLogs ==
    ASSUME IsLog, NEW r, NEW ok, ServeWell(r, ok)
    PROVE  /\ IsLog'
           /\ ok /\ r.kind \in {"putMessage", "deleteQueue"} => log' # log
<1>1. CASE log' = log /\ ~(ok /\ r.kind \in {"putMessage", "deleteQueue"})
  BY <1>1 DEF IsLog
<1>2. CASE Store!Handle(Operation(r))
  <2>1. PICK e : log' = Append(log, e)
    BY <1>2 DEF Store!Handle
  <2> QED
    BY <2>1, AppendIsLog
<1>3. \/ log' = log /\ ~(ok /\ r.kind \in {"putMessage", "deleteQueue"})
      \/ Store!Handle(Operation(r))
  <2>1. CASE r.kind = "listQueues"
    BY <2>1 DEF ServeWell
  <2>2. CASE r.kind = "getMessage"
    BY <2>2 DEF ServeWell
  <2>3. CASE r.kind \notin {"listQueues", "getMessage"}
    <3>1. IF ok THEN Store!Handle(Operation(r)) ELSE UNCHANGED <<db, log>>
      BY <2>3 DEF ServeWell
    <3> QED
      BY <3>1
  <2> QED
    BY <2>1, <2>2, <2>3
<1> QED
  BY <1>1, <1>2, <1>3

\* An answer that no node has given changes nothing.
LEMMA AnyServeLogs ==
    ASSUME IsLog, NEW r, NEW rsp, Serve(r, rsp)
    PROVE  /\ IsLog'
           /\ rsp = "success" /\ r.kind \in {"putMessage", "deleteQueue"} => log' # log
           /\ r.msg \notin Blank => rsp # "error page"
<1>1. CASE r.msg \in Blank
  BY <1>1 DEF Serve, IsLog
<1>2. CASE r.msg \notin Blank
  BY <1>2, ServeLogs DEF Serve
<1> QED
  BY <1>1, <1>2

-----------------------------------------------------------------------------
(***************************************************************************)
(* The steps of a call.                                                    *)
(***************************************************************************)
LEMMA AgainTried ==
    ASSUME Tried, Again, total <= 10, asked' = total + 1, cnt' \in 0..3
    PROVE  Tried' /\ (pc' = "idle" => ~result')
<1>1. CASE total < 10
  <2>1. ~(total >= 10) /\ total \in Nat
    BY <1>1 DEF Tried
  <2>2. total' = total + 1 /\ pc' = "ask"
    BY <1>1, <2>1 DEF Again, Proceed
  <2> QED
    BY <1>1, <2>1, <2>2 DEF Tried
<1>2. CASE total >= 10 /\ call.kind = "putMessage"
  BY <1>2 DEF Again, Proceed, Tried
<1>3. CASE total >= 10 /\ call.kind # "putMessage"
  BY <1>3 DEF Again, Return, Tried
<1> QED
  BY <1>1, <1>2, <1>3 DEF Tried

\* The loops count what has been asked.
LEMMA FindHostTried ==
    ASSUME Tried, FindHost
    PROVE  Tried' /\ log' = log /\ (pc' = "idle" => ~result')
<1>1. pc = "host" /\ UNCHANGED <<log, total, asked>>
  BY DEF FindHost
<1>2. \/ Proceed("ask") /\ cnt' = 0
      \/ Proceed("host") /\ cnt < 3 /\ cnt' = cnt + 1
      \/ Return(FALSE) /\ cnt' = cnt
  BY DEF FindHost
<1> QED
  BY <1>1, <1>2 DEF Proceed, Return, Tried

\* A node did not answer and another one is looked for.
LEMMA FindOtherTried ==
    ASSUME Tried, FindOther
    PROVE  Tried' /\ log' = log /\ (pc' = "idle" => ~result')
<1>1. pc = "rehost" /\ UNCHANGED <<log, asked>>
  BY DEF FindOther
<1>2. CASE cnt' = 0 /\ Again
  <2>1. total <= 10 /\ asked' = total + 1
    BY <1>1 DEF Tried
  <2> QED
    BY <1>1, <1>2, <2>1, AgainTried
<1>3. CASE Return(FALSE) /\ UNCHANGED <<cnt, total>>
  BY <1>1, <1>3 DEF Return, Tried
<1> QED
  BY <1>2, <1>3 DEF FindOther

\* A request is not answered.
LEMMA UnansweredTried ==
    ASSUME Tried, Unanswered
    PROVE  Tried' /\ log' = log /\ (pc' = "idle" => ~result')
<1>1. /\ pc = "ask" /\ log' = log /\ asked' = Count(asked) /\ cnt' = cnt + 1
  BY DEF Unanswered
<1>2. asked = total /\ total <= 10 /\ asked' = total + 1
  BY <1>1 DEF Tried, Count
<1>3. CASE cnt < 3 /\ Again
  <2>1. cnt' \in 0..3
    BY <1>1, <1>3 DEF Tried
  <2> QED
    BY <1>1, <1>2, <1>3, <2>1, AgainTried
<1>4. CASE cnt = 3 /\ Proceed("rehost") /\ UNCHANGED total
  BY <1>1, <1>2, <1>4 DEF Proceed, Tried
<1>5. cnt < 3 \/ cnt = 3
  BY <1>1 DEF Tried
<1> QED
  BY <1>3, <1>4, <1>5 DEF Unanswered

\* A request is answered: success is never reported of nothing.
LEMMA AnsweredTried ==
    ASSUME Tried, IsLog, NEW rsp \in Answer, Answered(rsp)
    PROVE  /\ Tried' /\ IsLog'
           /\ result' /\ call.kind \in {"putMessage", "deleteQueue"}
                => call.msg \in Blank \/ log' # log
<1>1. /\ pc = "ask" /\ Serve(Path, rsp) /\ asked' = Count(asked)
      /\ UNCHANGED <<cnt, total>> /\ pc' = "idle" /\ result' = Value(rsp)
  BY DEF Answered, Return
<1>2. Tried'
  BY <1>1 DEF Tried, Count
<1>3. /\ IsLog'
      /\ Path.msg \notin Blank => rsp # "error page"
      /\ rsp = "success" /\ Path.kind \in {"putMessage", "deleteQueue"} => log' # log
  BY <1>1, AnyServeLogs
<1>4. ASSUME result', call.kind \in {"putMessage", "deleteQueue"}
      PROVE  rsp # "fail" /\ (call.kind = "deleteQueue" => rsp = "success") /\ Path = call
  BY <1>1, <1>4 DEF Value, Path
<1>5. rsp \in {"success", "fail", "error page"}
  BY DEF Answer
<1> QED
  BY <1>2, <1>3, <1>4, <1>5

-----------------------------------------------------------------------------
(***************************************************************************)
(* The store under the requests of clients, given up, repeated or not.     *)
(* QueueStore has operators of its own copy of Database, which are those   *)
(* of Database.                                                            *)
(***************************************************************************)
LEMMA SameApply ==
    ASSUME NEW d, NEW op
    PROVE  Store!Apply(d, op) = Apply(d, op)
BY DEF Store!Apply, Apply, Store!Legal, Legal, Store!Changed, Changed, Store!HasRow, HasRow,
       Store!EmptyTable, EmptyTable, Store!NoTable, NoTable

\* Conditions,
LEMMA SameLegal ==
    ASSUME NEW d, NEW op
    PROVE  Store!Legal(d, op) <=> Legal(d, op)
BY DEF Store!Legal, Legal, Store!HasRow, HasRow

\* replays and
LEMMA SameReplay ==
    ASSUME NEW d, NEW l
    PROVE  Store!Replay(d, l) = Replay(d, l)
BY SameApply DEF Store!Replay, Replay, Store!FoldLeft, FoldLeft,
                 Store!MapThenFoldSet, MapThenFoldSet, Store!Max, Max

\* operations of the instance are those of Database, too.
LEMMA SameOps ==
    ASSUME NEW q
    PROVE  /\ Store!CreateOp(q) = CreateOp(q) /\ Store!DropOp(q) = DropOp(q)
           /\ \A id : Store!RemoveOp(q, id) = RemoveOp(q, id)
           /\ \A id, m : Store!PutOp(q, id, m) = PutOp(q, id, m)
           /\ Store!NextId(db, q) = NextId(db, q)
BY DEF Store!CreateOp, CreateOp, Store!DropOp, DropOp, Store!RemoveOp, RemoveOp,
       Store!PutOp, PutOp, Store!NextId, NextId, Store!NoMsg, NoMsg

\* Database and log are what Database_proofs is about.
Promised == Sound(Queues, Msgs, db, log)

\* An operation that a node is asked for: it chooses the id of a message.
Fits(op) ==
    /\ op \in OpSet(Queues, Msgs)
    /\ op.kind = "putMessage" => op.id = NextId(db, op.q)

\* A handler does what Database_proofs calls to serve an operation.
LEMMA HandleKept ==
    ASSUME Promised, NEW op, Fits(op), Store!Handle(op)
    PROVE  Promised'
<1>1. /\ TRUE \in Store!Results(db, op)
      /\ db' = Apply(db, op) /\ log' = Append(log, op)
  BY SameApply DEF Store!Handle
<1>2. Legal(db, op)
  BY <1>1, SameLegal DEF Store!Results
<1>3. Served(Queues, Msgs, db, op)
  BY <1>2 DEF Fits, Served
<1>4. Sound(Queues, Msgs, Apply(db, op), Append(log, op))
  BY <1>3, SoundGrows DEF Promised
<1> QED
  BY <1>1, <1>4 DEF Promised

\* A request as a client makes it.
Sent(r) == r \in Request /\ (r.kind = "putMessage" => r.msg \in Msgs)

\* What a request asks for is an operation ...
LEMMA OperationFits ==
    ASSUME Promised, NEW r, Sent(r), r.kind \notin {"listQueues", "getMessage"}
    PROVE  Fits(Operation(r))
<1>1. /\ r.q \in Queues /\ r.id \in Nat
      /\ r.kind \in {"createQueue", "deleteQueue", "putMessage", "deleteMessage"}
  BY DEF Sent, Request, Kinds
<1>2. NextId(db, r.q) \in Nat
  BY <1>1, NextIdTyped DEF Promised, Sound
<1>3. CASE r.kind = "createQueue"
  BY <1>1, <1>3, OpsAreOps DEF Operation, Fits, CreateOp
<1>4. CASE r.kind = "deleteQueue"
  BY <1>1, <1>4, OpsAreOps DEF Operation, Fits, DropOp
<1>5. CASE r.kind = "putMessage"
  <2>1. Operation(r) = PutOp(r.q, NextId(db, r.q), r.msg) /\ r.msg \in Msgs
    BY <1>5 DEF Operation, Sent
  <2>2. PutOp(r.q, NextId(db, r.q), r.msg) \in OpSet(Queues, Msgs)
    BY <1>1, <1>2, <2>1, OpsAreOps
  <2> QED
    BY <2>1, <2>2 DEF Fits, PutOp
<1>6. CASE r.kind = "deleteMessage"
  BY <1>1, <1>6, OpsAreOps DEF Operation, Fits, RemoveOp
<1> QED
  BY <1>1, <1>3, <1>4, <1>5, <1>6

\* ... and so is what the other clients ask for.
LEMMA RequestFits ==
    ASSUME Promised, NEW op \in Store!Requests
    PROVE  Fits(op)
<1>1. PICK q \in Queues :
        \/ op = CreateOp(q)
        \/ op = DropOp(q)
        \/ \E m \in Msgs : op = PutOp(q, NextId(db, q), m)
        \/ \E id \in 1..(NextId(db, q)) : op = RemoveOp(q, id)
  BY SameOps DEF Store!Requests
<1>2. NextId(db, q) \in Nat
  BY NextIdTyped DEF Promised, Sound
<1>3. op \in OpSet(Queues, Msgs)
  <2>1. \A id \in 1..(NextId(db, q)) : id \in Nat
    BY <1>2
  <2> QED
    BY <1>1, <1>2, <2>1, OpsAreOps
<1>4. op.kind = "putMessage" => op.id = NextId(db, op.q)
  BY <1>1 DEF CreateOp, DropOp, PutOp, RemoveOp
<1> QED
  BY <1>3, <1>4 DEF Fits

\* A node that serves a request keeps what the log promises.
LEMMA ServeKept ==
    ASSUME Promised, NEW r, Sent(r), NEW ok, ServeWell(r, ok)
    PROVE  Promised'
<1>1. CASE UNCHANGED <<db, log>>
  BY <1>1 DEF Promised
<1>2. CASE r.kind \in {"listQueues", "getMessage"}
  BY <1>1, <1>2 DEF ServeWell
<1>3. CASE r.kind \notin {"listQueues", "getMessage"}
  <2>1. IF ok THEN Store!Handle(Operation(r)) ELSE UNCHANGED <<db, log>>
    BY <1>3 DEF ServeWell
  <2> QED
    BY <1>1, <1>3, <2>1, OperationFits, HandleKept
<1> QED
  BY <1>2, <1>3

\* So does one that is not served.
LEMMA AnyServeKept ==
    ASSUME Promised, NEW r, Sent(r), NEW rsp, Serve(r, rsp)
    PROVE  Promised'
<1>1. CASE r.msg \in Blank
  BY <1>1 DEF Serve, Promised
<1>2. CASE r.msg \notin Blank
  BY <1>2, ServeKept DEF Serve
<1> QED
  BY <1>1, <1>2

\* What is under way are requests, and the store keeps its promises.
Kept ==
    /\ Promised
    /\ IF pc = "idle" THEN call = NoCall ELSE Sent(call)
    /\ \A r \in late : Sent(r)

\* The request of a call ...
LEMMA PathSent ==
    ASSUME Sent(call)
    PROVE  Sent(Path)
<1>1. PICK r : r = [call EXCEPT !.kind = "deleteQueue", !.id = 0]
  OBVIOUS
<1>2. r \in Request /\ r.kind = "deleteQueue"
  BY <1>1 DEF Sent, Request, Kinds
<1>3. Path = call \/ Path = r
  BY <1>1 DEF Path
<1> QED
  BY <1>2, <1>3 DEF Sent

\* ... which a client has made.
LEMMA CallSent ==
    ASSUME Promised, NEW c \in Calls
    PROVE  Sent(c)
<1>1. PICK q \in Queues :
        \/ c \in [kind : {"createQueue", "listQueues", "deleteQueue", "getMessage"},
                  q : {q}, id : {0}, msg : {NoMsg}]
        \/ c \in [kind : {"putMessage"}, q : {q}, id : {0}, msg : Msgs]
        \/ c \in [kind : {"deleteMessage"}, q : {q}, id : 1..db[q].seq, msg : {NoMsg}]
  BY DEF Calls
<1> QED
  BY <1>1 DEF Sent, Request, Kinds

\* Every step.
LEMMA KeptStep ==
    ASSUME Kept, [Next]_vars
    PROVE  Kept'
<1>1. CASE UNCHANGED <<db, log>>
  <2>1. Promised'
    BY <1>1 DEF Kept, Promised
  <2>2. ASSUME NEW c \in Calls, Call(c) PROVE Kept'
    <3>1. call' = c /\ late' = late /\ pc' # "idle"
      BY <2>2 DEF Call
    <3>2. Sent(c)
      BY CallSent DEF Kept
    <3> QED
      BY <2>1, <3>1, <3>2 DEF Kept, Sent
  <2>3. CASE FindHost \/ FindOther \/ Unanswered
    <3>1. /\ pc # "idle" /\ late' \subseteq late \cup {Path}
          /\ IF pc' = "idle" THEN call' = NoCall ELSE call' = call
      BY <2>3 DEF FindHost, FindOther, Unanswered, Leave, Proceed, Return, Again
    <3>2. Sent(call) /\ Sent(Path)
      BY <3>1, PathSent DEF Kept
    <3> QED
      BY <2>1, <3>1, <3>2 DEF Kept, Sent
  <2>4. CASE UNCHANGED vars
    BY <2>1, <2>4 DEF vars, clientVars, Kept, Sent
  <2>5. CASE ServeLate \/ Others
    <3>1. UNCHANGED <<call, pc>> /\ late' \subseteq late
      BY <2>5 DEF ServeLate, Others, clientVars
    <3> QED
      BY <2>1, <3>1 DEF Kept, Sent
  <2>6. ASSUME NEW rsp \in Answer, Answered(rsp) PROVE Kept'
    <3>1. pc' = "idle" /\ call' = NoCall /\ late' = late
      BY <2>6 DEF Answered, Return
    <3> QED
      BY <2>1, <3>1 DEF Kept, Sent
  <2> QED
    BY <2>2, <2>3, <2>4, <2>5, <2>6 DEF Next, Step
<1>2. ASSUME NEW rsp \in Answer, Answered(rsp) PROVE Kept'
  <2>1. /\ pc # "idle" /\ Serve(Path, rsp) /\ late' = late
        /\ pc' = "idle" /\ call' = NoCall
    BY <1>2 DEF Answered, Return
  <2>2. Promised'
    BY <2>1, PathSent, AnyServeKept DEF Kept
  <2> QED
    BY <2>1, <2>2 DEF Kept, Sent
<1>3. ASSUME UNCHANGED <<call, pc>>, late' \subseteq late, Promised' PROVE Kept'
  BY <1>3 DEF Kept, Sent
<1>4. CASE ServeLate
  <2>1. PICK r \in late, rsp \in Answer : Serve(r, rsp) /\ late' = late \ {r}
    BY <1>4 DEF ServeLate
  <2>2. Promised'
    BY <2>1, AnyServeKept DEF Kept
  <2> QED
    BY <1>3, <1>4, <2>1, <2>2 DEF ServeLate, clientVars
<1>5. CASE Others
  <2>1. PICK op \in Store!Requests : Store!Handle(op)
    BY <1>5 DEF Others, Store!Next
  <2>2. Promised'
    BY <2>1, RequestFits, HandleKept DEF Kept
  <2> QED
    BY <1>3, <1>5, <2>2 DEF Others, clientVars
<1>6. (\E c \in Calls : Call(c)) \/ FindHost \/ FindOther \/ Unanswered \/ UNCHANGED vars
        => UNCHANGED <<db, log>>
  BY DEF Call, FindHost, FindOther, Unanswered, vars
<1> QED
  BY <1>1, <1>2, <1>4, <1>5, <1>6 DEF Next, Step

-----------------------------------------------------------------------------
(***************************************************************************)
(* The theorems.                                                           *)
(***************************************************************************)
Succeeded ==
    pc # "idle" /\ pc' = "idle" /\ result'
        /\ call.kind \in {"putMessage", "deleteQueue"}

\* Every step.
LEMMA Steps ==
    ASSUME Tried, IsLog, [Next]_vars
    PROVE  Tried' /\ IsLog' /\ (Succeeded => call.msg \in Blank \/ log' # log)
<1>1. ASSUME NEW c, Call(c) PROVE Tried' /\ IsLog' /\ ~Succeeded
  BY <1>1 DEF Call, Tried, IsLog, Succeeded
<1>2. CASE FindHost \/ FindOther \/ Unanswered
  BY <1>2, FindHostTried, FindOtherTried, UnansweredTried DEF IsLog, Succeeded
<1>3. ASSUME NEW rsp \in Answer, Answered(rsp)
      PROVE  Tried' /\ IsLog' /\ (Succeeded => call.msg \in Blank \/ log' # log)
  BY <1>3, AnsweredTried DEF Succeeded
<1>4. ASSUME UNCHANGED <<clientVars, asked>>, IsLog'
      PROVE  Tried' /\ IsLog' /\ ~Succeeded
  BY <1>4 DEF clientVars, Tried, Succeeded
<1>5. CASE ServeLate
  <2>1. UNCHANGED <<clientVars, asked>> /\ IsLog'
    BY <1>5, AnyServeLogs DEF ServeLate
  <2> QED
    BY <1>4, <2>1
<1>6. CASE Others
  <2>1. PICK op : log' = Append(log, op)
    BY <1>6 DEF Others, Store!Next, Store!Handle
  <2>2. UNCHANGED <<clientVars, asked>> /\ IsLog'
    BY <1>6, <2>1, AppendIsLog DEF Others
  <2> QED
    BY <1>4, <2>2
<1>7. CASE UNCHANGED vars
  BY <1>4, <1>7 DEF vars, IsLog
<1> QED
  BY <1>1, <1>2, <1>3, <1>5, <1>6, <1>7 DEF Next, Step

\* Requests are counted in every state.
LEMMA InvAlways == Spec => [](Tried /\ IsLog)
<1>1. Init => Tried /\ IsLog
  <2>1. << >> \in Seq({})
    OBVIOUS
  <2> QED
    BY <2>1 DEF Init, Store!Init, Tried, IsLog
<1> QED
  BY <1>1, Steps, PTL DEF Spec

\* A call makes eleven requests at most.
THEOREM RequestsBoundedAlways == Spec => []RequestsBounded
<1>1. Tried => RequestsBounded
  BY DEF Tried, RequestsBounded
<1> QED
  BY <1>1, InvAlways, PTL

\* SendMessage and DeleteQueue report success only when they changed the store,
\* or when the message has a blank.
THEOREM SuccessIsRealAlways == Spec => SuccessIsReal
<1>1. Tried /\ IsLog /\ [Next]_vars =>
        [pc # "idle" /\ pc' = "idle" /\ result'
             /\ call.kind \in {"putMessage", "deleteQueue"}
           => call.msg \in Blank \/ log' # log]_vars
  BY Steps DEF Succeeded
<1> QED
  BY <1>1, InvAlways, PTL DEF SuccessIsReal, Spec

\* The flags are flags.
Flags == ready \in BOOLEAN /\ result \in BOOLEAN

\* Every step.
LEMMA FlagsStep ==
    ASSUME Flags, [Next]_vars
    PROVE  Flags'
<1>1. ready' \in BOOLEAN
  BY DEF Flags, Next, Step, Call, FindHost, FindOther, GetRemoteHost, Answered, Unanswered,
         ServeLate, Others, vars, clientVars
<1>2. \A rsp \in Answer : Value(rsp) \in BOOLEAN
  BY DEF Value
<1>3. result' \in BOOLEAN
  BY <1>2 DEF Flags, Next, Step, Call, FindHost, FindOther, Answered, Unanswered, Again,
         Proceed, Return, ServeLate, Others, vars, clientVars
<1> QED
  BY <1>1, <1>3 DEF Flags

\* In every state.
LEMMA FlagsAlways == Spec => []Flags
<1>1. Init => Flags
  BY DEF Init, Flags
<1> QED
  BY <1>1, FlagsStep, PTL DEF Spec

\* In every state.
LEMMA KeptAlways == Spec => []Kept
<1>1. Init => Kept
  <2> SUFFICES ASSUME Init PROVE Kept
    OBVIOUS
  <2>1. db = EmptyDb(Queues) /\ log = << >>
    BY DEF Init, Store!Init, Store!EmptyDb, EmptyDb, Store!NoTable, NoTable
  <2>2. Promised
    BY <2>1, EmptySound DEF Promised
  <2> QED
    BY <2>2 DEF Init, Kept
<1> QED
  BY <1>1, KeptStep, PTL DEF Spec

\* Every variable has its type; in particular the counters of a method stay
\* within their loops, and requests under way are ones that a client made.
THEOREM TypeCorrect == Spec => []TypeOK
<1>1. Tried /\ Flags /\ Kept => TypeOK
  <2> SUFFICES ASSUME Tried, Flags, Kept PROVE TypeOK
    OBVIOUS
  <2>1. Store!TypeOK
    BY DEF Kept, Promised, Sound, Store!TypeOK, Store!DbSet, DbSet,
           Store!OpSet, OpSet, Store!NoMsg, NoMsg
  <2>2. call \in Request \cup {NoCall} /\ late \subseteq Request
    BY DEF Kept, Sent
  <2> QED
    BY <2>1, <2>2 DEF Tried, Flags, TypeOK
<1> QED
  BY <1>1, InvAlways, FlagsAlways, KeptAlways, PTL

\* The log of a node, replayed from nothing, gives its database, whatever
\* clients repeat, give up or have served late.
THEOREM LogRestoresAlways == Spec => []LogRestores
<1>1. Kept => LogRestores
  <2> SUFFICES ASSUME Kept PROVE LogRestores
    OBVIOUS
  <2>1. Store!EmptyDb(Queues) = EmptyDb(Queues)
    BY DEF Store!EmptyDb, EmptyDb, Store!NoTable, NoTable
  <2> QED
    BY <2>1, SameReplay DEF Kept, Promised, Sound, LogRestores, Store!LogRestores
<1> QED
  BY <1>1, KeptAlways, PTL

\* Any tail of the log, replayed on the database once more, changes nothing,
\* so the master may send a node too much of it.
THEOREM ReplayIsIdempotentAlways == Spec => []ReplayIsIdempotent
<1>1. Kept => ReplayIsIdempotent
  BY SameReplay DEF Kept, Promised, Sound, TailsDoNothing, ReplayIsIdempotent,
                    Store!ReplayIsIdempotent
<1> QED
  BY <1>1, KeptAlways, PTL

\* Within the life of a queue no message id is used again, whatever clients
\* repeat, give up or have served late.
THEOREM IdsNotReusedAlways == Spec => []IdsNotReused
<1>1. Kept => IdsNotReused
  <2> SUFFICES ASSUME Kept PROVE IdsNotReused
    OBVIOUS
  <2>1. DOMAIN log = 1..Len(log)
    BY DEF Kept, Promised, Sound
  <2> QED
    BY <2>1, SameOps DEF Kept, Promised, Sound, NoneReused, IdsNotReused, Store!IdsNotReused
<1> QED
  BY <1>1, KeptAlways, PTL

===============================================================================
